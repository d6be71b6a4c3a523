------------------------------ MODULE MCDaemon ------------------------------
(* Model-checking instance of Daemon: the values are in MCDaemon.cfg. *)
EXTENDS Daemon
=============================================================================
