----------------------------- MODULE Singleton -----------------------------
(***************************************************************************)
(* What the daemon start-up protocol promises to its clients: at any time  *)
(* at most one daemon serves a home, a daemon serves during one interval,  *)
(* and whoever is being served is served by the daemon that serves now.    *)
(* Files, locks, sockets and polling do not appear here: Daemon shows that *)
(* they implement this.                                                    *)
(***************************************************************************)

CONSTANTS Clients, Daemons, NoDaemon

VARIABLES
  owner,   \* the daemon that serves the home, or NoDaemon
  retired, \* the daemons that will not serve (any more)
  users    \* the clients with a working connection

absVars == <<owner, retired, users>>

AbsInit == owner = NoDaemon /\ retired = {} /\ users = {}

Elect(d) ==
  /\ owner = NoDaemon /\ d \notin retired
  /\ owner' = d
  /\ UNCHANGED <<retired, users>>

Retire ==
  /\ owner # NoDaemon
  /\ owner' = NoDaemon
  /\ retired' = retired \cup {owner}
  /\ users' = {}

\* A daemon gives up before it serves.
Withdraw(d) ==
  /\ d # owner
  /\ retired' = retired \cup {d}
  /\ UNCHANGED <<owner, users>>

Join(c) ==
  /\ owner # NoDaemon /\ c \notin users
  /\ users' = users \cup {c}
  /\ UNCHANGED <<owner, retired>>

Quit(c) ==
  /\ users' = users \ {c}
  /\ UNCHANGED <<owner, retired>>

AbsNext ==
  \/ \E d \in Daemons : Elect(d) \/ Withdraw(d)
  \/ Retire
  \/ \E c \in Clients : Join(c) \/ Quit(c)

SingletonSpec == AbsInit /\ [][AbsNext]_absVars
=============================================================================
