------------------------------- MODULE Daemon -------------------------------
(***************************************************************************)
(* One home directory, the processes that want its daemon and the daemons  *)
(* they spawn (crates/hub/src/daemon.rs).                                  *)
(*                                                                         *)
(* A client runs ensure_daemon: it probes daemon.json and the endpoint in  *)
(* it, and when nobody answers takes daemon.lock to remove the stale files *)
(* and spawn a daemon, or keeps polling while somebody else has the lock.  *)
(* A daemon runs serve: it waits for the same lock, replaces the files,    *)
(* recovers the store, publishes daemon.json and accepts clients until it  *)
(* is stopped or idle, and holds the lock until its files are gone.        *)
(*                                                                         *)
(* The endpoint is `$home/daemon.sock`, one path shared by all daemons of  *)
(* the home: unix_daemon_endpoint prefers it, and a path per daemon leaves *)
(* fewer ways to meet another daemon's socket. daemon.id is written and    *)
(* removed together with daemon.json and read by nobody; it has no         *)
(* variable.                                                               *)
(***************************************************************************)
EXTENDS Naturals, FiniteSets

CONSTANTS
  Clients,     \* processes that call ensure_daemon, once each
  Daemons,     \* processes that can be spawned
  NoDaemon,
  Nobody,      \* the holder of a free lock
  MaxClients,  \* MAX_DAEMON_CLIENTS
  MaxFaults    \* bound: crashes, Ctrl-C and expired start-up timeouts

ASSUME DaemonAssumption ==
  /\ NoDaemon \notin Daemons
  /\ Nobody \notin Clients \cup Daemons
  /\ Clients \cap Daemons = {}
  /\ MaxClients \in Nat
  /\ MaxFaults \in Nat

VARIABLES
  lock,   \* who holds daemon.lock
  meta,   \* the daemon daemon.json names
  sock,   \* the daemon whose listener the socket file leads to
  at,     \* at[c]: the step of ensure_daemon client c is about to take
  way,    \* way[c]: which probe it is: first, locked, poll or recover
  link,   \* link[c]: the daemon at the other end of c's connection
  dpc,    \* dpc[d]: how far daemon d is in serve
  taken,  \* taken[d]: the clients d accepted, each with a client_lease
  idle,   \* idle[d]: idle_timeout has passed since d's last touch()
  work,   \* work[d]: d's prompt worker: none, queued, or running (run_lease)
  row,    \* the daemon that wrote the run row the store has as active
  faults

vars == <<lock, meta, sock, at, way, link, dpc, taken, idle, work, row, faults>>
files == <<meta, sock>>
client == <<at, way, link>>
server == <<taken, idle, work, row>>

Steps == {"start", "read", "connect", "try", "remove", "spawn",
          "linked", "served", "lost", "failed", "gone"}
Phases == {"none", "lockwait", "locked", "clean", "bound", "recovered",
           "serving", "stopping", "cleaned", "released", "dead"}

\* The phases in which serve holds daemon.lock (its _guard is alive).
Holding == {"locked", "clean", "bound", "recovered", "serving", "stopping", "cleaned"}
\* The phases in which the listener is open.
Listening == {"bound", "recovered", "serving"}

Serving == {d \in Daemons : dpc[d] = "serving"}

Init ==
  /\ lock = Nobody /\ meta = NoDaemon /\ sock = NoDaemon
  /\ at = [c \in Clients |-> "start"]
  /\ way = [c \in Clients |-> "first"]
  /\ link = [c \in Clients |-> NoDaemon]
  /\ dpc = [d \in Daemons |-> "none"]
  /\ taken = [d \in Daemons |-> {}]
  /\ idle = [d \in Daemons |-> FALSE]
  /\ work = [d \in Daemons |-> "none"]
  /\ row = NoDaemon
  /\ faults = 0

-----------------------------------------------------------------------------
(* The client: ensure_daemon, poll_daemon and poll_daemon_or_recover. *)

ensure_daemon(c) ==
  /\ at[c] = "start"
  /\ at' = [at EXCEPT ![c] = "read"]
  /\ UNCHANGED <<lock, files, way, link, dpc, server, faults>>

\* Mutant: a client that found the lock taken never tries it again.
MissedOnlyPolls(c) ==
  at' = [at EXCEPT ![c] = CASE way[c] = "first"  -> "try"
                            [] way[c] = "locked" -> "remove"
                            [] OTHER             -> "read"]

\* Where a probe that found no daemon leads.
Missed(c) ==
  at' = [at EXCEPT ![c] = CASE way[c] = "first"   -> "try"
                            [] way[c] = "locked"  -> "remove"
                            [] way[c] = "poll"    -> "read"
                            [] way[c] = "recover" -> "try"]

\* try_connect_metadata, first half: daemon.json is read and parsed.
read_metadata(c) ==
  /\ at[c] = "read"
  /\ IF meta = NoDaemon THEN Missed(c) ELSE at' = [at EXCEPT ![c] = "connect"]
  /\ UNCHANGED <<lock, files, way, link, dpc, server, faults>>

\* Second half: the endpoint is one path, so the connection reaches whoever
\* listens there now, or is refused. A client that held the lock drops it.
connect(c) ==
  /\ at[c] = "connect"
  /\ IF sock # NoDaemon /\ dpc[sock] \in Listening
       THEN /\ at' = [at EXCEPT ![c] = "linked"]
            /\ link' = [link EXCEPT ![c] = sock]
            /\ lock' = IF way[c] = "locked" THEN Nobody ELSE lock
       ELSE Missed(c) /\ UNCHANGED <<link, lock>>
  /\ UNCHANGED <<files, way, dpc, server, faults>>

\* Mutant: the stale state is removed without the lock.
try_write_ignored(c) ==
  /\ at[c] = "try"
  /\ lock' = IF lock = Nobody THEN c ELSE lock
  /\ way' = [way EXCEPT ![c] = "locked"]
  /\ at' = [at EXCEPT ![c] = "read"]
  /\ UNCHANGED <<files, link, dpc, server, faults>>

\* lock.try_write(): the holder probes again, everybody else keeps polling.
try_write(c) ==
  /\ at[c] = "try"
  /\ at' = [at EXCEPT ![c] = "read"]
  /\ IF lock = Nobody
       THEN lock' = c /\ way' = [way EXCEPT ![c] = "locked"]
       ELSE lock' = lock /\ way' = [way EXCEPT ![c] = "recover"]
  /\ UNCHANGED <<files, link, dpc, server, faults>>

\* remove_stale_daemon_state under the client's guard.
remove_stale_daemon_state(c) ==
  /\ at[c] = "remove"
  /\ meta' = NoDaemon /\ sock' = NoDaemon
  /\ at' = [at EXCEPT ![c] = "spawn"]
  /\ UNCHANGED <<lock, way, link, dpc, server, faults>>

\* spawn_daemon, then drop(guard), then poll_daemon.
spawn_daemon(c) ==
  /\ at[c] = "spawn"
  /\ \E d \in Daemons :
       /\ dpc[d] = "none"
       /\ dpc' = [dpc EXCEPT ![d] = "lockwait"]
  /\ lock' = Nobody
  /\ way' = [way EXCEPT ![c] = "poll"]
  /\ at' = [at EXCEPT ![c] = "read"]
  /\ UNCHANGED <<files, link, server, faults>>

\* Mutant: a connected socket is taken for a daemon that serves it.
handshake_skipped(c) ==
  /\ at[c] = "linked"
  /\ at' = [at EXCEPT ![c] = "served"]
  /\ UNCHANGED <<lock, files, way, link, dpc, server, faults>>

\* verify_daemon_compatibility: the handshake needs a daemon that serves the
\* connection.
handshake(c) ==
  /\ at[c] = "linked"
  /\ \E d \in Serving : link[c] = d /\ c \in taken[d]
  /\ at' = [at EXCEPT ![c] = "served"]
  /\ UNCHANGED <<lock, files, way, link, dpc, server, faults>>

\* The connection was closed by the other side: rejected at the client limit,
\* dropped with the listener or with the daemon.
hang_up(c) ==
  /\ at[c] \in {"linked", "served"}
  /\ link[c] = NoDaemon
  /\ at' = [at EXCEPT ![c] = "lost"]
  /\ UNCHANGED <<lock, files, way, link, dpc, server, faults>>

\* RpcClient::shutdown; the daemon's client task ends and drops its lease.
shutdown(c) ==
  /\ at[c] = "served" /\ link[c] # NoDaemon
  /\ at' = [at EXCEPT ![c] = "gone"]
  /\ link' = [link EXCEPT ![c] = NoDaemon]
  /\ taken' = [taken EXCEPT ![link[c]] = @ \ {c}]
  /\ idle' = [idle EXCEPT ![link[c]] = FALSE]
  /\ UNCHANGED <<lock, files, way, dpc, work, row, faults>>

\* STARTUP_TIMEOUT runs out in one of the two polling loops.
poll_timeout(c) ==
  /\ at[c] = "read" /\ way[c] \in {"poll", "recover"}
  /\ faults < MaxFaults /\ faults' = faults + 1
  /\ at' = [at EXCEPT ![c] = "failed"]
  /\ UNCHANGED <<lock, files, way, link, dpc, server>>

\* A client process dies while it looks for a daemon; the lock dies with it.
client_crash(c) ==
  /\ at[c] \in {"read", "connect", "try", "remove", "spawn"}
  /\ faults < MaxFaults /\ faults' = faults + 1
  /\ at' = [at EXCEPT ![c] = "failed"]
  /\ lock' = IF lock = c THEN Nobody ELSE lock
  /\ UNCHANGED <<files, way, link, dpc, server>>

-----------------------------------------------------------------------------
(* The daemon: serve and run_server_until. *)

serve_lock(d) ==
  /\ dpc[d] = "lockwait" /\ lock = Nobody
  /\ lock' = d
  /\ dpc' = [dpc EXCEPT ![d] = "locked"]
  /\ UNCHANGED <<files, client, server, faults>>

\* Mutant: serve goes on without the lock it could not get.
serve_unlocked(d) ==
  /\ dpc[d] = "lockwait" /\ lock # Nobody
  /\ dpc' = [dpc EXCEPT ![d] = "locked"]
  /\ UNCHANGED <<lock, files, client, server, faults>>

\* SERVE_LOCK_TIMEOUT: another process has the lock at the last attempt.
serve_lock_timeout(d) ==
  /\ dpc[d] = "lockwait" /\ lock # Nobody
  /\ dpc' = [dpc EXCEPT ![d] = "dead"]
  /\ UNCHANGED <<lock, files, client, server, faults>>

serve_clean(d) ==
  /\ dpc[d] = "locked"
  /\ meta' = NoDaemon /\ sock' = NoDaemon
  /\ dpc' = [dpc EXCEPT ![d] = "clean"]
  /\ UNCHANGED <<lock, client, server, faults>>

\* bind_listener fails on an existing socket file; serve then returns, and
\* with it the guard. Otherwise the path leads to d.
bind_listener(d) ==
  /\ dpc[d] = "clean"
  /\ IF sock = NoDaemon
       THEN sock' = d /\ dpc' = [dpc EXCEPT ![d] = "bound"] /\ UNCHANGED lock
       ELSE dpc' = [dpc EXCEPT ![d] = "dead"] /\ lock' = Nobody /\ UNCHANGED sock
  /\ UNCHANGED <<meta, client, server, faults>>

\* Registry::load, Store::open and the two recoveries: a run still active in
\* the store is taken for one whose daemon is gone.
serve_recover(d) ==
  /\ dpc[d] = "bound"
  /\ row' = NoDaemon
  /\ dpc' = [dpc EXCEPT ![d] = "recovered"]
  /\ UNCHANGED <<lock, files, client, taken, idle, work, faults>>

\* daemon.id and daemon.json, then the accept loop.
write_metadata(d) ==
  /\ dpc[d] = "recovered"
  /\ meta' = d
  /\ dpc' = [dpc EXCEPT ![d] = "serving"]
  /\ UNCHANGED <<lock, sock, client, server, faults>>

\* A stream from listener.accept() gets a client slot and a lease, or is
\* dropped.
accept(d, c) ==
  /\ dpc[d] = "serving" /\ at[c] = "linked" /\ link[c] = d /\ c \notin taken[d]
  /\ IF Cardinality(taken[d]) < MaxClients
       THEN /\ taken' = [taken EXCEPT ![d] = @ \cup {c}]
            /\ idle' = [idle EXCEPT ![d] = FALSE]
            /\ UNCHANGED link
       ELSE link' = [link EXCEPT ![c] = NoDaemon] /\ UNCHANGED <<taken, idle>>
  /\ UNCHANGED <<lock, files, at, way, dpc, work, row, faults>>

\* A send with wait = false: the run row is written and the worker spawned;
\* the worker takes its run_lease when it is first polled.
start_run(d, c) ==
  /\ dpc[d] = "serving" /\ at[c] = "served" /\ link[c] = d
  /\ row = NoDaemon /\ work[d] = "none"
  /\ row' = d
  /\ work' = [work EXCEPT ![d] = "queued"]
  /\ idle' = [idle EXCEPT ![d] = FALSE]
  /\ UNCHANGED <<lock, files, client, dpc, taken, faults>>

run_lease(d) ==
  /\ dpc[d] \in {"serving", "stopping", "cleaned", "released"} /\ work[d] = "queued"
  /\ work' = [work EXCEPT ![d] = "running"]
  /\ idle' = [idle EXCEPT ![d] = FALSE]
  /\ UNCHANGED <<lock, files, client, dpc, taken, row, faults>>

\* The worker ends its run (a compare-and-set on the active row) and drops
\* the lease.
end_run(d) ==
  /\ dpc[d] \in {"serving", "stopping", "cleaned", "released"} /\ work[d] = "running"
  /\ work' = [work EXCEPT ![d] = "none"]
  /\ row' = IF row = d THEN NoDaemon ELSE row
  /\ idle' = [idle EXCEPT ![d] = FALSE]
  /\ UNCHANGED <<lock, files, client, dpc, taken, faults>>

\* idle_timeout passes without a touch(). It is thirty minutes by default: a
\* spawned worker is polled long before that, and the fifteen seconds of a
\* poll_daemon that began before d held the lock are over.
idle_elapsed(d) ==
  /\ dpc[d] = "serving" /\ ~idle[d] /\ work[d] # "queued"
  /\ \A c \in Clients : ~(way[c] = "poll" /\ at[c] \in {"read", "connect"})
  /\ idle' = [idle EXCEPT ![d] = TRUE]
  /\ UNCHANGED <<lock, files, client, dpc, taken, work, row, faults>>

\* Mutant: only client connections keep the daemon alive.
no_clients(d) == taken[d] = {}

is_quiescent(d) == taken[d] = {} /\ work[d] # "running"

\* The accept loop ends: the client tasks are aborted, the listener is
\* dropped with its socket file and with the connections not yet accepted.
StopServing(d) ==
  /\ dpc' = [dpc EXCEPT ![d] = "stopping"]
  /\ sock' = IF sock = d THEN NoDaemon ELSE sock
  /\ link' = [c \in Clients |-> IF link[c] = d THEN NoDaemon ELSE link[c]]
  /\ taken' = [taken EXCEPT ![d] = {}]
  /\ UNCHANGED <<lock, meta, at, way, idle, work, row>>

idle_wait(d) ==
  /\ dpc[d] = "serving" /\ is_quiescent(d) /\ idle[d]
  /\ StopServing(d) /\ UNCHANGED faults

ctrl_c(d) ==
  /\ dpc[d] = "serving"
  /\ faults < MaxFaults /\ faults' = faults + 1
  /\ StopServing(d)

cleanup_daemon_state(d) ==
  /\ dpc[d] = "stopping"
  /\ meta' = NoDaemon /\ sock' = NoDaemon
  /\ dpc' = [dpc EXCEPT ![d] = "cleaned"]
  /\ UNCHANGED <<lock, client, server, faults>>

\* serve returns and drops its guard; the process has not exited yet.
serve_return(d) ==
  /\ dpc[d] = "cleaned"
  /\ lock' = Nobody
  /\ dpc' = [dpc EXCEPT ![d] = "released"]
  /\ UNCHANGED <<files, client, server, faults>>

\* process::exit ends the workers that still ran.
process_exit(d) ==
  /\ dpc[d] = "released"
  /\ dpc' = [dpc EXCEPT ![d] = "dead"]
  /\ work' = [work EXCEPT ![d] = "none"]
  /\ UNCHANGED <<lock, files, client, taken, idle, row, faults>>

\* The daemon is killed: files and row stay, lock and connections go.
crash(d) ==
  /\ dpc[d] \notin {"none", "dead"}
  /\ faults < MaxFaults /\ faults' = faults + 1
  /\ dpc' = [dpc EXCEPT ![d] = "dead"]
  /\ lock' = IF lock = d THEN Nobody ELSE lock
  /\ link' = [c \in Clients |-> IF link[c] = d THEN NoDaemon ELSE link[c]]
  /\ taken' = [taken EXCEPT ![d] = {}]
  /\ work' = [work EXCEPT ![d] = "none"]
  /\ UNCHANGED <<files, at, way, idle, row>>

\* One of serve's start-up calls fails (`?`): the listener goes with its socket
\* file and the guard with the lock; daemon.json is not touched.
serve_error(d) ==
  /\ dpc[d] \in {"locked", "clean", "bound", "recovered"}
  /\ faults < MaxFaults /\ faults' = faults + 1
  /\ dpc' = [dpc EXCEPT ![d] = "dead"]
  /\ lock' = Nobody
  /\ sock' = IF sock = d THEN NoDaemon ELSE sock
  /\ link' = [c \in Clients |-> IF link[c] = d THEN NoDaemon ELSE link[c]]
  /\ UNCHANGED <<meta, at, way, server>>

-----------------------------------------------------------------------------
ClientStep(c) ==
  \/ ensure_daemon(c) \/ read_metadata(c) \/ connect(c) \/ try_write(c)
  \/ remove_stale_daemon_state(c) \/ spawn_daemon(c) \/ handshake(c) \/ hang_up(c)

DaemonStep(d) ==
  \/ serve_lock(d) \/ serve_clean(d) \/ bind_listener(d) \/ serve_recover(d)
  \/ write_metadata(d) \/ cleanup_daemon_state(d) \/ serve_return(d)
  \/ process_exit(d)
  \/ \E c \in Clients : accept(d, c)

Next ==
  \/ \E c \in Clients :
       ClientStep(c) \/ shutdown(c) \/ poll_timeout(c) \/ client_crash(c)
  \/ \E d \in Daemons :
       \/ DaemonStep(d) \/ serve_lock_timeout(d) \/ run_lease(d) \/ end_run(d) \/ idle_elapsed(d)
       \/ idle_wait(d) \/ ctrl_c(d) \/ serve_error(d) \/ crash(d)
       \/ \E c \in Clients : start_run(d, c)

Spec == Init /\ [][Next]_vars

\* Polling loops and the daemon's own code keep running; nothing is assumed
\* of timeouts, stops, idle exits, clients that leave and runs that end.
FairSpec ==
  /\ Spec
  /\ \A c \in Clients : WF_vars(ClientStep(c))
  /\ \A d \in Daemons : WF_vars(DaemonStep(d))
-----------------------------------------------------------------------------
(* Properties. *)

DaemonTypeOK ==
  /\ lock \in Clients \cup Daemons \cup {Nobody}
  /\ meta \in Daemons \cup {NoDaemon}
  /\ sock \in Daemons \cup {NoDaemon}
  /\ at \in [Clients -> Steps]
  /\ way \in [Clients -> {"first", "locked", "poll", "recover"}]
  /\ link \in [Clients -> Daemons \cup {NoDaemon}]
  /\ dpc \in [Daemons -> Phases]
  /\ taken \in [Daemons -> SUBSET Clients]
  /\ idle \in [Daemons -> BOOLEAN]
  /\ work \in [Daemons -> {"none", "queued", "running"}]
  /\ row \in Daemons \cup {NoDaemon}
  /\ faults \in 0..MaxFaults

\* As long as a daemon serves, daemon.json names it and the socket path leads
\* to it: no client on its way to spawn another daemon, and no daemon that
\* starts or leaves, has removed them (daemon.rs, remove_stale_daemon_state).
ServingReachable ==
  \A d \in Daemons : dpc[d] = "serving" => meta = d /\ sock = d

\* The run of a live worker keeps its active row until its daemon gives up
\* daemon.lock: the recovery of another daemon never takes the run of a live
\* owner for an interrupted one (daemon.rs, serve, the comment on recovery).
LiveRunKeepsRow ==
  \A d \in Daemons : dpc[d] \in Holding /\ work[d] # "none" => row = d

\* The idle exit interrupts nobody: a daemon that stops without being told to
\* has no client it accepted and no run, started or about to start
\* (daemon.rs, idle_wait and is_quiescent).
IdleExitSparesWork ==
  [][\A d \in Daemons :
       dpc[d] = "serving" /\ dpc'[d] = "stopping" /\ faults' = faults
         => taken[d] = {} /\ work[d] = "none"]_vars

\* Everybody who looks for a daemon gets one. However many clients race to
\* spawn it and however many daemons give up on the lock, a client that calls
\* ensure_daemon is served, or met a fault (a crash, a failed start-up, a
\* Ctrl-C, an expired start-up timeout), or had its connection dropped by a
\* daemon that was full or on its idle exit (daemon.rs, ensure_daemon,
\* poll_daemon_or_recover and serve).
StartupConverges ==
  \A c \in Clients :
    at[c] = "read" ~> at[c] \in {"served", "lost"} \/ faults > 0

\* The files, the lock and the polling implement the abstract singleton: the
\* owner is the daemon in its accept loop, its users are the clients with a
\* connection it serves.
Retired == {d \in Daemons : dpc[d] \in {"stopping", "cleaned", "released", "dead"}}
Owner == IF Serving = {} THEN NoDaemon ELSE CHOOSE d \in Serving : TRUE
Users == {c \in Clients : at[c] = "served" /\ link[c] # NoDaemon}
S == INSTANCE Singleton WITH owner <- Owner, retired <- Retired, users <- Users
ImplementsSingleton == S!SingletonSpec

\* While a daemon serves the files on disk lead to it, whatever the clients and
\* daemons that start, clean up or leave at the same time remove or write.
DaemonInv ==
  DaemonTypeOK /\ ServingReachable
=============================================================================
