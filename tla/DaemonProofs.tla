---------------------------- MODULE DaemonProofs ----------------------------
(***************************************************************************)
(* The start-up protocol of the daemon, for any number of clients and      *)
(* daemons and any number of faults: one daemon serves at a time, its      *)
(* files lead to it, its runs are safe from the recovery of another one,   *)
(* and the whole implements the abstract singleton.                        *)
(***************************************************************************)
EXTENDS Daemon, TLAPS

\* A daemon that is past lock.write() and has not returned from serve owns
\* daemon.lock.
DaemonHolds == \A d \in Daemons : dpc[d] \in Holding => lock = d

\* A client that may remove files and spawn owns daemon.lock.
ClientHolds ==
  \A c \in Clients :
    /\ way[c] = "locked" /\ at[c] \in {"read", "connect", "remove", "spawn"} => lock = c
    /\ at[c] \in {"remove", "spawn"} => way[c] = "locked"
    /\ at[c] = "start" => way[c] = "first"

\* The socket path leads to the daemon that listens.
SocketOwned == \A d \in Daemons : dpc[d] \in Listening => sock = d

\* Only a daemon that serves, or has served, has workers.
WorkPlaced ==
  \A d \in Daemons : work[d] # "none" => dpc[d] \in {"serving", "stopping", "cleaned", "released"}

\* A worker that has not been polled yet is recent activity.
QueuedIsRecent == \A d \in Daemons : idle[d] => work[d] # "queued"

\* A connection leads to a listener; one that is served was accepted, and the
\* daemon that accepted it serves.
LinksAlive ==
  /\ \A c \in Clients : link[c] # NoDaemon => dpc[link[c]] \in Listening
  /\ \A d \in Daemons, c \in Clients : c \in taken[d] => dpc[d] = "serving" /\ link[c] = d
  /\ \A c \in Clients : at[c] = "served" /\ link[c] # NoDaemon => c \in taken[link[c]]

\* The inductive invariant.
DaemonIInv ==
  /\ DaemonTypeOK
  /\ DaemonHolds /\ ClientHolds
  /\ SocketOwned /\ ServingReachable
  /\ WorkPlaced /\ QueuedIsRecent /\ LiveRunKeepsRow
  /\ LinksAlive

\* Nothing holds, serves or runs at the start.
LEMMA DaemonInit == Init => DaemonIInv
  BY DaemonAssumption
  DEF Init, DaemonIInv, DaemonTypeOK, Steps, Phases, DaemonHolds, ClientHolds, Holding, Listening,
      SocketOwned, ServingReachable, WorkPlaced, QueuedIsRecent, LiveRunKeepsRow, LinksAlive

\* The steps of a client in ensure_daemon keep the invariant: what it removes
\* and spawns happens under a lock that no daemon has.
LEMMA ClientKeeps ==
  ASSUME DaemonIInv, NEW c \in Clients,
         ClientStep(c) \/ shutdown(c) \/ poll_timeout(c) \/ client_crash(c)
  PROVE  DaemonIInv'
  <1> USE DaemonAssumption DEF DaemonIInv, files, client, server, Holding, Listening
  <1>1. CASE ensure_daemon(c)
    BY <1>1 DEF ensure_daemon, DaemonTypeOK, Steps, DaemonHolds, ClientHolds, SocketOwned,
                ServingReachable, WorkPlaced, QueuedIsRecent, LiveRunKeepsRow, LinksAlive
  <1>2. CASE read_metadata(c)
    BY <1>2 DEF read_metadata, Missed, DaemonTypeOK, Steps, DaemonHolds, ClientHolds, SocketOwned,
                ServingReachable, WorkPlaced, QueuedIsRecent, LiveRunKeepsRow, LinksAlive
  <1>3. CASE connect(c)
    BY <1>3 DEF connect, Missed, DaemonTypeOK, Steps, DaemonHolds, ClientHolds, SocketOwned,
                ServingReachable, WorkPlaced, QueuedIsRecent, LiveRunKeepsRow, LinksAlive
  <1>4. CASE try_write(c)
    BY <1>4 DEF try_write, DaemonTypeOK, Steps, DaemonHolds, ClientHolds, SocketOwned,
                ServingReachable, WorkPlaced, QueuedIsRecent, LiveRunKeepsRow, LinksAlive
  <1>5. CASE remove_stale_daemon_state(c)
    BY <1>5 DEF remove_stale_daemon_state, DaemonTypeOK, Steps, DaemonHolds, ClientHolds, SocketOwned,
                ServingReachable, WorkPlaced, QueuedIsRecent, LiveRunKeepsRow, LinksAlive
  <1>6. CASE spawn_daemon(c)
    BY <1>6 DEF spawn_daemon, DaemonTypeOK, Steps, Phases, DaemonHolds, ClientHolds, SocketOwned,
                ServingReachable, WorkPlaced, QueuedIsRecent, LiveRunKeepsRow, LinksAlive
  <1>7. CASE handshake(c)
    BY <1>7 DEF handshake, Serving, DaemonTypeOK, Steps, DaemonHolds, ClientHolds, SocketOwned,
                ServingReachable, WorkPlaced, QueuedIsRecent, LiveRunKeepsRow, LinksAlive
  <1>8. CASE hang_up(c)
    BY <1>8 DEF hang_up, DaemonTypeOK, Steps, DaemonHolds, ClientHolds, SocketOwned,
                ServingReachable, WorkPlaced, QueuedIsRecent, LiveRunKeepsRow, LinksAlive
  <1>9. CASE shutdown(c)
    BY <1>9 DEF shutdown, DaemonTypeOK, Steps, DaemonHolds, ClientHolds, SocketOwned,
                ServingReachable, WorkPlaced, QueuedIsRecent, LiveRunKeepsRow, LinksAlive
  <1>10. CASE poll_timeout(c)
    BY <1>10 DEF poll_timeout, DaemonTypeOK, Steps, DaemonHolds, ClientHolds, SocketOwned,
                 ServingReachable, WorkPlaced, QueuedIsRecent, LiveRunKeepsRow, LinksAlive
  <1>11. CASE client_crash(c)
    BY <1>11 DEF client_crash, DaemonTypeOK, Steps, DaemonHolds, ClientHolds, SocketOwned,
                 ServingReachable, WorkPlaced, QueuedIsRecent, LiveRunKeepsRow, LinksAlive
  <1> QED
    BY <1>1, <1>2, <1>3, <1>4, <1>5, <1>6, <1>7, <1>8, <1>9, <1>10, <1>11 DEF ClientStep
\* The steps of a daemon, accepted connections and workers included, keep it:
\* everything between lock.write() and the return of serve has the lock.
LEMMA DaemonKeeps ==
  ASSUME DaemonIInv, NEW d \in Daemons,
         \/ DaemonStep(d) \/ serve_lock_timeout(d) \/ run_lease(d) \/ end_run(d)
         \/ idle_elapsed(d) \/ idle_wait(d) \/ ctrl_c(d) \/ serve_error(d) \/ crash(d)
         \/ \E c \in Clients : start_run(d, c)
  PROVE  DaemonIInv'
  <1> USE DaemonAssumption DEF DaemonIInv, files, client, server, Holding, Listening, Phases
  <1>1. CASE serve_lock(d)
    BY <1>1 DEF serve_lock, DaemonTypeOK, DaemonHolds, ClientHolds, SocketOwned,
                ServingReachable, WorkPlaced, QueuedIsRecent, LiveRunKeepsRow, LinksAlive
  <1>2. CASE serve_lock_timeout(d)
    BY <1>2 DEF serve_lock_timeout, DaemonTypeOK, DaemonHolds, ClientHolds, SocketOwned,
                ServingReachable, WorkPlaced, QueuedIsRecent, LiveRunKeepsRow, LinksAlive
  <1>3. CASE serve_clean(d)
    BY <1>3 DEF serve_clean, DaemonTypeOK, DaemonHolds, ClientHolds, SocketOwned,
                ServingReachable, WorkPlaced, QueuedIsRecent, LiveRunKeepsRow, LinksAlive
  <1>4. CASE bind_listener(d)
    BY <1>4 DEF bind_listener, DaemonTypeOK, DaemonHolds, ClientHolds, SocketOwned,
                ServingReachable, WorkPlaced, QueuedIsRecent, LiveRunKeepsRow, LinksAlive
  <1>5. CASE serve_recover(d)
    BY <1>5 DEF serve_recover, DaemonTypeOK, DaemonHolds, ClientHolds, SocketOwned,
                ServingReachable, WorkPlaced, QueuedIsRecent, LiveRunKeepsRow, LinksAlive
  <1>6. CASE write_metadata(d)
    BY <1>6 DEF write_metadata, DaemonTypeOK, DaemonHolds, ClientHolds, SocketOwned,
                ServingReachable, WorkPlaced, QueuedIsRecent, LiveRunKeepsRow, LinksAlive
  <1>7. CASE run_lease(d)
    BY <1>7 DEF run_lease, DaemonTypeOK, DaemonHolds, ClientHolds, SocketOwned,
                ServingReachable, WorkPlaced, QueuedIsRecent, LiveRunKeepsRow, LinksAlive
  <1>8. CASE end_run(d)
    BY <1>8 DEF end_run, DaemonTypeOK, DaemonHolds, ClientHolds, SocketOwned,
                ServingReachable, WorkPlaced, QueuedIsRecent, LiveRunKeepsRow, LinksAlive
  <1>9. CASE idle_elapsed(d)
    BY <1>9 DEF idle_elapsed, DaemonTypeOK, DaemonHolds, ClientHolds, SocketOwned,
                ServingReachable, WorkPlaced, QueuedIsRecent, LiveRunKeepsRow, LinksAlive
  <1>10. CASE idle_wait(d)
    BY <1>10 DEF idle_wait, StopServing, DaemonTypeOK, DaemonHolds, ClientHolds, SocketOwned,
                ServingReachable, WorkPlaced, QueuedIsRecent, LiveRunKeepsRow, LinksAlive
  <1>11. CASE ctrl_c(d)
    BY <1>11 DEF ctrl_c, StopServing, DaemonTypeOK, DaemonHolds, ClientHolds, SocketOwned,
                ServingReachable, WorkPlaced, QueuedIsRecent, LiveRunKeepsRow, LinksAlive
  <1>12. CASE cleanup_daemon_state(d)
    BY <1>12 DEF cleanup_daemon_state, DaemonTypeOK, DaemonHolds, ClientHolds, SocketOwned,
                ServingReachable, WorkPlaced, QueuedIsRecent, LiveRunKeepsRow, LinksAlive
  <1>13. CASE serve_return(d)
    BY <1>13 DEF serve_return, DaemonTypeOK, DaemonHolds, ClientHolds, SocketOwned,
                ServingReachable, WorkPlaced, QueuedIsRecent, LiveRunKeepsRow, LinksAlive
  <1>14. CASE process_exit(d)
    BY <1>14 DEF process_exit, DaemonTypeOK, DaemonHolds, ClientHolds, SocketOwned,
                ServingReachable, WorkPlaced, QueuedIsRecent, LiveRunKeepsRow, LinksAlive
  <1>15. CASE crash(d)
    BY <1>15 DEF crash, DaemonTypeOK, DaemonHolds, ClientHolds, SocketOwned,
                ServingReachable, WorkPlaced, QueuedIsRecent, LiveRunKeepsRow, LinksAlive
  <1>16. CASE serve_error(d)
    BY <1>16 DEF serve_error, DaemonTypeOK, DaemonHolds, ClientHolds, SocketOwned,
                ServingReachable, WorkPlaced, QueuedIsRecent, LiveRunKeepsRow, LinksAlive
  <1>17. ASSUME NEW c \in Clients, accept(d, c) PROVE DaemonIInv'
    <2> USE DEF accept, DaemonTypeOK, DaemonHolds, ClientHolds, SocketOwned,
                ServingReachable, WorkPlaced, QueuedIsRecent, LiveRunKeepsRow, LinksAlive
    <2>1. CASE Cardinality(taken[d]) < MaxClients
      <3>1. /\ taken' = [taken EXCEPT ![d] = @ \cup {c}]
            /\ idle' = [idle EXCEPT ![d] = FALSE]
            /\ UNCHANGED <<link, lock, meta, sock, at, way, dpc, work, row, faults>>
        BY <1>17, <2>1
      <3> QED
        BY <1>17, <3>1
    <2>2. CASE ~(Cardinality(taken[d]) < MaxClients)
      <3>1. /\ link' = [link EXCEPT ![c] = NoDaemon]
            /\ UNCHANGED <<taken, idle, lock, meta, sock, at, way, dpc, work, row, faults>>
        BY <1>17, <2>2
      <3> QED
        BY <1>17, <3>1
    <2> QED
      BY <2>1, <2>2
  <1>18. ASSUME NEW c \in Clients, start_run(d, c) PROVE DaemonIInv'
    BY <1>18 DEF start_run, DaemonTypeOK, DaemonHolds, ClientHolds, SocketOwned,
                ServingReachable, WorkPlaced, QueuedIsRecent, LiveRunKeepsRow, LinksAlive
  <1> QED
    BY <1>1, <1>2, <1>3, <1>4, <1>5, <1>6, <1>7, <1>8, <1>9, <1>10, <1>11, <1>12, <1>13, <1>14, <1>15, <1>16, <1>17, <1>18 DEF DaemonStep

\* The invariant is inductive.
LEMMA DaemonInductive == DaemonIInv /\ [Next]_vars => DaemonIInv'
  <1> SUFFICES ASSUME DaemonIInv, [Next]_vars PROVE DaemonIInv'
    OBVIOUS
  <1>1. CASE UNCHANGED vars
    BY <1>1 DEF vars, DaemonIInv, DaemonTypeOK, DaemonHolds, ClientHolds, SocketOwned,
                ServingReachable, WorkPlaced, QueuedIsRecent, LiveRunKeepsRow, LinksAlive
  <1>2. CASE Next
    BY <1>2, ClientKeeps, DaemonKeeps DEF Next
  <1> QED
    BY <1>1, <1>2

\* While a daemon serves, daemon.json names it and the socket path leads to
\* it, for any number of clients that race to spawn one and any number of
\* daemons that start, stop, fail and crash (daemon.rs, ensure_daemon, serve).
THEOREM ServedHomeIsReachable == Spec => []DaemonInv
  <1>1. DaemonIInv => DaemonInv
    BY DEF DaemonIInv, DaemonInv
  <1> QED
    BY DaemonInit, DaemonInductive, <1>1, PTL DEF Spec

\* The recovery of a starting daemon never ends the run of a daemon that has
\* not given up the lock (daemon.rs, serve).
THEOREM RecoverySparesLiveRuns == Spec => []LiveRunKeepsRow
  <1>1. DaemonIInv => LiveRunKeepsRow
    BY DEF DaemonIInv
  <1> QED
    BY DaemonInit, DaemonInductive, <1>1, PTL DEF Spec

\* No idle exit interrupts a client or a run, not even one whose worker has not
\* been polled yet (daemon.rs, idle_wait).
THEOREM IdleExitIsQuiet == Spec => IdleExitSparesWork
  <1> DEFINE Spares(d) ==
        dpc[d] = "serving" /\ dpc'[d] = "stopping" /\ faults' = faults
          => taken[d] = {} /\ work[d] = "none"
  <1>1. ASSUME DaemonIInv, [Next]_vars
        PROVE  [\A d \in Daemons : Spares(d)]_vars
    <2> SUFFICES ASSUME Next, NEW d \in Daemons,
                        dpc[d] = "serving", dpc'[d] = "stopping", faults' = faults
                 PROVE  taken[d] = {} /\ work[d] = "none"
      BY <1>1
    <2>1. faults \in Nat /\ work[d] \in {"none", "queued", "running"} /\ dpc \in [Daemons -> Phases]
      BY <1>1, DaemonAssumption DEF DaemonIInv, DaemonTypeOK
    <2>2. ASSUME NEW c \in Clients,
                 ClientStep(c) \/ shutdown(c) \/ poll_timeout(c) \/ client_crash(c)
          PROVE  FALSE
      BY <2>1, <2>2 DEF ClientStep, ensure_daemon, read_metadata, connect, try_write,
         remove_stale_daemon_state, spawn_daemon, handshake, hang_up, shutdown, poll_timeout,
         client_crash
    <2>3. ASSUME NEW e \in Daemons, ~idle_wait(e),
                 \/ DaemonStep(e) \/ serve_lock_timeout(e) \/ run_lease(e) \/ end_run(e)
                 \/ idle_elapsed(e) \/ idle_wait(e) \/ ctrl_c(e) \/ serve_error(e) \/ crash(e)
                 \/ \E c \in Clients : start_run(e, c)
          PROVE  FALSE
      BY <2>1, <2>3 DEF DaemonStep, serve_lock_timeout, run_lease, end_run, idle_elapsed, ctrl_c,
         serve_error, crash, start_run, serve_lock, serve_clean, bind_listener, serve_recover,
         write_metadata, cleanup_daemon_state, serve_return, process_exit, accept, StopServing
    <2>4. PICK e \in Daemons : idle_wait(e)
      BY <2>2, <2>3 DEF Next
    <2>5. e = d
      BY <2>1, <2>4 DEF idle_wait, StopServing
    <2> QED
      BY <1>1, <2>1, <2>4, <2>5 DEF idle_wait, is_quiescent, DaemonIInv, QueuedIsRecent
  <1> QED
    BY DaemonInit, DaemonInductive, <1>1, PTL DEF Spec, IdleExitSparesWork

\* The abstract owner is the one daemon in its accept loop.
LEMMA OwnerServes ==
  DaemonIInv => \/ Owner = NoDaemon /\ Serving = {}
                \/ Owner \in Daemons /\ Serving = {Owner}
  <1> SUFFICES ASSUME DaemonIInv, Serving # {}
               PROVE  Owner \in Daemons /\ Serving = {Owner}
    BY DEF Owner
  <1>1. Owner \in Serving
    BY DEF Owner
  <1>2. \A d, e \in Serving : d = e
    BY DEF Serving, DaemonIInv, DaemonHolds, Holding
  <1> QED
    BY <1>1, <1>2 DEF Serving

\* A client's step stutters, joins the owner or leaves it.
LEMMA ClientAbstracts ==
  ASSUME DaemonIInv, DaemonIInv', NEW c \in Clients,
         ClientStep(c) \/ shutdown(c) \/ poll_timeout(c) \/ client_crash(c)
  PROVE  [S!AbsNext]_(S!absVars)
  <1> USE DaemonAssumption DEF DaemonIInv, DaemonTypeOK, files, client, server
  <1>1. Serving' = Serving /\ Retired' = Retired
    BY DEF ClientStep, ensure_daemon, read_metadata, connect, try_write, remove_stale_daemon_state,
       spawn_daemon, handshake, hang_up, shutdown, poll_timeout, client_crash, Serving, Retired
  <1>2. Owner' = Owner
    BY <1>1 DEF Owner
  <1>3. CASE handshake(c)
    <2>1. Users' = Users \cup {c} /\ c \notin Users /\ Serving # {}
      BY <1>3 DEF handshake, Users, Serving
    <2>2. Owner # NoDaemon
      BY <2>1, OwnerServes
    <2>3. S!Join(c)
      BY <1>1, <1>2, <2>1, <2>2 DEF S!Join
    <2> QED
      BY <2>3 DEF S!AbsNext
  <1>4. CASE shutdown(c)
    <2>1. Users' = Users \ {c}
      BY <1>4 DEF shutdown, Users
    <2>2. S!Quit(c)
      BY <1>1, <1>2, <2>1 DEF S!Quit
    <2> QED
      BY <2>2 DEF S!AbsNext
  <1>5. CASE ~handshake(c) /\ ~shutdown(c)
    <2>1. Users' = Users
      BY <1>5 DEF ClientStep, ensure_daemon, read_metadata, Missed, connect, try_write,
         remove_stale_daemon_state, spawn_daemon, hang_up, poll_timeout, client_crash, Users
    <2> QED
      BY <1>1, <1>2, <2>1 DEF S!absVars
  <1> QED
    BY <1>3, <1>4, <1>5

\* A daemon's step stutters, elects it, retires it with all its users, or
\* withdraws a daemon that never served.
LEMMA DaemonAbstracts ==
  ASSUME DaemonIInv, DaemonIInv', NEW d \in Daemons,
         \/ DaemonStep(d) \/ serve_lock_timeout(d) \/ run_lease(d) \/ end_run(d)
         \/ idle_elapsed(d) \/ idle_wait(d) \/ ctrl_c(d) \/ serve_error(d) \/ crash(d)
         \/ \E c \in Clients : start_run(d, c)
  PROVE  [S!AbsNext]_(S!absVars)
  <1> USE DaemonAssumption DEF files, client, server
  <1>t. DaemonTypeOK /\ NoDaemon \notin Daemons
    BY DEF DaemonIInv
  <1>o. (DaemonIInv => \/ Owner = NoDaemon /\ Serving = {}
                       \/ Owner \in Daemons /\ Serving = {Owner})'
    BY OwnerServes, PTL
  <1>1. CASE write_metadata(d)
    <2>1. Serving = {}
      BY <1>1, <1>t DEF write_metadata, DaemonIInv, DaemonHolds, Holding, Serving
    <2>2. Serving' = {d} /\ Retired' = Retired /\ d \notin Retired /\ Users' = Users
      BY <1>1, <1>t, <2>1 DEF write_metadata, DaemonTypeOK, Serving, Retired, Users
    <2>3. S!Elect(d)
      BY <2>1, <2>2, <1>o, OwnerServes DEF S!Elect
    <2> QED
      BY <2>3 DEF S!AbsNext
  <1>2. CASE /\ dpc[d] = "serving"
             /\ idle_wait(d) \/ ctrl_c(d) \/ crash(d)
    <2>1. Serving' = Serving \ {d} /\ Retired' = Retired \cup {d} /\ d \in Serving
      BY <1>2, <1>t DEF idle_wait, ctrl_c, crash, StopServing, DaemonTypeOK, Serving, Retired
    <2>2. Owner = d /\ Serving = {d} /\ Owner' = NoDaemon
      BY <2>1, <1>o, OwnerServes
    <2>3. Users' = {}
      <3>1. \A c \in Clients : link[c] # NoDaemon /\ at[c] = "served" => link[c] = d
        BY <1>t, <2>2 DEF DaemonIInv, LinksAlive, DaemonTypeOK, Serving
      <3> QED
        BY <1>2, <3>1 DEF idle_wait, ctrl_c, crash, StopServing, Users
    <2>4. S!Retire
      BY <1>t, <2>1, <2>2, <2>3 DEF S!Retire
    <2> QED
      BY <2>4 DEF S!AbsNext
  <1>3. CASE /\ dpc[d] # "serving"
             /\ \/ serve_error(d) \/ serve_lock_timeout(d) \/ crash(d)
                \/ bind_listener(d) /\ sock # NoDaemon
    <2>1. Serving' = Serving /\ Retired' = Retired \cup {d} /\ d \notin Serving
      BY <1>3, <1>t DEF serve_error, serve_lock_timeout, crash, bind_listener,
                        DaemonTypeOK, Serving, Retired
    <2>2. Users' = Users
      <3>1. \A c \in Clients : link[c] # NoDaemon /\ at[c] = "served" => link[c] # d
        BY <1>3, <1>t DEF DaemonIInv, LinksAlive, DaemonTypeOK, Serving
      <3> QED
        BY <1>3, <3>1 DEF serve_error, serve_lock_timeout, crash, bind_listener, Users
    <2>3. S!Withdraw(d)
      BY <2>1, <2>2, <1>o, OwnerServes DEF S!Withdraw
    <2> QED
      BY <2>3 DEF S!AbsNext
  <1>4. CASE \/ serve_lock(d) \/ serve_clean(d) \/ serve_recover(d) \/ run_lease(d) \/ end_run(d)
             \/ idle_elapsed(d) \/ cleanup_daemon_state(d) \/ serve_return(d) \/ process_exit(d)
             \/ bind_listener(d) /\ sock = NoDaemon
             \/ \E c \in Clients : start_run(d, c)
    <2>1. Serving' = Serving /\ Retired' = Retired /\ Users' = Users
      BY <1>4, <1>t DEF serve_lock, serve_clean, serve_recover, run_lease, end_run, idle_elapsed,
         cleanup_daemon_state, serve_return, process_exit, bind_listener, start_run,
         DaemonTypeOK, Serving, Retired, Users
    <2> QED
      BY <2>1 DEF S!absVars, Owner
  <1>5. ASSUME NEW c \in Clients, accept(d, c) PROVE [S!AbsNext]_(S!absVars)
    <2>1. Serving' = Serving /\ Retired' = Retired
      BY <1>5 DEF accept, Serving, Retired
    <2>2. Users' = Users
      BY <1>5, <1>t DEF accept, DaemonTypeOK, Users
    <2> QED
      BY <2>1, <2>2 DEF S!absVars, Owner
  <1>6. (idle_wait(d) \/ ctrl_c(d) => dpc[d] = "serving")
        /\ (serve_error(d) \/ serve_lock_timeout(d) \/ bind_listener(d) => dpc[d] # "serving")
    BY DEF idle_wait, ctrl_c, serve_error, serve_lock_timeout, bind_listener
  <1> QED
    BY <1>1, <1>2, <1>3, <1>4, <1>5, <1>6 DEF DaemonStep

\* Locks, files, sockets, polling, idle exits and crashes implement a home
\* that at most one daemon serves at a time, each during one interval, and in
\* which every served client is served by that daemon (daemon.rs).
THEOREM DaemonIsSingleton == Spec => ImplementsSingleton
  <1>1. Init => S!AbsInit
    BY DaemonAssumption DEF Init, S!AbsInit, Owner, Serving, Retired, Users
  <1>2. DaemonIInv /\ DaemonIInv' /\ [Next]_vars => [S!AbsNext]_(S!absVars)
    <2> SUFFICES ASSUME DaemonIInv, DaemonIInv', [Next]_vars PROVE [S!AbsNext]_(S!absVars)
      OBVIOUS
    <2>1. CASE UNCHANGED vars
      BY <2>1 DEF vars, S!absVars, Owner, Serving, Retired, Users
    <2>2. CASE Next
      BY <2>2, ClientAbstracts, DaemonAbstracts DEF Next
    <2> QED
      BY <2>1, <2>2
  <1> QED
    BY DaemonInit, DaemonInductive, <1>1, <1>2, PTL DEF Spec, ImplementsSingleton, S!SingletonSpec

=============================================================================
