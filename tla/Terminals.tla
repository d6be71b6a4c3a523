----------------------------- MODULE Terminals ------------------------------
(***************************************************************************)
(* The terminals that agents open through the hub (callbacks/terminal.rs)  *)
(* and their retirement when a session is unbound                          *)
(* (callbacks/connection.rs).                                              *)
(*                                                                         *)
(* Each session belongs to an agent of its own, so that the callbacks of   *)
(* one session come one after the other and those of two sessions          *)
(* interleave; terminal/wait_for_exit polls and may overlap with any of    *)
(* them.  Operation leases keep bind and unbind of one session apart.      *)
(* Output, its truncation and the reader threads are left out.  A cleanup  *)
(* joins those threads with the terminal table locked, and would block the *)
(* table for as long as a process outside the killed group kept a pipe of  *)
(* the child open: the steps below assume that this ends.                  *)
(***************************************************************************)
EXTENDS Integers, FiniteSets

CONSTANTS
  Sessions,   \* ACP sessions
  Terms,      \* terminal ids, never used twice
  MaxSession, \* MAX_TERMINALS_PER_SESSION
  MaxGlobal,  \* MAX_TERMINALS_GLOBAL
  Attempts,   \* TERMINAL_RETIRE_CLEANUP_ATTEMPTS, and one more when the handle is dropped
  MaxFaults,  \* bound: failures to terminate a process group
  MaxOps,     \* bound: binds and unbinds of each session
  None

ASSUME TerminalsAssumption ==
  /\ None \notin Sessions
  /\ {MaxSession, MaxGlobal, Attempts, MaxFaults, MaxOps} \subseteq Nat
  /\ Attempts > 0

VARIABLES
  bound,   \* sessions: the sessions with a binding
  term,    \* terminals and the processes behind them
  wait,    \* terminal/wait_for_exit, one per terminal
  unb,     \* unbind_session: "idle", "unbound" or "retiring"
  binding, \* sessions between the start and the end of bind_session
  closed,  \* sessions that unbind_session has returned for, and not bound since
  ops, faults

vars == <<bound, term, wait, unb, binding, closed, ops, faults>>

NoTerm == [state |-> "none", owner |-> None, os |-> "none", child |-> FALSE,
           exit |-> FALSE, tries |-> 0]
SpawnedTerm(s) == [state |-> "spawned", owner |-> s, os |-> "running", child |-> TRUE,
                   exit |-> FALSE, tries |-> 0]

Init ==
  /\ bound = Sessions
  /\ term = [x \in Terms |-> NoTerm]
  /\ wait = [x \in Terms |-> "none"]
  /\ unb = [s \in Sessions |-> "idle"]
  /\ binding = {} /\ closed = {}
  /\ ops = [s \in Sessions |-> 0] /\ faults = 0

held == {x \in Terms : term[x].state = "held"}
held_by(s) == {x \in held : term[x].owner = s}
quota_left(s) == Cardinality(held) < MaxGlobal /\ Cardinality(held_by(s)) < MaxSession

(* A terminal whose process runs and that is not in the map yet.  Its      *)
(* creator holds the read lock of the session map, which keeps binds and   *)
(* unbinds of every session out.                                           *)
spawned == {x \in Terms : term[x].state = "spawned"}
(* Mutant: the lock is released once the binding has been read.            *)
sessions_write_early == TRUE

sessions_write == spawned = {}

-----------------------------------------------------------------------------
(* handle_terminal_create: the binding and the quotas are checked and the  *)
(* process started;                                                        *)
terminal_create(s, x) ==
  /\ s \in bound /\ quota_left(s)
  /\ \A y \in spawned : term[y].owner # s
  /\ term[x].state = "none"
  /\ term' = [term EXCEPT ![x] = SpawnedTerm(s)]
  /\ UNCHANGED <<bound, wait, unb, binding, closed, ops, faults>>

(* Mutant: the child is reaped and its exit forgotten.                     *)
reaped_silently(h) == [h EXCEPT !.os = "dead", !.child = FALSE]

(* TerminalHandle::cleanup: the process group is killed, the child reaped  *)
(* and its exit recorded, or the kill fails and nothing changes.           *)
reaped(h) == [h EXCEPT !.os = "dead", !.child = FALSE, !.exit = h.exit \/ h.child]

kill_fails == faults < MaxFaults /\ faults' = faults + 1

(* Mutant: the handle is inserted on the strength of the first check.      *)
terminal_insert_unchecked(x) ==
  /\ term[x].state = "spawned"
  /\ term' = [term EXCEPT ![x].state = "held"]
  /\ UNCHANGED <<bound, wait, unb, binding, closed, ops, faults>>

(* then the quotas are checked again under the lock that inserts the       *)
(* handle; a terminal that no longer fits is cleaned up, by the callback   *)
(* and once more when the handle is dropped.                               *)
terminal_insert(x) ==
  LET s == term[x].owner IN
  /\ term[x].state = "spawned"
  /\ \/ /\ quota_left(s)
        /\ term' = [term EXCEPT ![x].state = "held"]
        /\ UNCHANGED faults
     \/ /\ ~quota_left(s)
        /\ term' = [term EXCEPT ![x] = [reaped(@) EXCEPT !.state = "gone"]]
        /\ UNCHANGED faults
     \/ /\ ~quota_left(s) /\ kill_fails
        /\ term' = [term EXCEPT ![x].state = "retired", ![x].tries = Attempts - 1]
  /\ UNCHANGED <<bound, wait, unb, binding, closed, ops>>

(* The process ends on its own.                                            *)
process_exits(x) ==
  /\ term[x].os = "running" /\ term[x].state # "gone"
  /\ term' = [term EXCEPT ![x].os = "dead"]
  /\ UNCHANGED <<bound, wait, unb, binding, closed, ops, faults>>

(* verify_terminal_owner: the terminal is in the map, the caller owns it   *)
(* and its session is bound.                                               *)
verified(x) == x \in held /\ term[x].owner \in bound

(* The callbacks of a session wait for the one that is creating.           *)
callback(x) == verified(x) /\ \A y \in spawned : term[y].owner # term[x].owner

(* handle_terminal_output notices an exit.                                 *)
terminal_output(x) ==
  /\ callback(x) /\ term[x].child /\ term[x].os = "dead"
  /\ term' = [term EXCEPT ![x].child = FALSE, ![x].exit = TRUE]
  /\ UNCHANGED <<bound, wait, unb, binding, closed, ops, faults>>

terminal_kill(x) ==
  /\ callback(x)
  /\ \/ term' = [term EXCEPT ![x] = reaped(@)] /\ UNCHANGED faults
     \/ kill_fails /\ UNCHANGED term
  /\ UNCHANGED <<bound, wait, unb, binding, closed, ops>>

terminal_release(x) ==
  /\ callback(x)
  /\ \/ term' = [term EXCEPT ![x] = [reaped(@) EXCEPT !.state = "gone"]] /\ UNCHANGED faults
     \/ kill_fails /\ UNCHANGED term
  /\ UNCHANGED <<bound, wait, unb, binding, closed, ops>>

(* handle_terminal_wait polls: the terminal is verified and an exit looked *)
(* for under the lock, and recorded under the lock again.                  *)
terminal_wait(x) ==
  /\ callback(x) /\ wait[x] = "none"
  /\ wait' = [wait EXCEPT ![x] = "polling"]
  /\ UNCHANGED <<bound, term, unb, binding, closed, ops, faults>>

(* Mutant: an exit recorded by another callback is not looked at.          *)
wait_poll_child(x) ==
  /\ wait[x] = "polling"
  /\ verified(x) /\ term[x].child /\ term[x].os = "dead"
  /\ wait' = [wait EXCEPT ![x] = "exited"]
  /\ UNCHANGED <<bound, term, unb, binding, closed, ops, faults>>

wait_poll(x) ==
  /\ wait[x] = "polling"
  /\ wait' = [wait EXCEPT ![x] = CASE ~verified(x) -> "error"
                                   [] verified(x) /\ term[x].exit -> "ok"
                                   [] verified(x) /\ ~term[x].exit /\ ~term[x].child -> "no_status"
                                   [] verified(x) /\ ~term[x].exit /\ term[x].child ->
                                        IF term[x].os = "dead" THEN "exited" ELSE "polling"]
  /\ UNCHANGED <<bound, term, unb, binding, closed, ops, faults>>

wait_record(x) ==
  /\ wait[x] = "exited"
  /\ IF x \in held
     THEN /\ wait' = [wait EXCEPT ![x] = "ok"]
          /\ term' = [term EXCEPT ![x].child = FALSE, ![x].exit = TRUE]
     ELSE wait' = [wait EXCEPT ![x] = "error"] /\ UNCHANGED term
  /\ UNCHANGED <<bound, unb, binding, closed, ops, faults>>

-----------------------------------------------------------------------------
(* bind_session takes the binding away while the pending updates are       *)
(* stored; it ends with the binding, or with an error and without it.  The *)
(* terminals of the session stay.                                          *)
bind_start(s) ==
  /\ sessions_write /\ unb[s] = "idle" /\ s \notin binding /\ ops[s] < MaxOps
  /\ ops' = [ops EXCEPT ![s] = @ + 1]
  /\ bound' = bound \ {s} /\ binding' = binding \cup {s} /\ closed' = closed \ {s}
  /\ UNCHANGED <<term, wait, unb, faults>>

bind_finish(s) ==
  /\ s \in binding
  /\ \/ sessions_write /\ bound' = bound \cup {s} /\ binding' = binding \ {s}
     \/ binding' = binding \ {s} /\ UNCHANGED bound
  /\ UNCHANGED <<term, wait, unb, closed, ops, faults>>

(* unbind_session: the binding goes first, then the session's handles are  *)
(* taken out of the map, and each is cleaned up with a bounded number of   *)
(* attempts and a last one when it is dropped.                             *)
unbind_start(s) ==
  /\ sessions_write /\ unb[s] = "idle" /\ s \notin binding /\ ops[s] < MaxOps
  /\ ops' = [ops EXCEPT ![s] = @ + 1]
  /\ bound' = bound \ {s}
  /\ unb' = [unb EXCEPT ![s] = "unbound"]
  /\ UNCHANGED <<term, wait, binding, closed, faults>>

retire_terminals(s) ==
  /\ unb[s] = "unbound"
  /\ term' = [x \in Terms |-> IF x \in held_by(s) THEN [term[x] EXCEPT !.state = "retired"]
                                                  ELSE term[x]]
  /\ unb' = [unb EXCEPT ![s] = "retiring"]
  /\ UNCHANGED <<bound, wait, binding, closed, ops, faults>>

retire_cleanup(x) ==
  LET h == term[x] IN
  /\ h.state = "retired"
  /\ \/ term' = [term EXCEPT ![x] = [reaped(h) EXCEPT !.state = "gone"]] /\ UNCHANGED faults
     \/ /\ kill_fails
        /\ term' = [term EXCEPT ![x] = [h EXCEPT !.tries = @ + 1,
                       !.state = IF h.tries + 1 = Attempts THEN "gone" ELSE "retired"]]
  /\ UNCHANGED <<bound, wait, unb, binding, closed, ops>>

unbind_done(s) ==
  /\ unb[s] = "retiring"
  /\ \A x \in Terms : term[x].owner = s => term[x].state # "retired"
  /\ unb' = [unb EXCEPT ![s] = "idle"]
  /\ closed' = closed \cup {s}
  /\ UNCHANGED <<bound, term, wait, binding, ops, faults>>

Callback(x) == \/ \E s \in Sessions : terminal_create(s, x)
               \/ terminal_insert(x) \/ terminal_output(x) \/ terminal_kill(x)
               \/ terminal_release(x) \/ terminal_wait(x)
Waiter(x) == wait_poll(x) \/ wait_record(x)
Session(s) == bind_start(s) \/ bind_finish(s) \/ unbind_start(s) \/ retire_terminals(s)
                \/ unbind_done(s)

Next == \/ \E x \in Terms : Callback(x) \/ Waiter(x) \/ process_exits(x) \/ retire_cleanup(x)
        \/ \E s \in Sessions : Session(s)

Spec == Init /\ [][Next]_vars

(* A waiting callback polls again every 25 milliseconds.                   *)
FairSpec == Spec /\ \A x \in Terms : WF_vars(Waiter(x))

-----------------------------------------------------------------------------
(* Every variable has its type.                                            *)
TerminalsTypeOK ==
  /\ bound \subseteq Sessions /\ binding \subseteq Sessions \ bound
  /\ closed \subseteq Sessions \ bound
  /\ \A x \in Terms :
       /\ term[x].state \in {"none", "spawned", "held", "retired", "gone"}
       /\ term[x].owner \in Sessions \cup {None}
       /\ term[x].os \in {"none", "running", "dead"}
       /\ term[x].child \in BOOLEAN /\ term[x].exit \in BOOLEAN
       /\ term[x].tries \in 0..Attempts
       /\ wait[x] \in {"none", "polling", "exited", "ok", "error"}
  /\ unb \in [Sessions -> {"idle", "unbound", "retiring"}]
  /\ ops \in [Sessions -> 0..MaxOps] /\ faults \in 0..MaxFaults

(* The quotas hold although two agents create terminals at once.           *)
TerminalQuota ==
  /\ Cardinality(held) <= MaxGlobal
  /\ \A s \in Sessions : Cardinality(held_by(s)) <= MaxSession

(* When unbind_session has returned no terminal of the session is left in  *)
(* the map or in creation, and its process has ended unless every attempt  *)
(* to kill it failed: a terminal/create in progress cannot slip past the   *)
(* unbind.                                                                 *)
ClosedHasNoTerminal ==
  \A s \in closed : \A x \in Terms :
    term[x].owner = s => /\ term[x].state = "gone"
                         /\ term[x].os = "dead" \/ term[x].tries = Attempts

(* A terminal that an agent may still ask about has its process or the     *)
(* status that it ended with, whoever of kill, output, wait and release    *)
(* noticed the end first.                                                  *)
ExitRecorded == \A x \in held : term[x].child \/ term[x].exit

(* A wait for a process that has ended, or for a terminal that was         *)
(* released or retired, returns.                                           *)
WaitReturns ==
  \A x \in Terms : wait[x] = "polling" /\ (term[x].os = "dead" \/ term[x].state = "gone")
                     ~> wait[x] \in {"ok", "error"}

(* Terminals stay within the quotas, none outlives the unbind of its       *)
(* session, and one that can be asked about has its process or its status. *)
TerminalsInv ==
  TerminalsTypeOK /\ TerminalQuota /\ ClosedHasNoTerminal /\ ExitRecorded
=============================================================================
