------------------------------- MODULE Turns -------------------------------
(***************************************************************************)
(* What the hub promises to whoever works on a conversation: one holder at *)
(* a time, one prompt per agent, and a turn that belongs to the holder     *)
(* from its first to its last moment.  It ends once; a cancellation that   *)
(* was acknowledged is not taken back; nobody lets go of a conversation    *)
(* while the turn is in flight.  Locks, transactions, sessions, workers    *)
(* and supervisors do not appear here: HubOps shows that they implement    *)
(* this.                                                                   *)
(***************************************************************************)

CONSTANTS Convs, Tasks, NoTask, AgentOf

VARIABLES
  slot,  \* who holds a conversation, for what kind of operation, and whether
         \* a cancellation of it was acknowledged
  turn   \* the status of the turn a task carries out

absVars == <<slot, turn>>

Free    == [tok |-> NoTask, kind |-> "none", cancel |-> FALSE]
Work    == {"prompt", "set", "close", "delete", "refresh", "external"}
Going   == {"running", "cancelling"}
Endings == {"completed", "cancelled", "failed"}

AbsInit ==
  /\ slot = [c \in Convs |-> Free]
  /\ turn = [t \in Tasks |-> "absent"]

Move(t, from, to) ==
  /\ turn[t] \in from
  /\ turn' = [turn EXCEPT ![t] = to]
  /\ UNCHANGED slot

Take(t, c, kind) ==
  /\ slot[c] = Free
  /\ \A d \in Convs : /\ slot[d].tok # t
                      /\ kind = "prompt" /\ slot[d].kind = "prompt" => AgentOf[d] # AgentOf[c]
  /\ slot' = [slot EXCEPT ![c] = [tok |-> t, kind |-> kind, cancel |-> FALSE]]
  /\ UNCHANGED turn

Begin(t, c) == slot[c].tok = t /\ ~slot[c].cancel /\ Move(t, {"absent"}, "running")
Mark(t, c)  == slot[c].tok = t /\ ~slot[c].cancel /\ Move(t, {"running"}, "cancelling")

\* A cancellation that cannot be carried out is undone before it is answered.
Unmark(t, c) == slot[c].tok = t /\ ~slot[c].cancel /\ Move(t, {"cancelling"}, "running")

Acknowledge(t, c) ==
  /\ slot[c].tok = t /\ slot[c].kind = "prompt" /\ ~slot[c].cancel
  /\ turn[t] \in Endings \cup {"cancelling"}
  /\ slot' = [slot EXCEPT ![c].cancel = TRUE]
  /\ UNCHANGED turn

End(t, c, ending) == slot[c].tok = t /\ Move(t, Going, ending)

LetGo(t, c) ==
  /\ slot[c].tok = t /\ turn[t] \notin Going
  /\ slot' = [slot EXCEPT ![c] = Free]
  /\ UNCHANGED turn

\* The daemon dies and the next one starts: every turn in flight has failed.
Restart ==
  /\ slot' = [c \in Convs |-> Free]
  /\ turn' = [t \in Tasks |-> IF turn[t] \in Going THEN "failed" ELSE turn[t]]

AbsNext ==
  \/ \E t \in Tasks, c \in Convs :
       \/ \E kind \in Work : Take(t, c, kind)
       \/ Begin(t, c) \/ Mark(t, c) \/ Unmark(t, c) \/ Acknowledge(t, c)
       \/ \E ending \in Endings : End(t, c, ending)
       \/ LetGo(t, c)
  \/ Restart

TurnsSpec == AbsInit /\ [][AbsNext]_absVars
=============================================================================
