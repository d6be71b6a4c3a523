--------------------------- MODULE CaptureProofs ---------------------------
(***************************************************************************)
(* Proofs about the callback context, for every finite set of sessions and *)
(* every quota: what a session/new or a capture operation reports is true  *)
(* of the updates refused before its response; the quota counters are      *)
(* exact; every accepted update is in exactly one place; and the queue of  *)
(* a new session is drained in protocol order.                             *)
(***************************************************************************)
EXTENDS Capture, SumTheorems, SequenceTheorems

-----------------------------------------------------------------------------
(* The records of the quarantine, the creator, the handler and the binder  *)
(* have the fields that their updates address.                             *)
Shapes ==
  /\ DOMAIN quar = {"active", "entries", "error"}
  /\ DOMAIN make = {"pc", "session", "replay", "failed", "refused", "owes"}
  /\ DOMAIN hand = {"pc", "session", "u"}
  /\ DOMAIN bind = {"pc", "session", "u"}
  /\ quar.active \in BOOLEAN /\ quar.error \in BOOLEAN
  /\ make.failed \in BOOLEAN
  /\ hand.pc # "idle" => hand.session \in Sessions
  /\ bind.pc # "idle" => bind.session \in Sessions

(* Where a creation keeps what it knows of an update refused before its    *)
(* response: in the hands of the handler, which the response waits for, in *)
(* the quarantine while that is open, then in the failure that publish     *)
(* returns.  A creation that goes on to bind its session has had none.     *)
CreationPlaced ==
  /\ quar.active => make.pc \in {"sent", "publish", "reject", "unclaim"}
  /\ make.pc \in {"sent", "publish"} => quar.active
  /\ quar.active /\ "sent" \in make.refused =>
       quar.error \/ (make.pc = "sent" /\ hand.pc = "refused")
  /\ make.pc = "replay" /\ "sent" \in make.refused => make.failed
  /\ make.pc \in {"new", "bind", "ok"} => "sent" \notin make.refused

CreationInv == Shapes /\ CreationPlaced

(* The capture operations and their failure ledger.                        *)
TurnTypes ==
  /\ bound \subseteq Sessions /\ missed \subseteq Sessions \X {"handler", "replay"}
  /\ turn \in [Sessions -> {"none", "running", "answered", "ok", "failed"}]
  /\ ledger \in [Sessions -> {"none", "clean", "failed"}]

(* An operation in progress has an open ledger, which says "failed" once   *)
(* the handler has recorded a refused update; until then its response has  *)
(* to wait.  The new session has no operation before it is published.      *)
Recording(s) == turn[s] = "running" /\ hand.pc \in {"refused", "recording"} /\ hand.session = s
LedgerOpen ==
  /\ \A s \in Sessions : turn[s] \in {"running", "answered"} =>
       ledger[s] # "none" /\ (<<s, "handler">> \in missed => ledger[s] = "failed" \/ Recording(s))
  /\ make.pc # "ok" => turn[Fresh] \notin {"running", "answered"}

TurnInv == TurnTypes /\ LedgerOpen /\ RefusedUpdateFailsTurn

-----------------------------------------------------------------------------
(* Every step of the handler, the creator and the binder keeps what the    *)
(* creation knows of the refused updates in its place.                     *)
LEMMA CreationStep ==
  ASSUME CreationInv, [Next]_vars
  PROVE  CreationInv'
<1>1. ASSUME NEW s \in Sessions, handle_notification(s) PROVE CreationInv'
  BY <1>1, SMTT(30) DEF handle_notification, cap, CreationInv, Shapes,
     CreationPlaced
<1>2. CASE capture_session_creation_notification
  BY <1>2, SMTT(30) DEF capture_session_creation_notification, refuse,
     HandIdle, accept, CreationInv, Shapes, CreationPlaced
<1>3. CASE lookup_binding
  BY <1>3, SMTT(30) DEF lookup_binding, cap, CreationInv, Shapes,
     CreationPlaced
<1>4. CASE enqueue_pending
  BY <1>4, SMTT(30) DEF enqueue_pending, refuse, HandIdle, accept,
     CreationInv, Shapes, CreationPlaced
<1>5. CASE capture_bound_notification
  <2>1. hand.pc = "store" /\ UNCHANGED <<quar, bind>>
    BY <1>5 DEF capture_bound_notification, cap
  <2>2. CASE accept /\ UNCHANGED make
    BY <2>1, <2>2, SMTT(30) DEF accept, HandIdle, CreationInv, Shapes, CreationPlaced
  <2>3. CASE refuse
    BY <2>1, <2>3, SMTT(30) DEF refuse, CreationInv, Shapes, CreationPlaced
  <2> QED
    BY <1>5, <2>2, <2>3 DEF capture_bound_notification
<1>6. CASE begin_session_creation_capture
  BY <1>6, SMTT(30) DEF begin_session_creation_capture, NoQuar, CreationInv,
     Shapes, CreationPlaced
<1>7. CASE create_session_response
  <2>1. /\ make.pc = "sent" /\ UNCHANGED <<quar, hand, bind>>
        /\ \/ \E p \in {"publish", "unclaim", "reject"}, s \in Sessions :
                make' = [make EXCEPT !.pc = p, !.session = s]
           \/ make' = [make EXCEPT !.pc = "reject"]
    BY <1>7 DEF create_session_response, cap, Sessions
  <2>2. /\ DOMAIN make' = DOMAIN make
        /\ make'.failed = make.failed /\ make'.refused = make.refused
        /\ make'.pc \in {"publish", "unclaim", "reject"}
    BY <2>1 DEF CreationInv, Shapes
  <2>3. hand.pc = "idle"
    BY <1>7 DEF create_session_response
  <2> QED
    BY <2>1, <2>2, <2>3 DEF CreationInv, Shapes, CreationPlaced
<1>8. CASE finish_session_creation_capture
  BY <1>8, SMTT(30) DEF finish_session_creation_capture, NoQuar,
     CreationInv, Shapes, CreationPlaced
<1>9. CASE replay_session_creation_notification
  <2>1. /\ UNCHANGED <<quar, hand, bind>>
        /\ \/ make' = [make EXCEPT !.replay = Tail(@)]
           \/ make' = [make EXCEPT !.replay = Tail(@), !.failed = TRUE,
                                  !.owes = Head(make.replay).session]
    BY <1>9 DEF replay_session_creation_notification, cap
  <2> QED
    BY <2>1 DEF CreationInv, Shapes, CreationPlaced
<1>10. CASE creation_published
  BY <1>10, SMTT(30) DEF creation_published, cap, CreationInv, Shapes,
     CreationPlaced
<1>11. CASE rollback_publication
  BY <1>11, SMTT(30) DEF rollback_publication, CreationInv, Shapes,
     CreationPlaced
<1>12. ASSUME NEW s \in Sessions, bind_start(s) PROVE CreationInv'
  BY <1>12, SMTT(30) DEF bind_start, CreationInv, Shapes, CreationPlaced
<1>13. CASE bind_pop
  <2>1. /\ UNCHANGED <<quar, hand, make>> /\ bind.pc = "drain"
        /\ \/ bind' = [bind EXCEPT !.pc = "finish"]
           \/ bind' = [bind EXCEPT !.pc = "capture", !.u = Head(pend[bind.session])]
    BY <1>13 DEF bind_pop
  <2> QED
    BY <2>1 DEF CreationInv, Shapes, CreationPlaced
<1>14. CASE bind_capture
  <2>1. /\ UNCHANGED <<quar, hand>> /\ bind.pc = "capture"
        /\ \/ bind' = [bind EXCEPT !.pc = "drain", !.u = 0]
           \/ bind' = BindIdle
    BY <1>14 DEF bind_capture
  <2>2. \/ UNCHANGED make
        \/ make' = [make EXCEPT !.pc = IF bind.session = Fresh /\ @ = "bind"
                                      THEN "unclaim" ELSE @]
    BY <1>14 DEF bind_capture
  <2>3. /\ DOMAIN make' = DOMAIN make
        /\ make'.failed = make.failed /\ make'.refused = make.refused
        /\ make'.pc = make.pc \/ (make.pc = "bind" /\ make'.pc = "unclaim")
    BY <2>2 DEF CreationInv, Shapes
  <2>4. Shapes'
    <3>1. /\ DOMAIN bind' = {"pc", "session", "u"}
          /\ bind'.pc # "idle" => bind'.session \in Sessions
      <4>1. CASE bind' = BindIdle
        BY <4>1 DEF BindIdle
      <4>2. CASE bind' = [bind EXCEPT !.pc = "drain", !.u = 0]
        BY <2>1, <4>2 DEF CreationInv, Shapes
      <4> QED
        BY <2>1, <4>1, <4>2
    <3> QED
      BY <2>1, <2>3, <3>1 DEF CreationInv, Shapes
  <2>5. CreationPlaced'
    BY <2>1, <2>3 DEF CreationInv, Shapes, CreationPlaced
  <2> QED
    BY <2>4, <2>5 DEF CreationInv
<1>15. CASE bind_finish
  BY <1>15, SMTT(30) DEF bind_finish, BindIdle, CreationInv, Shapes,
     CreationPlaced
<1>16. ASSUME NEW s \in Sessions, begin_capture_operation(s) PROVE CreationInv'
  BY <1>16, SMTT(30) DEF begin_capture_operation, cap, CreationInv, Shapes,
     CreationPlaced
<1>17. ASSUME NEW s \in Sessions, response_arrives(s) PROVE CreationInv'
  BY <1>17, SMTT(30) DEF response_arrives, cap, CreationInv, Shapes,
     CreationPlaced
<1>18. ASSUME NEW s \in Sessions, take_capture_failure(s) PROVE CreationInv'
  BY <1>18, SMTT(30) DEF take_capture_failure, cap, CreationInv, Shapes,
     CreationPlaced
<1>19. ASSUME NEW s \in Sessions, unbind_session(s) PROVE CreationInv'
  BY <1>19, SMTT(30) DEF unbind_session, CreationInv, Shapes, CreationPlaced
<1>20. CASE remove_agent_state
  <2>1. quar' = NoQuar /\ UNCHANGED <<hand, make, bind>>
        /\ make.pc \in {"new", "ok", "error"}
    BY <1>20, Zenon DEF remove_agent_state
  <2> QED
    BY <2>1 DEF CreationInv, Shapes, CreationPlaced, NoQuar
<1>21. CASE UNCHANGED vars
  BY <1>21 DEF vars, cap, CreationInv, Shapes, CreationPlaced
<1>22. CASE record_session_creation_capture_failure
  BY <1>22, SMTT(30) DEF record_session_creation_capture_failure, CreationInv, Shapes,
     CreationPlaced
<1>23. CASE record_refusal
  BY <1>23, SMTT(30) DEF record_refusal, cap, HandIdle, CreationInv, Shapes, CreationPlaced
<1>24. CASE record_replay_failure
  <2>1. UNCHANGED <<quar, hand, bind>> /\ make' = [make EXCEPT !.owes = None]
    BY <1>24 DEF record_replay_failure, cap
  <2> QED
    BY <2>1 DEF CreationInv, Shapes, CreationPlaced
<1> QED
  BY <1>1, <1>2, <1>3, <1>4, <1>5, <1>6, <1>7, <1>8, <1>9, <1>10, <1>11,
     <1>12, <1>13, <1>14, <1>15, <1>16, <1>17, <1>18, <1>19, <1>20, <1>21, <1>22,
     <1>23, <1>24
     DEF Next, Handler, Creator, Binder, Turn

(* Every step keeps the ledger of each capture operation in step with the  *)
(* updates refused during it.                                              *)
LEMMA TurnStep ==
  ASSUME CreationInv, TurnInv, [Next]_vars
  PROVE  TurnInv'
<1>1. ASSUME NEW s \in Sessions, handle_notification(s) PROVE TurnInv'
  BY <1>1, SMTT(30) DEF handle_notification, cap, ops, CreationInv, TurnInv,
     Shapes, TurnTypes, LedgerOpen, Recording, RefusedUpdateFailsTurn
<1>2. CASE capture_session_creation_notification
  BY <1>2, SMTT(30) DEF capture_session_creation_notification, refuse,
     HandIdle, accept, CreationInv, TurnInv, Shapes,
     TurnTypes, LedgerOpen, Recording, RefusedUpdateFailsTurn
<1>3. CASE lookup_binding
  BY <1>3, SMTT(30) DEF lookup_binding, cap, ops, CreationInv, TurnInv,
     Shapes, TurnTypes, LedgerOpen, Recording, RefusedUpdateFailsTurn
<1>4. CASE enqueue_pending
  BY <1>4, SMTT(30) DEF enqueue_pending, refuse,
     HandIdle, accept, CreationInv, TurnInv, Shapes, TurnTypes, LedgerOpen, Recording,
     RefusedUpdateFailsTurn
<1>5. CASE capture_bound_notification
  BY <1>5, SMTT(30) DEF capture_bound_notification, refuse,
     HandIdle, accept, write_fails, CreationInv,
     TurnInv, Shapes, TurnTypes, LedgerOpen, Recording, RefusedUpdateFailsTurn
<1>6. CASE begin_session_creation_capture
  BY <1>6, SMTT(30) DEF begin_session_creation_capture, NoQuar, ops,
     CreationInv, TurnInv, Shapes, TurnTypes, LedgerOpen, Recording,
     RefusedUpdateFailsTurn
<1>7. CASE create_session_response
  <2>1. /\ make.pc = "sent" /\ UNCHANGED <<bound, missed, turn, ledger, hand>>
    BY <1>7 DEF create_session_response, ops
  <2> QED
    BY <2>1 DEF TurnInv, TurnTypes, LedgerOpen, Recording, RefusedUpdateFailsTurn
<1>8. CASE finish_session_creation_capture
  BY <1>8, SMTT(30) DEF finish_session_creation_capture, NoQuar, ops,
     CreationInv, TurnInv, Shapes, TurnTypes, LedgerOpen, Recording,
     RefusedUpdateFailsTurn
<1>9. CASE replay_session_creation_notification
  <2>1. /\ UNCHANGED <<bound, turn, ledger, hand>> /\ make'.pc = make.pc
    <3>1. \/ make' = [make EXCEPT !.replay = Tail(@)]
          \/ make' = [make EXCEPT !.replay = Tail(@), !.failed = TRUE,
                                 !.owes = Head(make.replay).session]
      BY <1>9 DEF replay_session_creation_notification
    <3> QED
      BY <1>9, <3>1 DEF replay_session_creation_notification, CreationInv, Shapes
  <2>2. \/ UNCHANGED missed
        \/ \E s \in bound : missed' \in {missed, missed \cup {<<s, "replay">>}}
    BY <1>9 DEF replay_session_creation_notification
  <2>3. \A s : <<s, "handler">> \in missed' => <<s, "handler">> \in missed
    BY <2>2
  <2> QED
    BY <2>1, <2>2, <2>3 DEF TurnInv, TurnTypes, LedgerOpen, Recording, RefusedUpdateFailsTurn
<1>10. CASE creation_published
  BY <1>10, SMTT(30) DEF creation_published, cap, ops, CreationInv, TurnInv,
     Shapes, TurnTypes, LedgerOpen, Recording, RefusedUpdateFailsTurn
<1>11. CASE rollback_publication
  <2>1. /\ make.pc = "unclaim" /\ bound' \subseteq bound /\ UNCHANGED <<missed, turn, hand>>
        /\ ledger' = [ledger EXCEPT ![Fresh] = "none"]
    BY <1>11 DEF rollback_publication, unbind
  <2> QED
    BY <2>1 DEF TurnInv, TurnTypes, LedgerOpen, Recording, RefusedUpdateFailsTurn
<1>12. ASSUME NEW s \in Sessions, bind_start(s) PROVE TurnInv'
  BY <1>12, SMTT(30) DEF bind_start, busy, CreationInv, TurnInv, Shapes,
     TurnTypes, LedgerOpen, Recording, RefusedUpdateFailsTurn
<1>13. CASE bind_pop
  <2>1. UNCHANGED <<bound, missed, turn, ledger, hand, make>>
    BY <1>13 DEF bind_pop, ops
  <2> QED
    BY <2>1 DEF TurnInv, TurnTypes, LedgerOpen, Recording, RefusedUpdateFailsTurn
<1>14. CASE bind_capture
  <2>1. \/ UNCHANGED make
        \/ make' = [make EXCEPT !.pc = IF bind.session = Fresh /\ @ = "bind"
                                      THEN "unclaim" ELSE @]
    BY <1>14 DEF bind_capture
  <2>2. make.pc = "ok" => make'.pc = "ok"
    BY <2>1 DEF CreationInv, Shapes
  <2>3. bind.session \in Sessions /\ UNCHANGED <<bound, turn, hand, missed>>
    BY <1>14 DEF bind_capture, CreationInv, Shapes
  <2>4. CASE UNCHANGED ledger
    BY <2>2, <2>3, <2>4 DEF TurnInv, TurnTypes, LedgerOpen, Recording, RefusedUpdateFailsTurn
  <2>5. CASE record_capture_failure(bind.session)
    BY <2>2, <2>3, <2>5 DEF record_capture_failure, TurnInv, TurnTypes, LedgerOpen, Recording,
                            RefusedUpdateFailsTurn
  <2> QED
    BY <1>14, <2>4, <2>5 DEF bind_capture
<1>15. CASE bind_finish
  BY <1>15, SMTT(30) DEF bind_finish, BindIdle, ops, CreationInv, TurnInv,
     Shapes, TurnTypes, LedgerOpen, Recording, RefusedUpdateFailsTurn
<1>16. ASSUME NEW s \in Sessions, begin_capture_operation(s) PROVE TurnInv'
  BY <1>16, SMTT(30) DEF begin_capture_operation, busy, cap, CreationInv,
     TurnInv, Shapes, TurnTypes, LedgerOpen, Recording, RefusedUpdateFailsTurn
<1>17. ASSUME NEW s \in Sessions, response_arrives(s) PROVE TurnInv'
  BY <1>17, SMTT(30) DEF response_arrives, cap, CreationInv, TurnInv,
     Shapes, TurnTypes, LedgerOpen, Recording, RefusedUpdateFailsTurn
<1>18. ASSUME NEW s \in Sessions, take_capture_failure(s) PROVE TurnInv'
  BY <1>18, SMTT(30) DEF take_capture_failure, cap, CreationInv, TurnInv,
     Shapes, TurnTypes, LedgerOpen, Recording, RefusedUpdateFailsTurn
<1>19. ASSUME NEW s \in Sessions, unbind_session(s) PROVE TurnInv'
  BY <1>19, SMTT(30) DEF unbind_session, unbind, busy, CreationInv, TurnInv,
     Shapes, TurnTypes, LedgerOpen, Recording, RefusedUpdateFailsTurn
<1>20. CASE remove_agent_state
  <2>1. /\ bound' = {} /\ UNCHANGED <<missed, turn, hand, make>>
        /\ ledger' = [s \in Sessions |-> "none"]
        /\ \A s \in Sessions : turn[s] \notin {"running", "answered"}
    BY <1>20, Zenon DEF remove_agent_state
  <2> QED
    BY <2>1 DEF TurnInv, TurnTypes, LedgerOpen, Recording, RefusedUpdateFailsTurn
<1>21. CASE UNCHANGED vars
  BY <1>21 DEF vars, cap, ops, CreationInv, TurnInv, Shapes, TurnTypes,
     LedgerOpen, Recording, RefusedUpdateFailsTurn
<1>22. CASE record_session_creation_capture_failure
  BY <1>22, SMTT(30) DEF record_session_creation_capture_failure, ops, CreationInv, TurnInv,
     Shapes, TurnTypes, LedgerOpen, Recording, RefusedUpdateFailsTurn
<1>23. CASE record_refusal
  BY <1>23, SMTT(30) DEF record_refusal, record_capture_failure, HandIdle, CreationInv,
     TurnInv, Shapes, TurnTypes, LedgerOpen, Recording, RefusedUpdateFailsTurn
<1>24. CASE record_replay_failure
  <2>1. /\ UNCHANGED <<bound, missed, turn, hand>> /\ make'.pc = make.pc
        /\ record_capture_failure(make.owes)
    BY <1>24 DEF record_replay_failure, CreationInv, Shapes
  <2> QED
    BY <2>1 DEF record_capture_failure, TurnInv, TurnTypes, LedgerOpen, Recording,
                RefusedUpdateFailsTurn
<1> QED
  BY <1>1, <1>2, <1>3, <1>4, <1>5, <1>6, <1>7, <1>8, <1>9, <1>10, <1>11,
     <1>12, <1>13, <1>14, <1>15, <1>16, <1>17, <1>18, <1>19, <1>20, <1>21, <1>22,
     <1>23, <1>24
     DEF Next, Handler, Creator, Binder, Turn

-----------------------------------------------------------------------------
(* The initial state: every known session is bound, nothing is in progress.*)
LEMMA CaptureStarts ==
  ASSUME Init
  PROVE  CreationInv /\ TurnInv
<1>1. CreationInv
  BY DEF Init, CreationInv, Shapes, CreationPlaced, NoQuar, MakeNew, HandIdle, BindIdle
<1>2. TurnInv
  BY DEF Init, TurnInv, TurnTypes, LedgerOpen, RefusedUpdateFailsTurn, Sessions
<1> QED
  BY <1>1, <1>2

(* A session/new that reports success has kept every update the agent sent *)
(* before its response (hub/conversation.rs, handle_notification and the   *)
(* publish of callbacks/capture.rs): the handler refuses an update and     *)
(* poisons the quarantine in two steps, but the response is dispatched     *)
(* behind it; publish then hands the poison on, and the creator undoes the *)
(* publication.                                                            *)
THEOREM CreationsAreHonest == Spec => []PublicationHonest
<1>1. Init => CreationInv
  BY CaptureStarts
<1>2. CreationInv /\ [Next]_vars => CreationInv'
  BY CreationStep
<1>3. CreationInv => PublicationHonest
  BY DEF CreationInv, CreationPlaced, PublicationHonest
<1> QED
  BY <1>1, <1>2, <1>3, PTL DEF Spec

(* An update that the handler refuses before the response of a prompt, a   *)
(* load or a resume makes that operation fail (take_capture_failure),      *)
(* whatever binds, unbinds, replays and publications run between the       *)
(* refusal, its record and the end of the operation.                       *)
THEOREM TurnsAreHonest == Spec => []RefusedUpdateFailsTurn
<1>1. Init => CreationInv /\ TurnInv
  BY CaptureStarts
<1>2. CreationInv /\ TurnInv /\ [Next]_vars => (CreationInv /\ TurnInv)'
  BY CreationStep, TurnStep
<1>3. TurnInv => RefusedUpdateFailsTurn
  BY DEF TurnInv
<1> QED
  BY <1>1, <1>2, <1>3, PTL DEF Spec

-----------------------------------------------------------------------------
(* How often an update occurs in a queue.                                  *)
LEMMA OccSet ==
  ASSUME NEW X, NEW q \in Seq(X), NEW x
  PROVE  /\ IsFiniteSet({i \in DOMAIN q : q[i] = x}) /\ occurrences(q, x) \in Nat
         /\ DOMAIN q = 1..Len(q) /\ Len(q) \in Nat
<1>1. DOMAIN q = 1..Len(q) /\ Len(q) \in Nat
  BY LenProperties
<1>2. IsFiniteSet(1..Len(q))
  BY <1>1, FS_Interval
<1>3. {i \in DOMAIN q : q[i] = x} \in SUBSET (1..Len(q))
  BY <1>1
<1> QED
  BY <1>1, <1>2, <1>3, FS_Subset, FS_CardinalityType DEF occurrences

LEMMA OccEmpty ==
  ASSUME NEW x
  PROVE  occurrences(<<>>, x) = 0
<1>1. {i \in DOMAIN <<>> : <<>>[i] = x} = {}
  OBVIOUS
<1> QED
  BY <1>1, FS_EmptySet DEF occurrences

LEMMA OccOne ==
  ASSUME NEW y, NEW x
  PROVE  occurrences(<<y>>, x) = IF y = x THEN 1 ELSE 0
<1>1. {i \in DOMAIN <<y>> : <<y>>[i] = x} = IF y = x THEN {1} ELSE {}
  OBVIOUS
<1> QED
  BY <1>1, FS_EmptySet, FS_Singleton DEF occurrences

LEMMA OccConcat ==
  ASSUME NEW X, NEW p \in Seq(X), NEW q \in Seq(X), NEW x
  PROVE  occurrences(p \o q, x) = occurrences(p, x) + occurrences(q, x)
<1> DEFINE A == {i \in DOMAIN p : p[i] = x}
           B == {i \in DOMAIN q : q[i] = x}
           C == {i \in (Len(p) + 1)..(Len(p) + Len(q)) : q[i - Len(p)] = x}
           D == {i \in DOMAIN (p \o q) : (p \o q)[i] = x}
<1>1. /\ DOMAIN p = 1..Len(p) /\ Len(p) \in Nat /\ DOMAIN q = 1..Len(q) /\ Len(q) \in Nat
      /\ IsFiniteSet(A) /\ IsFiniteSet(B)
  BY OccSet
<1>2. /\ DOMAIN (p \o q) = 1..(Len(p) + Len(q))
      /\ \A i \in 1..(Len(p) + Len(q)) : (p \o q)[i] = IF i <= Len(p) THEN p[i] ELSE q[i - Len(p)]
  BY <1>1, ConcatProperties, LenProperties
<1>3. A \cap C = {}
  BY <1>1
<1>4. D = A \cup C
  BY <1>1, <1>2
<1>5. IsFiniteSet(C) /\ Cardinality(C) = Cardinality(B)
  <2> DEFINE f == [i \in B |-> i + Len(p)]
  <2>1. \A i \in B : f[i] \in C
    BY <1>1
  <2>2. \A i, j \in B : f[i] = f[j] => i = j
    BY <1>1
  <2>3. \A k \in C : k - Len(p) \in B /\ f[k - Len(p)] = k
    <3> SUFFICES ASSUME NEW k \in C PROVE k - Len(p) \in B /\ f[k - Len(p)] = k
      OBVIOUS
    <3>1. k - Len(p) \in B
      BY <1>1
    <3> QED
      BY <1>1, <3>1
  <2> HIDE DEF B, C
  <2>4. f \in Bijection(B, C)
    BY <2>1, <2>2, <2>3 DEF Bijection, Injection, Surjection, IsInjective
  <2>5. ExistsBijection(B, C)
    BY <2>4 DEF ExistsBijection
  <2> QED
    BY <1>1, <2>5, FS_Bijection
<1> HIDE DEF A, B, C, D
<1>6. Cardinality(A \cup C) = Cardinality(A) + Cardinality(C)
  <2>1. Cardinality(A) \in Nat /\ Cardinality(C) \in Nat /\ Cardinality(A \cap C) = 0
    BY <1>1, <1>3, <1>5, FS_CardinalityType, FS_EmptySet
  <2>2. Cardinality(A \cup C) = Cardinality(A) + Cardinality(C) - Cardinality(A \cap C)
    BY <1>1, <1>5, FS_Union
  <2>3. Cardinality(A \cup C) = Cardinality(A) + Cardinality(C) - 0
    BY <2>1, <2>2
  <2> QED
    BY <2>1, <2>3
<1> QED
  BY <1>4, <1>5, <1>6 DEF occurrences, A, B, D

LEMMA OccAppend ==
  ASSUME NEW X, NEW q \in Seq(X), NEW y \in X, NEW x
  PROVE  occurrences(Append(q, y), x) = occurrences(q, x) + (IF y = x THEN 1 ELSE 0)
<1>1. Append(q, y) = q \o <<y>> /\ <<y>> \in Seq(X)
  BY AppendIsConcat
<1>2. occurrences(q \o <<y>>, x) = occurrences(q, x) + occurrences(<<y>>, x)
  BY <1>1, OccConcat
<1>3. occurrences(<<y>>, x) = IF y = x THEN 1 ELSE 0
  BY OccOne
<1> QED
  BY <1>1, <1>2, <1>3

LEMMA OccFront ==
  ASSUME NEW X, NEW q \in Seq(X), NEW y \in X, NEW x
  PROVE  occurrences(<<y>> \o q, x) = (IF y = x THEN 1 ELSE 0) + occurrences(q, x)
<1>1. <<y>> \in Seq(X)
  OBVIOUS
<1>2. occurrences(<<y>> \o q, x) = occurrences(<<y>>, x) + occurrences(q, x)
  BY <1>1, OccConcat
<1>3. occurrences(<<y>>, x) = IF y = x THEN 1 ELSE 0
  BY OccOne
<1> QED
  BY <1>2, <1>3

(* A queue is its head and its tail.                                       *)
LEMMA HeadTailConcat ==
  ASSUME NEW X, NEW q \in Seq(X), q # <<>>
  PROVE  /\ Head(q) \in X /\ Tail(q) \in Seq(X)
         /\ q = <<Head(q)>> \o Tail(q)
<1>0. Head(q) \in X /\ Tail(q) \in Seq(X)
  BY HeadTailProperties
<1>1. /\ Len(q) \in Nat \ {0} /\ Len(Tail(q)) = Len(q) - 1 /\ Head(q) = q[1]
      /\ \A i \in 1..Len(Tail(q)) : Tail(q)[i] = q[i + 1]
  BY EmptySeq, HeadTailProperties
<1>2. <<Head(q)>> \in Seq(X) /\ Len(<<Head(q)>>) = 1 /\ <<Head(q)>>[1] = Head(q)
  BY <1>0
<1>3. /\ <<Head(q)>> \o Tail(q) \in Seq(X) /\ Len(<<Head(q)>> \o Tail(q)) = 1 + Len(Tail(q))
      /\ \A i \in 1..(1 + Len(Tail(q))) : (<<Head(q)>> \o Tail(q))[i] =
           IF i <= 1 THEN <<Head(q)>>[i] ELSE Tail(q)[i - 1]
  BY <1>0, <1>2, ConcatProperties
<1>4. ASSUME NEW i \in 1..Len(q) PROVE q[i] = (<<Head(q)>> \o Tail(q))[i]
  <2>1. i \in 1..(1 + Len(Tail(q)))
    BY <1>1
  <2>2. CASE i = 1
    BY <1>1, <1>2, <1>3, <2>1, <2>2
  <2>3. CASE i # 1
    <3>1. i - 1 \in 1..Len(Tail(q)) /\ ~(i <= 1) /\ (i - 1) + 1 = i
      BY <1>1, <2>3
    <3> QED
      BY <1>1, <1>3, <2>1, <3>1
  <2> QED
    BY <2>2, <2>3
<1>5. Len(q) = Len(<<Head(q)>> \o Tail(q))
  BY <1>1, <1>3
<1> QED
  BY <1>0, <1>3, <1>4, <1>5, SeqEqual

LEMMA OccHead ==
  ASSUME NEW X, NEW q \in Seq(X), q # <<>>, NEW x
  PROVE  /\ Head(q) \in X /\ Tail(q) \in Seq(X)
         /\ occurrences(q, x) = (IF Head(q) = x THEN 1 ELSE 0) + occurrences(Tail(q), x)
<1>1. Head(q) \in X /\ Tail(q) \in Seq(X)
  BY HeadTailConcat
<1>2. q = <<Head(q)>> \o Tail(q)
  BY HeadTailConcat
<1>3. PICK h \in X, t \in Seq(X) : h = Head(q) /\ t = Tail(q)
  BY <1>1
<1>4. occurrences(<<h>> \o t, x) = (IF h = x THEN 1 ELSE 0) + occurrences(t, x)
  BY OccFront
<1> QED
  BY <1>1, <1>2, <1>3, <1>4

LEMMA OccIn ==
  ASSUME NEW X, NEW q \in Seq(X), NEW x
  PROVE  x \in ToSet(q) <=> occurrences(q, x) # 0
<1>1. IsFiniteSet({i \in DOMAIN q : q[i] = x})
  BY OccSet
<1>2. occurrences(q, x) = 0 <=> {i \in DOMAIN q : q[i] = x} = {}
  BY <1>1, FS_EmptySet DEF occurrences
<1> QED
  BY <1>2 DEF ToSet

-----------------------------------------------------------------------------
(* The loop over the quarantined entries, taking n of them.                *)
Loop(f, es, S, n) ==
  /\ f = [i \in 0..n |-> f[i]]
  /\ \A i \in 0..n : f[i] = IF i = 0 THEN <<>>
                            ELSE IF es[i].session \in S THEN Append(f[i - 1], es[i])
                                                        ELSE f[i - 1]

LEMMA LoopExists ==
  ASSUME NEW es, NEW S
  PROVE  \A n \in Nat : \E f : Loop(f, es, S, n)
<1> DEFINE Bad == {n \in Nat : ~\E f : Loop(f, es, S, n)}
<1>1. ASSUME Bad # {} PROVE FALSE
  <2>1. PICK n \in Bad : \A m \in Bad : n <= m
    <3>1. Bad \in SUBSET Nat
      OBVIOUS
    <3> HIDE DEF Bad
    <3> QED
      BY <1>1, <3>1, LeastNatural
  <2>2. \E f : Loop(f, es, S, 0)
    <3>1. Loop([i \in 0..0 |-> <<>>], es, S, 0)
      BY DEF Loop
    <3> QED
      BY <3>1
  <2>3. n \in Nat /\ n # 0 /\ n - 1 \in Nat /\ n - 1 \notin Bad
    BY <2>1, <2>2
  <2>4. PICK f : Loop(f, es, S, n - 1)
    BY <2>3
  <2> DEFINE g == [i \in 0..n |-> IF i = n THEN IF es[n].session \in S THEN Append(f[n - 1], es[n])
                                                                        ELSE f[n - 1]
                                  ELSE f[i]]
  <2>5. ASSUME NEW i \in 0..n
        PROVE  g[i] = IF i = 0 THEN <<>>
                      ELSE IF es[i].session \in S THEN Append(g[i - 1], es[i]) ELSE g[i - 1]
    <3>1. CASE i = n
      BY <2>3, <3>1
    <3>2. CASE i # n
      <4>1. i \in 0..(n - 1) /\ (i # 0 => i - 1 \in 0..n /\ i - 1 # n)
        BY <2>3, <3>2
      <4>2. g[i] = f[i] /\ (i # 0 => g[i - 1] = f[i - 1])
        BY <3>2, <4>1
      <4> QED
        BY <2>4, <4>1, <4>2 DEF Loop
    <3> QED
      BY <3>1, <3>2
  <2>6. Loop(g, es, S, n)
    <3> HIDE DEF g
    <3>1. g = [i \in 0..n |-> g[i]]
      BY DEF g
    <3> QED
      BY <2>5, <3>1 DEF Loop
  <2> QED
    BY <2>1, <2>6
<1> QED
  BY <1>1

(* Two loops over the same entries go the same way.                        *)
LEMMA LoopsAgree ==
  ASSUME NEW f, NEW es, NEW S, NEW n \in Nat, Loop(f, es, S, n),
         NEW g, NEW fs, NEW m \in Nat, Loop(g, fs, S, m), n <= m,
         \A i \in 1..n : es[i] = fs[i]
  PROVE  f[n] = g[n]
<1> DEFINE Bad == {i \in 0..n : f[i] # g[i]}
<1>1. ASSUME Bad # {} PROVE FALSE
  <2>1. PICK i \in Bad : \A j \in Bad : i <= j
    <3>1. Bad \in SUBSET Nat
      OBVIOUS
    <3> HIDE DEF Bad
    <3> QED
      BY <1>1, <3>1, LeastNatural
  <2>2. i \in 0..n /\ i \in 0..m /\ f[0] = <<>> /\ g[0] = <<>>
    BY DEF Loop
  <2>3. i # 0 /\ i - 1 \in 0..n /\ i - 1 \notin Bad /\ i \in 1..n
    BY <2>1, <2>2
  <2>4. f[i - 1] = g[i - 1] /\ es[i] = fs[i]
    BY <2>3
  <2>5. f[i] = g[i]
    BY <2>2, <2>3, <2>4 DEF Loop
  <2> QED
    BY <2>5
<1> QED
  BY <1>1

LEMMA LoopIs ==
  ASSUME NEW es \in Seq(Entry), NEW S, NEW f, Loop(f, es, S, Len(es))
  PROVE  of_sessions(es, S) = f[Len(es)]
<1> DEFINE Eq(g) == g = [i \in 0..Len(es) |->
                           IF i = 0 THEN <<>>
                           ELSE IF es[i].session \in S THEN Append(g[i - 1], es[i]) ELSE g[i - 1]]
           c == CHOOSE g : Eq(g)
<1>1. of_sessions(es, S) = c[Len(es)]
  BY Zenon DEF of_sessions
<1>2. Len(es) \in Nat
  BY LenProperties
<1>3. f = [i \in 0..Len(es) |-> f[i]]
  BY DEF Loop
<1>4. Eq(f)
  BY <1>3 DEF Loop
<1>5. Eq(c)
  <2> HIDE DEF Eq
  <2> QED
    BY <1>4
<1>6. Loop(c, es, S, Len(es))
  <2> HIDE DEF c
  <2>1. c = [i \in 0..Len(es) |-> c[i]]
    BY <1>5
  <2> QED
    BY <1>5, <2>1 DEF Loop
<1> HIDE DEF c
<1>7. c[Len(es)] = f[Len(es)]
  BY <1>2, <1>6, LoopsAgree
<1> QED
  BY <1>1, <1>7

(* What it takes of no entry, and of one more.                             *)
LEMMA TakeNothing ==
  ASSUME NEW S
  PROVE  of_sessions(<<>>, S) = <<>>
<1>1. <<>> \in Seq(Entry) /\ Len(<<>>) = 0
  BY EmptySeq
<1>2. PICK f : Loop(f, <<>>, S, 0)
  BY LoopExists
<1>3. f[0] = <<>>
  BY <1>2 DEF Loop
<1> QED
  BY <1>1, <1>2, <1>3, LoopIs

LEMMA TakeOneMore ==
  ASSUME NEW es \in Seq(Entry), NEW e \in Entry, NEW S
  PROVE  of_sessions(Append(es, e), S) =
           IF e.session \in S THEN Append(of_sessions(es, S), e) ELSE of_sessions(es, S)
<1> DEFINE fs == Append(es, e)
           n == Len(es)
<1>1. /\ fs \in Seq(Entry) /\ Len(fs) = n + 1 /\ n \in Nat
      /\ \A i \in 1..n : fs[i] = es[i]
      /\ fs[n + 1] = e
  BY AppendProperties, LenProperties
<1> HIDE DEF fs, n
<1>2. PICK f : Loop(f, es, S, n)
  BY <1>1, LoopExists
<1>3. PICK g : Loop(g, fs, S, n + 1)
  <2>1. n + 1 \in Nat
    BY <1>1
  <2> QED
    BY <2>1, LoopExists
<1>4. f[n] = g[n]
  <2>1. n + 1 \in Nat /\ n <= n + 1
    BY <1>1
  <2> QED
    BY <1>1, <1>2, <1>3, <2>1, LoopsAgree
<1>5. g[n + 1] = IF e.session \in S THEN Append(g[n], e) ELSE g[n]
  <2>1. n + 1 \in 0..(n + 1) /\ n + 1 # 0 /\ (n + 1) - 1 = n
    BY <1>1
  <2> QED
    BY <1>1, <1>3, <2>1 DEF Loop
<1>6. of_sessions(es, S) = f[n] /\ of_sessions(fs, S) = g[n + 1]
  BY <1>1, <1>2, <1>3, LoopIs DEF n
<1> QED
  BY <1>4, <1>5, <1>6 DEF fs

(* It takes every entry of the sessions, as often as it occurs, and no     *)
(* other.                                                                  *)
Takes(q, es, S) ==
  /\ q \in Seq(Entry) /\ Len(q) <= Len(es)
  /\ \A i \in 1..Len(q) : q[i].session \in S
  /\ \A e \in Entry : occurrences(q, e) = IF e.session \in S THEN occurrences(es, e) ELSE 0

LEMMA LoopTakes ==
  ASSUME NEW S
  PROVE  \A es \in Seq(Entry) : Takes(of_sessions(es, S), es, S)
<1> DEFINE Bad == {n \in Nat : \E es \in Seq(Entry) : Len(es) = n /\ ~Takes(of_sessions(es, S), es, S)}
<1>1. ASSUME Bad # {} PROVE FALSE
  <2>1. PICK n \in Bad : \A m \in Bad : n <= m
    <3>1. Bad \in SUBSET Nat
      OBVIOUS
    <3> HIDE DEF Bad
    <3> QED
      BY <1>1, <3>1, LeastNatural
  <2>2. PICK es \in Seq(Entry) : Len(es) = n /\ ~Takes(of_sessions(es, S), es, S)
    BY <2>1
  <2>3. es # <<>>
    <3>1. Takes(<<>>, <<>>, S)
      BY EmptySeq, OccEmpty DEF Takes
    <3> QED
      BY <2>2, <3>1, TakeNothing
  <2>4. PICK t \in Seq(Entry), e \in Entry : es = Append(t, e)
    BY <2>3, SequenceEmptyOrAppend
  <2>5. Len(t) \in Nat /\ n = Len(t) + 1 /\ n \in Nat
    BY <2>1, <2>2, <2>4, AppendProperties, LenProperties
  <2>6. Takes(of_sessions(t, S), t, S)
    <3>1. Len(t) \notin Bad
      BY <2>1, <2>5
    <3> QED
      BY <2>5, <3>1
  <2> DEFINE q == of_sessions(t, S)
             r == of_sessions(es, S)
  <2>7. r = IF e.session \in S THEN Append(q, e) ELSE q
    BY <2>4, TakeOneMore
  <2>8. q \in Seq(Entry) /\ Len(q) \in Nat /\ Len(q) <= Len(t)
    BY <2>6, LenProperties DEF Takes
  <2> HIDE DEF q, r
  <2>9. Takes(r, es, S)
    <3>1. CASE e.session \in S
      <4>1. /\ r \in Seq(Entry) /\ Len(r) = Len(q) + 1 /\ r[Len(q) + 1] = e
            /\ \A i \in 1..Len(q) : r[i] = q[i]
        BY <2>7, <2>8, <3>1, AppendProperties
      <4>2. Len(r) <= Len(es)
        BY <2>2, <2>5, <2>8, <4>1
      <4>3. \A i \in 1..Len(r) : r[i].session \in S
        <5> SUFFICES ASSUME NEW i \in 1..Len(r) PROVE r[i].session \in S
          OBVIOUS
        <5>1. i \in 1..Len(q) \/ i = Len(q) + 1
          BY <2>8, <4>1
        <5>2. \A j \in 1..Len(q) : q[j].session \in S
          BY <2>6 DEF Takes, q
        <5> QED
          BY <3>1, <4>1, <5>1, <5>2
      <4>4. \A x \in Entry : occurrences(r, x) = IF x.session \in S THEN occurrences(es, x) ELSE 0
        <5> SUFFICES ASSUME NEW x \in Entry
                     PROVE occurrences(r, x) = IF x.session \in S THEN occurrences(es, x) ELSE 0
          OBVIOUS
        <5>1. /\ occurrences(r, x) = occurrences(q, x) + (IF e = x THEN 1 ELSE 0)
              /\ occurrences(es, x) = occurrences(t, x) + (IF e = x THEN 1 ELSE 0)
          BY <2>4, <2>7, <2>8, <3>1, OccAppend
        <5>2. occurrences(q, x) = IF x.session \in S THEN occurrences(t, x) ELSE 0
          BY <2>6 DEF Takes, q
        <5> QED
          BY <3>1, <5>1, <5>2
      <4> QED
        BY <4>1, <4>2, <4>3, <4>4 DEF Takes
    <3>2. CASE e.session \notin S
      <4>1. r = q /\ Len(q) <= Len(es)
        BY <2>2, <2>5, <2>7, <2>8, <3>2
      <4>2. \A x \in Entry : x.session \in S => occurrences(es, x) = occurrences(t, x)
        <5> SUFFICES ASSUME NEW x \in Entry, x.session \in S
                     PROVE  occurrences(es, x) = occurrences(t, x)
          OBVIOUS
        <5>1. occurrences(es, x) = occurrences(t, x) + 0
          BY <2>4, <3>2, OccAppend
        <5>2. occurrences(t, x) \in Nat
          BY OccSet
        <5> QED
          BY <5>1, <5>2
      <4> QED
        BY <2>6, <4>1, <4>2 DEF Takes, q
    <3> QED
      BY <3>1, <3>2
  <2> QED
    BY <2>2, <2>9 DEF r
<1>2. \A es \in Seq(Entry) : Len(es) \in Nat
  BY LenProperties
<1> QED
  BY <1>1, <1>2

(* The updates of the entries of one session.                              *)
LEMMA UpdatesAre ==
  ASSUME NEW es \in Seq(Entry)
  PROVE  /\ updates(es) \in Updates /\ Len(updates(es)) = Len(es)
         /\ DOMAIN updates(es) = 1..Len(es)
         /\ \A i \in 1..Len(es) : updates(es)[i] = es[i].u
<1>1. Len(es) \in Nat /\ \A i \in 1..Len(es) : es[i] \in Entry
  BY LenProperties, ElementOfSeq
<1>2. updates(es) \in [1..Len(es) -> 1..MaxUpdates]
  BY <1>1 DEF updates, Entry
<1>3. updates(es) \in Updates
  <2>1. updates(es) \in UNION {[1..n -> 1..MaxUpdates] : n \in Nat}
    BY <1>1, <1>2
  <2> QED
    BY <2>1, SeqDef DEF Updates
<1>4. DOMAIN updates(es) = 1..Len(es)
  BY DEF updates
<1>5. Len(updates(es)) = Len(es)
  <2>1. DOMAIN updates(es) = 1..Len(updates(es)) /\ Len(updates(es)) \in Nat
    BY <1>3, LenProperties DEF Updates
  <2> QED
    BY <1>1, <1>4, <2>1
<1> QED
  BY <1>3, <1>4, <1>5 DEF updates

LEMMA UpdatesOcc ==
  ASSUME NEW es \in Seq(Entry), NEW s, \A i \in 1..Len(es) : es[i].session = s,
         NEW u
  PROVE  occurrences(updates(es), u) = occurrences(es, [session |-> s, u |-> u])
<1>1. \A i \in 1..Len(es) : es[i] \in Entry
  BY ElementOfSeq
<1>2. \A i \in 1..Len(es) : es[i].u = u <=> es[i] = [session |-> s, u |-> u]
  BY <1>1 DEF Entry
<1>3. DOMAIN es = 1..Len(es)
  BY LenProperties
<1>4. {i \in DOMAIN updates(es) : updates(es)[i] = u}
        = {i \in DOMAIN es : es[i] = [session |-> s, u |-> u]}
  BY <1>2, <1>3, UpdatesAre
<1> QED
  BY <1>4 DEF occurrences

LEMMA UpdatesAppend ==
  ASSUME NEW es \in Seq(Entry), NEW e \in Entry
  PROVE  updates(Append(es, e)) = Append(updates(es), e.u)
<1>1. /\ Append(es, e) \in Seq(Entry) /\ Len(Append(es, e)) = Len(es) + 1
      /\ \A i \in 1..Len(es) : Append(es, e)[i] = es[i]
      /\ Append(es, e)[Len(es) + 1] = e
  BY AppendProperties
<1>2. /\ updates(es) \in Seq(1..MaxUpdates) /\ Len(updates(es)) = Len(es) /\ Len(es) \in Nat
      /\ updates(Append(es, e)) \in Seq(1..MaxUpdates)
      /\ Len(updates(Append(es, e))) = Len(es) + 1
      /\ \A i \in 1..Len(es) : updates(es)[i] = es[i].u
      /\ \A i \in 1..(Len(es) + 1) : updates(Append(es, e))[i] = Append(es, e)[i].u
  BY <1>1, UpdatesAre, LenProperties DEF Updates
<1>3. e.u \in 1..MaxUpdates
  BY DEF Entry
<1>4. /\ Append(updates(es), e.u) \in Seq(1..MaxUpdates)
      /\ Len(Append(updates(es), e.u)) = Len(es) + 1
      /\ \A i \in 1..Len(es) : Append(updates(es), e.u)[i] = updates(es)[i]
      /\ Append(updates(es), e.u)[Len(es) + 1] = e.u
  BY <1>2, <1>3, AppendProperties
<1>5. \A i \in 1..(Len(es) + 1) : i \in 1..Len(es) \/ i = Len(es) + 1
  BY <1>2
<1>6. \A i \in 1..(Len(es) + 1) : updates(Append(es, e))[i] = Append(updates(es), e.u)[i]
  BY <1>1, <1>2, <1>4, <1>5
<1> QED
  BY <1>2, <1>4, <1>6, SeqEqual

-----------------------------------------------------------------------------
(***************************************************************************)
(* The holders of updates: queues, quarantine, handler, binder and replay. *)
(***************************************************************************)
FlagTypes ==
  /\ keys \subseteq Sessions
  /\ quar.active \in BOOLEAN /\ quar.error \in BOOLEAN
  /\ hand.pc \in {"idle", "quarantine", "lookup", "enqueue", "store", "refused", "recording"}
  /\ hand.session \in Sessions \cup {None}
  /\ make.owes \in Sessions \cup {None}
  /\ make.refused \subseteq {"sent", "publish", "reject", "unclaim"}
  /\ make.pc \in {"new", "sent", "publish", "replay", "reject", "replay_rejected",
                  "unclaim", "bind", "ok", "error"}
  /\ make.session \in Sessions \cup {None}
  /\ bind.pc \in {"idle", "drain", "capture", "finish"}
  /\ bind.session \in Sessions \cup {None}
NumTypes ==
  /\ budget \in [Sessions -> 0..MaxBudget]
  /\ faults \in 0..MaxFaults /\ turns \in 0..MaxTurns
SeqTypes ==
  /\ pend \in [Sessions -> Updates] /\ stored \in [Sessions -> Updates]
  /\ accepted \in [Sessions -> Updates]
  /\ quar.entries \in Seq(Entry) /\ make.replay \in Seq(Entry)
  /\ last \in 0..MaxUpdates /\ dropped \subseteq 1..MaxUpdates
  /\ hand.u \in 0..MaxUpdates /\ bind.u \in 0..MaxUpdates

(* Where a creation, a replay and a bind may hold updates.                 *)
HoldersPlaced ==
  /\ ~quar.active => quar.entries = <<>>
  /\ make.pc \notin {"replay", "replay_rejected"} => make.replay = <<>>
  /\ make.pc \in {"publish", "replay", "unclaim", "bind", "ok"} => make.session = Fresh
  /\ bind.u # 0 <=> bind.pc = "capture"
  /\ hand.pc # "idle" => hand.u # 0

HoldInv == CreationInv /\ TurnTypes /\ FlagTypes /\ NumTypes /\ SeqTypes /\ HoldersPlaced

LEMMA Limits == {MaxUpdates, MaxPending, MaxBudget, MaxFaults, MaxTurns} \subseteq Nat
  BY CaptureAssumption

(* Queues stay queues.                                                     *)
LEMMA QueueEdits ==
  ASSUME NEW f \in [Sessions -> Updates], NEW s \in Sessions, NEW u \in 1..MaxUpdates
  PROVE  /\ [f EXCEPT ![s] = Append(@, u)] \in [Sessions -> Updates]
         /\ [f EXCEPT ![s] = <<u>> \o @] \in [Sessions -> Updates]
         /\ [f EXCEPT ![s] = <<>>] \in [Sessions -> Updates]
         /\ f[s] # <<>> => /\ [f EXCEPT ![s] = Tail(@)] \in [Sessions -> Updates]
                           /\ Head(f[s]) \in 1..MaxUpdates
         /\ ToSet(f[s]) \subseteq 1..MaxUpdates
<1>1. f[s] \in Seq(1..MaxUpdates)
  BY DEF Updates
<1>2. Append(f[s], u) \in Seq(1..MaxUpdates) /\ <<u>> \o f[s] \in Seq(1..MaxUpdates)
  <2>1. <<u>> \in Seq(1..MaxUpdates)
    OBVIOUS
  <2> QED
    BY <1>1, <2>1, AppendProperties, ConcatProperties
<1>3. <<>> \in Seq(1..MaxUpdates)
  BY EmptySeq
<1>4. f[s] # <<>> => Tail(f[s]) \in Seq(1..MaxUpdates) /\ Head(f[s]) \in 1..MaxUpdates
  BY <1>1, HeadTailProperties
<1>5. ToSet(f[s]) \subseteq 1..MaxUpdates
  <2>1. DOMAIN f[s] = 1..Len(f[s]) /\ \A i \in 1..Len(f[s]) : f[s][i] \in 1..MaxUpdates
    BY <1>1, LenProperties, ElementOfSeq
  <2> QED
    BY <2>1 DEF ToSet
<1> QED
  BY <1>2, <1>3, <1>4, <1>5 DEF Updates

-----------------------------------------------------------------------------
(* What a step does to the updates.  It may leave them alone, ...          *)
SameEntries == quar'.entries = quar.entries
SameReplay == make'.replay = make.replay
SameBind == bind'.u = bind.u /\ (bind.u # 0 => bind'.session = bind.session)
SameTaken == /\ UNCHANGED <<accepted, last>>
             /\ hand'.pc # "idle" => hand.pc # "idle" /\ hand'.u = hand.u
             /\ hand'.u \in {0, hand.u}
Quiet == /\ SameTaken /\ UNCHANGED <<pend, stored, dropped>>
         /\ SameEntries /\ SameReplay /\ SameBind

(* ... send one, ...                                                       *)
Sends == /\ hand.pc = "idle" /\ last' = last + 1 /\ last' <= MaxUpdates /\ hand'.u = last'
         /\ UNCHANGED <<accepted, pend, stored, dropped>>
         /\ SameEntries /\ SameReplay /\ SameBind

(* ... accept it in the quarantine, a queue or the store, ...              *)
Entered == quar'.entries = Append(quar.entries, [session |-> hand.session, u |-> hand.u])
                         /\ UNCHANGED <<pend, stored>>
Queued == pend' = [pend EXCEPT ![hand.session] = Append(@, hand.u)] /\ UNCHANGED stored /\ SameEntries
Stored == stored' = [stored EXCEPT ![hand.session] = Append(@, hand.u)] /\ UNCHANGED pend /\ SameEntries
Accepts == /\ hand.pc # "idle" /\ hand'.pc = "idle" /\ hand'.u = 0 /\ hand.session \in Sessions
           /\ accepted' = [accepted EXCEPT ![hand.session] = Append(@, hand.u)]
           /\ UNCHANGED <<last, dropped>> /\ SameReplay /\ SameBind
           /\ Entered \/ Queued \/ Stored

(* ... take one out of a queue, store it or put it back, ...               *)
Pops == /\ SameTaken /\ UNCHANGED <<stored, dropped>> /\ SameEntries /\ SameReplay
        /\ bind.u = 0 /\ bind.session \in Sessions /\ pend[bind.session] # <<>>
        /\ pend' = [pend EXCEPT ![bind.session] = Tail(@)]
        /\ bind'.u = Head(pend[bind.session]) /\ bind'.session = bind.session
BindEnds == /\ SameTaken /\ UNCHANGED dropped /\ SameEntries /\ SameReplay
            /\ bind.session \in Sessions /\ bind.u # 0 /\ bind'.u = 0
            /\ \/ stored' = [stored EXCEPT ![bind.session] = Append(@, bind.u)] /\ UNCHANGED pend
               \/ pend' = [pend EXCEPT ![bind.session] = <<bind.u>> \o @] /\ UNCHANGED stored

(* ... replay an entry, ...                                                *)
Replays == LET e == Head(make.replay) IN
           /\ SameTaken /\ UNCHANGED pend /\ SameEntries /\ SameBind
           /\ make.replay # <<>> /\ make'.replay = Tail(make.replay)
           /\ \/ stored' = [stored EXCEPT ![e.session] = Append(@, e.u)] /\ UNCHANGED dropped
              \/ dropped' = dropped \cup {e.u} /\ UNCHANGED stored

(* ... end the quarantine, or empty the queues of some sessions.           *)
Finishes == /\ SameTaken /\ UNCHANGED stored /\ SameBind
            /\ make.replay = <<>> /\ quar'.entries = <<>>
            /\ make'.replay = of_sessions(quar.entries, Sessions \ {make.session})
            /\ \/ /\ make.session \in Sessions /\ UNCHANGED dropped
                  /\ pend' = [pend EXCEPT ![make.session] = @ \o matching]
               \/ dropped' = dropped \cup ToSet(matching) /\ UNCHANGED pend
Empties(S) == /\ SameTaken /\ UNCHANGED stored /\ SameEntries /\ SameReplay /\ SameBind
              /\ pend' = [s \in Sessions |-> IF s \in S THEN <<>> ELSE pend[s]]
              /\ dropped' = dropped \cup UNION {ToSet(pend[s]) : s \in S}

Kinds == \/ Quiet \/ Sends \/ Accepts \/ Pops \/ BindEnds \/ Replays \/ Finishes
         \/ \E S \in SUBSET Sessions : Empties(S)

LEMMA SmallFacts ==
  ASSUME HoldInv
  PROVE  /\ DOMAIN hand = {"pc", "session", "u"} /\ DOMAIN bind = {"pc", "session", "u"}
         /\ DOMAIN quar = {"active", "entries", "error"}
         /\ DOMAIN make = {"pc", "session", "replay", "failed", "refused", "owes"}
         /\ hand.pc # "idle" => hand.session \in Sessions /\ hand.u # 0
         /\ bind.pc # "idle" => bind.session \in Sessions
         /\ bind.u # 0 <=> bind.pc = "capture"
         /\ ~quar.active => quar.entries = <<>>
         /\ make.pc \notin {"replay", "replay_rejected"} => make.replay = <<>>
         /\ HandIdle.pc = "idle" /\ HandIdle.u = 0 /\ BindIdle.u = 0 /\ NoQuar.entries = <<>>
  BY DEF HoldInv, CreationInv, Shapes, HoldersPlaced, HandIdle, BindIdle, NoQuar

(* What recording a failure changes of the handler, the quarantine and the *)
(* creation.                                                               *)
LEMMA RecordDoes ==
  ASSUME HoldInv,
         record_session_creation_capture_failure \/ record_refusal \/ record_replay_failure
  PROVE  /\ UNCHANGED <<bound, queues, qcount, acct, bind, turns, faults>>
         /\ quar'.active = quar.active /\ quar'.entries = quar.entries /\ quar'.error \in BOOLEAN
         /\ make'.pc = make.pc /\ make'.session = make.session /\ make'.replay = make.replay
         /\ make'.failed = make.failed /\ make'.refused = make.refused
         /\ make'.owes \in {make.owes, None}
         /\ hand' = hand \/ hand' = HandIdle
            \/ (hand.pc = "refused" /\ hand'.pc = "recording" /\ hand'.session = hand.session
                /\ hand'.u = hand.u)
<1>1. CASE record_session_creation_capture_failure
  BY <1>1, SmallFacts DEF record_session_creation_capture_failure, ops, HoldInv, FlagTypes
<1>2. CASE record_refusal
  BY <1>2 DEF record_refusal, cap, HoldInv, FlagTypes
<1>3. CASE record_replay_failure
  BY <1>3, SmallFacts DEF record_replay_failure, cap, HoldInv, FlagTypes
<1> QED
  BY <1>1, <1>2, <1>3

LEMMA StepKinds ==
  ASSUME HoldInv, Next
  PROVE  Kinds
<1>1. ASSUME NEW s \in Sessions, handle_notification(s) PROVE Sends
  <2>1. last + 1 <= MaxUpdates
    BY <1>1, Limits DEF handle_notification, HoldInv, SeqTypes
  <2> QED
    BY <1>1, <2>1 DEF handle_notification, cap, queues, Sends, SameEntries, SameReplay, SameBind
<1>2. CASE capture_session_creation_notification
  <2>1. hand.pc = "quarantine" /\ UNCHANGED <<pend, stored, last, dropped, bind>>
    BY <1>2 DEF capture_session_creation_notification, queues
  <2>2. SameReplay
    BY <1>2, SmallFacts DEF capture_session_creation_notification, refuse, SameReplay
  <2>3. CASE hand' = [hand EXCEPT !.pc = "lookup"] /\ UNCHANGED <<quar, accepted>>
    BY <2>1, <2>2, <2>3, SmallFacts DEF Kinds, Quiet, SameTaken, SameEntries, SameBind
  <2>4. CASE refuse /\ UNCHANGED <<quar, accepted>>
    <3>1. hand'.u = hand.u /\ SameEntries
      BY <2>4, SmallFacts DEF refuse, SameEntries
    <3> QED
      BY <2>1, <2>2, <2>4, <3>1 DEF Kinds, Quiet, SameTaken, SameBind
  <2>5. CASE accept /\ quar' = [quar EXCEPT !.entries = Append(@, [session |-> hand.session, u |-> hand.u])]
    <3>1. Entered
      BY <2>1, <2>5, SmallFacts DEF Entered
    <3>2. hand'.pc = "idle" /\ hand'.u = 0 /\ hand.session \in Sessions
      BY <2>1, <2>5, SmallFacts DEF accept
    <3> QED
      BY <2>1, <2>2, <2>5, <3>1, <3>2 DEF accept, Kinds, Accepts, SameBind
  <2> QED
    BY <1>2, <2>3, <2>4, <2>5 DEF capture_session_creation_notification
<1>3. CASE lookup_binding
  <2>1. /\ hand.pc = "lookup" /\ hand'.u = hand.u
        /\ UNCHANGED <<pend, quar, stored, last, accepted, dropped, make, bind>>
    BY <1>3, SmallFacts DEF lookup_binding, cap, queues, acct
  <2> QED
    BY <2>1 DEF Kinds, Quiet, SameTaken, SameEntries, SameReplay, SameBind
<1>4. CASE enqueue_pending
  <2>1. hand.pc = "enqueue" /\ UNCHANGED <<stored, last, dropped, bind>>
    BY <1>4 DEF enqueue_pending
  <2>2. CASE refuse /\ UNCHANGED <<pend, accepted, quar>>
    BY <2>1, <2>2, SmallFacts DEF refuse, Kinds, Quiet, SameTaken, SameEntries, SameReplay, SameBind
  <2>3. CASE accept /\ pend' = [pend EXCEPT ![hand.session] = Append(@, hand.u)] /\ UNCHANGED <<quar, make>>
    BY <2>1, <2>3, SmallFacts DEF accept, Kinds, Accepts, Queued, SameEntries, SameReplay, SameBind
  <2> QED
    BY <1>4, <2>2, <2>3 DEF enqueue_pending
<1>5. CASE capture_bound_notification
  <2>1. hand.pc = "store" /\ UNCHANGED <<pend, quar, last, dropped, bind>>
    BY <1>5 DEF capture_bound_notification, cap, queues
  <2>2. CASE refuse /\ UNCHANGED <<stored, accepted, quar>>
    BY <2>1, <2>2, SmallFacts DEF refuse, Kinds, Quiet, SameTaken, SameEntries, SameReplay, SameBind
  <2>3. CASE write(hand.session, hand.u) /\ accept /\ UNCHANGED <<quar, make>>
    BY <2>1, <2>3, SmallFacts DEF write, accept, Kinds, Accepts, Stored, SameEntries, SameReplay, SameBind
  <2> QED
    BY <1>5, <2>2, <2>3 DEF capture_bound_notification, cap, write_fails
<1>6. CASE begin_session_creation_capture
  <2>1. /\ UNCHANGED <<pend, stored, last, accepted, dropped, hand, bind>> /\ make'.replay = make.replay
        /\ quar'.entries = <<>> /\ quar.entries = <<>>
    <3>1. ~quar.active
      BY <1>6 DEF begin_session_creation_capture, HoldInv, CreationInv, CreationPlaced
    <3> QED
      BY <1>6, <3>1, SmallFacts DEF begin_session_creation_capture, queues, acct, NoQuar
  <2> QED
    BY <2>1 DEF Kinds, Quiet, SameTaken, SameEntries, SameReplay, SameBind
<1>7. CASE create_session_response
  <2>1. UNCHANGED <<pend, quar, stored, last, accepted, dropped, hand, bind>>
    BY <1>7 DEF create_session_response, cap, queues, acct
  <2>2. SameReplay
    BY <1>7, SmallFacts DEF create_session_response, SameReplay
  <2> QED
    BY <2>1, <2>2 DEF Kinds, Quiet, SameTaken, SameEntries, SameBind
<1>8. CASE finish_session_creation_capture
  <2>1. /\ make.pc \in {"publish", "reject"} /\ quar' = NoQuar
        /\ UNCHANGED <<stored, last, accepted, hand, bind>>
    BY <1>8 DEF finish_session_creation_capture
  <2>2. /\ make.replay = <<>> /\ quar'.entries = <<>>
        /\ make'.replay = of_sessions(quar.entries, Sessions \ {make.session})
    BY <1>8, <2>1, SmallFacts DEF finish_session_creation_capture
  <2>3. \/ /\ make.session \in Sessions /\ UNCHANGED dropped
           /\ pend' = [pend EXCEPT ![make.session] = @ \o matching]
        \/ dropped' = dropped \cup ToSet(matching) /\ UNCHANGED pend
    <3>1. make.pc = "publish" => make.session \in Sessions
      BY DEF HoldInv, HoldersPlaced, Sessions
    <3>2. \/ make.pc = "publish" /\ pend' = [pend EXCEPT ![make.session] = @ \o matching] /\ UNCHANGED dropped
          \/ dropped' = dropped \cup ToSet(matching) /\ UNCHANGED pend
      BY <1>8 DEF finish_session_creation_capture, queues
    <3> QED
      BY <3>1, <3>2
  <2>4. SameTaken /\ SameBind
    BY <2>1 DEF SameTaken, SameBind
  <2> QED
    BY <2>1, <2>2, <2>3, <2>4 DEF Kinds, Finishes
<1>9. CASE replay_session_creation_notification
  <2>1. make.replay # <<>> /\ UNCHANGED <<pend, quar, last, accepted, hand, bind>>
    BY <1>9 DEF replay_session_creation_notification, cap, queues
  <2>2. make'.replay = Tail(make.replay)
    BY <1>9, SmallFacts DEF replay_session_creation_notification
  <2>3. LET e == Head(make.replay) IN
        \/ stored' = [stored EXCEPT ![e.session] = Append(@, e.u)] /\ UNCHANGED dropped
        \/ dropped' = dropped \cup {e.u} /\ UNCHANGED stored
    BY <1>9 DEF replay_session_creation_notification, write, write_fails
  <2>4. SameTaken /\ SameBind /\ SameEntries
    BY <2>1 DEF SameTaken, SameBind, SameEntries
  <2> QED
    BY <2>1, <2>2, <2>3, <2>4 DEF Kinds, Replays
<1>10. CASE creation_published
  <2>1. UNCHANGED <<pend, quar, stored, last, accepted, dropped, hand, bind>>
    BY <1>10 DEF creation_published, cap, queues, acct
  <2>2. SameReplay
    BY <1>10, SmallFacts DEF creation_published, SameReplay
  <2> QED
    BY <2>1, <2>2 DEF Kinds, Quiet, SameTaken, SameEntries, SameBind
<1>11. ASSUME NEW s \in Sessions, unbind(s), UNCHANGED <<quar, stored, last, accepted, hand, bind>>, SameReplay
       PROVE  Empties({s})
  <2>1. pend' = [t \in Sessions |-> IF t \in {s} THEN <<>> ELSE pend[t]]
    BY <1>11 DEF unbind, HoldInv, SeqTypes
  <2>2. dropped' = dropped \cup UNION {ToSet(pend[t]) : t \in {s}}
    BY <1>11 DEF unbind
  <2> QED
    BY <1>11, <2>1, <2>2 DEF Empties, SameTaken, SameEntries, SameBind
<1>12. CASE rollback_publication
  <2>1. SameReplay
    BY <1>12, SmallFacts DEF rollback_publication, SameReplay
  <2>2. Fresh \in Sessions /\ {Fresh} \in SUBSET Sessions
    BY DEF Sessions
  <2> QED
    BY <1>11, <1>12, <2>1, <2>2 DEF rollback_publication, Kinds
<1>13. ASSUME NEW s \in Sessions, unbind_session(s) PROVE Kinds
  <2>1. SameReplay /\ {s} \in SUBSET Sessions
    BY <1>13 DEF unbind_session, SameReplay
  <2> QED
    BY <1>11, <1>13, <2>1 DEF unbind_session, Kinds
<1>14. ASSUME NEW s \in Sessions, bind_start(s) PROVE Quiet
  <2>1. /\ bind.pc = "idle" /\ bind'.u = 0 /\ bind.u = 0
        /\ UNCHANGED <<pend, quar, stored, last, accepted, dropped, hand, make>>
    BY <1>14, SmallFacts DEF bind_start, acct
  <2> QED
    BY <2>1 DEF Quiet, SameTaken, SameEntries, SameReplay, SameBind
<1>15. CASE bind_pop
  <2>1. /\ bind.pc = "drain" /\ bind.u = 0 /\ bind.session \in Sessions
        /\ UNCHANGED <<quar, stored, last, accepted, dropped, hand, make>>
    BY <1>15, SmallFacts DEF bind_pop, acct
  <2>2. CASE bind' = [bind EXCEPT !.pc = "finish"] /\ UNCHANGED pend
    BY <2>1, <2>2, SmallFacts DEF Kinds, Quiet, SameTaken, SameEntries, SameReplay, SameBind
  <2>3. CASE /\ pend[bind.session] # <<>>
             /\ bind' = [bind EXCEPT !.pc = "capture", !.u = Head(pend[bind.session])]
             /\ pend' = [pend EXCEPT ![bind.session] = Tail(@)]
    <3>1. bind'.u = Head(pend[bind.session]) /\ bind'.session = bind.session
      BY <2>3, SmallFacts
    <3> QED
      BY <2>1, <2>3, <3>1 DEF Kinds, Pops, SameTaken, SameEntries, SameReplay
  <2> QED
    BY <1>15, <2>2, <2>3 DEF bind_pop
<1>16. CASE bind_capture
  <2>1. /\ bind.u # 0 /\ bind.session \in Sessions
        /\ UNCHANGED <<quar, last, accepted, dropped, hand>>
    BY <1>16, SmallFacts DEF bind_capture
  <2>2. SameReplay
    BY <1>16, SmallFacts DEF bind_capture, SameReplay
  <2>3. bind'.u = 0
    BY <1>16, SmallFacts DEF bind_capture
  <2>4. \/ stored' = [stored EXCEPT ![bind.session] = Append(@, bind.u)] /\ UNCHANGED pend
        \/ pend' = [pend EXCEPT ![bind.session] = <<bind.u>> \o @] /\ UNCHANGED stored
    BY <1>16 DEF bind_capture, queues, write, write_fails
  <2> QED
    BY <2>1, <2>2, <2>3, <2>4 DEF Kinds, BindEnds, SameTaken, SameEntries
<1>17. CASE bind_finish
  <2>1. /\ bind.u = 0 /\ UNCHANGED <<pend, quar, stored, last, accepted, dropped, hand>>
    BY <1>17, SmallFacts DEF bind_finish, acct
  <2>2. SameReplay /\ bind'.u = 0
    BY <1>17, <2>1, SmallFacts DEF bind_finish, SameReplay
  <2> QED
    BY <2>1, <2>2 DEF Kinds, Quiet, SameTaken, SameEntries, SameBind
<1>18. ASSUME NEW s \in Sessions, begin_capture_operation(s) \/ response_arrives(s) \/ take_capture_failure(s)
       PROVE  Quiet
  BY <1>18 DEF begin_capture_operation, response_arrives, take_capture_failure, cap, queues, acct,
     Quiet, SameTaken, SameEntries, SameReplay, SameBind
<1>19. CASE remove_agent_state
  <2>1. /\ UNCHANGED <<stored, last, accepted, hand, make, bind>> /\ quar' = NoQuar
        /\ make.pc \in {"new", "ok", "error"}
        /\ dropped' = dropped \cup UNION {ToSet(pend[s]) : s \in Sessions}
        /\ pend' = [s \in Sessions |-> <<>>]
    BY <1>19, Zenon DEF remove_agent_state
  <2>2. SameEntries
    <3>1. ~quar.active
      BY <2>1 DEF HoldInv, CreationInv, CreationPlaced
    <3> QED
      BY <2>1, <3>1, SmallFacts DEF SameEntries
  <2>3. Empties(Sessions)
    BY <2>1, <2>2 DEF Empties, SameTaken, SameReplay, SameBind
  <2> QED
    BY <2>3 DEF Kinds
<1>20. CASE record_session_creation_capture_failure \/ record_refusal \/ record_replay_failure
  <2>1. /\ UNCHANGED <<pend, stored, last, accepted, dropped, bind>>
        /\ SameEntries /\ SameReplay
    BY <1>20, RecordDoes DEF queues, acct, SameEntries, SameReplay
  <2>2. SameTaken
    BY <1>20, <2>1, RecordDoes, SmallFacts DEF SameTaken
  <2> QED
    BY <2>1, <2>2 DEF Kinds, Quiet, SameBind
<1> QED
  BY <1>1, <1>2, <1>3, <1>4, <1>5, <1>6, <1>7, <1>8, <1>9, <1>10, <1>12, <1>13, <1>14, <1>15,
     <1>16, <1>17, <1>18, <1>19, <1>20 DEF Next, Handler, Creator, Binder, Turn, Kinds

-----------------------------------------------------------------------------
(* Field by field, what the larger steps do.                               *)
LEMMA QuarantineDoes ==
  ASSUME HoldInv, capture_session_creation_notification
  PROVE  /\ UNCHANGED <<keys, pend, pcount, bound, stored, bind, budget, turns, faults>>
         /\ make'.pc = make.pc /\ make'.session = make.session /\ make'.replay = make.replay
         /\ make'.failed = make.failed
         /\ quar'.active = quar.active /\ quar'.error \in BOOLEAN
         /\ make'.owes = make.owes /\ make'.refused \subseteq make.refused \cup {make.pc}
         /\ make'.refused # make.refused => quar.active
         /\ hand.pc = "quarantine" /\ hand.session \in Sessions
         /\ hand'.pc \in {"idle", "lookup", "refused"} /\ hand'.session \in {hand.session, None}
         /\ hand'.pc = "lookup" => ~quar.active /\ hand'.u = hand.u
         /\ hand'.pc = "refused" => hand'.u = hand.u
         /\ hand'.pc = "idle" => hand'.session = None
         /\ \/ quar'.entries = quar.entries /\ UNCHANGED <<qcount, accepted>>
            \/ /\ quar.active /\ ~(pcount + qcount >= MaxPending) /\ qcount' = qcount + 1
               /\ quar'.entries = Append(quar.entries, [session |-> hand.session, u |-> hand.u])
<1>1. /\ UNCHANGED <<keys, pend, pcount, bound, stored, bind, budget, turns, faults>>
      /\ hand.pc = "quarantine" /\ hand.session \in Sessions
  BY SmallFacts DEF capture_session_creation_notification, queues
<1>2. CASE ~quar.active /\ hand' = [hand EXCEPT !.pc = "lookup"] /\ UNCHANGED <<quar, qcount, accepted, make>>
  BY <1>1, <1>2, SmallFacts DEF HoldInv, FlagTypes
<1>3. CASE refuse /\ UNCHANGED <<quar, qcount, accepted>>
  <2>1. /\ hand' = [hand EXCEPT !.pc = "refused"]
        /\ make' = [make EXCEPT !.refused = IF quar.active THEN @ \cup {make.pc} ELSE @]
    BY <1>3 DEF refuse
  <2>2. hand'.pc = "refused" /\ hand'.session = hand.session /\ hand'.u = hand.u
    BY <2>1, SmallFacts
  <2>3. /\ make'.pc = make.pc /\ make'.session = make.session /\ make'.replay = make.replay
        /\ make'.failed = make.failed /\ make'.owes = make.owes
        /\ make'.refused = IF quar.active THEN make.refused \cup {make.pc} ELSE make.refused
    BY <2>1, SmallFacts
  <2> QED
    BY <1>1, <1>3, <2>2, <2>3 DEF HoldInv, FlagTypes
<1>4. CASE /\ quar.active /\ ~quota_exceeded(hand.session) /\ qcount' = qcount + 1 /\ accept
           /\ quar' = [quar EXCEPT !.entries = Append(@, [session |-> hand.session, u |-> hand.u])]
           /\ UNCHANGED make
  <2>1. hand'.pc = "idle" /\ hand'.session = None
    BY <1>4 DEF accept, HandIdle
  <2>2. /\ quar'.active = quar.active /\ quar'.error \in BOOLEAN
        /\ quar'.entries = Append(quar.entries, [session |-> hand.session, u |-> hand.u])
    BY <1>4, SmallFacts DEF HoldInv, FlagTypes
  <2>3. ~(pcount + qcount >= MaxPending)
    BY <1>4 DEF quota_exceeded
  <2> QED
    BY <1>1, <1>4, <2>1, <2>2, <2>3
<1> QED
  BY <1>2, <1>3, <1>4 DEF capture_session_creation_notification

LEMMA ResponseDoes ==
  ASSUME HoldInv, create_session_response
  PROVE  /\ UNCHANGED <<bound, cap, acct, hand, bind, turns>>
         /\ make.pc = "sent" /\ make'.pc \in {"publish", "unclaim", "reject"}
         /\ hand.pc = "idle" /\ make'.replay = make.replay
         /\ make'.refused = make.refused /\ make'.owes = make.owes
         /\ make'.session \in Sessions \cup {None}
         /\ make'.pc \in {"publish", "unclaim"} => make'.session = Fresh
         /\ faults' = faults \/ (faults < MaxFaults /\ faults' = faults + 1)
<1>1. /\ make.pc = "sent" /\ UNCHANGED <<bound, cap, acct, hand, bind, turns>> /\ hand.pc = "idle"
  BY DEF create_session_response, ops
<1>0. faults' = faults \/ (faults < MaxFaults /\ faults' = faults + 1)
  BY Zenon DEF create_session_response, may_fail, fault
<1>2. \/ make' = [make EXCEPT !.pc = "publish", !.session = Fresh]
      \/ make' = [make EXCEPT !.pc = "unclaim", !.session = Fresh]
      \/ \E s \in Known : make' = [make EXCEPT !.pc = "reject", !.session = s]
      \/ make' = [make EXCEPT !.pc = "reject"]
  BY DEF create_session_response
<1>3. make.session \in Sessions \cup {None}
  BY DEF HoldInv, FlagTypes
<1> QED
  BY <1>0, <1>1, <1>2, <1>3, SmallFacts DEF Sessions

LEMMA FinishDoes ==
  ASSUME HoldInv, finish_session_creation_capture
  PROVE  /\ UNCHANGED <<bound, stored, accepted, hand, bind, budget, turns, faults>>
         /\ make.pc \in {"publish", "reject"} /\ quar.active /\ quar' = NoQuar /\ qcount' = 0
         /\ make'.session = make.session /\ make'.pc \in {"replay", "replay_rejected"}
         /\ make'.refused = make.refused /\ make'.owes = make.owes
         /\ make'.pc = "replay" => make.pc = "publish" /\ make'.failed = quar.error
         /\ make'.replay = of_sessions(quar.entries, Sessions \ {make.session})
         /\ \/ /\ make.pc = "publish" /\ make.session = Fresh /\ ~quar.error
               /\ pend' = [pend EXCEPT ![Fresh] = @ \o matching]
               /\ keys' = IF matching = <<>> THEN keys ELSE keys \cup {Fresh}
               /\ pcount' = pcount + Len(matching)
            \/ (make.pc = "reject" \/ quar.error) /\ UNCHANGED <<pend, keys, pcount>>
<1>1. /\ UNCHANGED <<bound, stored, accepted, hand, bind, budget, turns, faults>>
      /\ make.pc \in {"publish", "reject"} /\ quar.active /\ quar' = NoQuar /\ qcount' = 0
  BY DEF finish_session_creation_capture, ops
<1>2. /\ make'.session = make.session
      /\ make'.refused = make.refused /\ make'.owes = make.owes
      /\ make'.pc = (IF make.pc = "publish" THEN "replay" ELSE "replay_rejected")
      /\ make'.failed = quar.error
      /\ make'.replay = of_sessions(quar.entries, Sessions \ {make.session})
  BY SmallFacts DEF finish_session_creation_capture
<1>3. make.pc = "publish" => make.session = Fresh
  BY DEF HoldInv, HoldersPlaced
<1>4. CASE make.pc = "publish" /\ ~quar.error
  <2>1. /\ pend' = [pend EXCEPT ![make.session] = @ \o matching]
        /\ keys' = IF matching = <<>> THEN keys ELSE keys \cup {make.session}
        /\ pcount' = pcount + Len(matching)
    BY <1>4 DEF finish_session_creation_capture
  <2> QED
    BY <1>1, <1>2, <1>3, <1>4, <2>1
<1>5. CASE ~(make.pc = "publish" /\ ~quar.error)
  <2>1. UNCHANGED <<pend, keys, pcount>>
    BY <1>5 DEF finish_session_creation_capture, queues
  <2> QED
    BY <1>1, <1>2, <1>5, <2>1
<1> QED
  BY <1>4, <1>5

LEMMA ReplayDoes ==
  ASSUME HoldInv, replay_session_creation_notification
  PROVE  /\ UNCHANGED <<bound, cap, accepted, hand, bind, turns>>
         /\ make.replay # <<>> /\ make'.replay = Tail(make.replay)
         /\ make'.pc = make.pc /\ make'.session = make.session
         /\ make'.refused = make.refused
         /\ make'.owes = make.owes \/ (make'.owes = Head(make.replay).session /\ make'.owes \in bound)
         /\ make'.failed = make.failed \/ make'.failed = TRUE
         /\ \/ UNCHANGED <<stored, budget>>
            \/ /\ Head(make.replay).session \in bound /\ write(Head(make.replay).session, Head(make.replay).u)
         /\ faults' = faults \/ (faults < MaxFaults /\ faults' = faults + 1)
<1>1. UNCHANGED <<bound, cap, accepted, hand, bind, turns>> /\ make.replay # <<>>
  BY DEF replay_session_creation_notification
<1>2. \/ make' = [make EXCEPT !.replay = Tail(@)]
      \/ /\ make' = [make EXCEPT !.replay = Tail(@), !.failed = TRUE,
                                 !.owes = Head(make.replay).session]
         /\ Head(make.replay).session \in bound
  BY DEF replay_session_creation_notification
<1>3. \/ UNCHANGED <<stored, budget>>
      \/ /\ Head(make.replay).session \in bound /\ write(Head(make.replay).session, Head(make.replay).u)
  BY DEF replay_session_creation_notification, write_fails
<1>4. faults' = faults \/ (faults < MaxFaults /\ faults' = faults + 1)
  <2>1. \/ write(Head(make.replay).session, Head(make.replay).u)
        \/ write_fails(Head(make.replay).session)
        \/ faults' = faults
    BY DEF replay_session_creation_notification
  <2> QED
    BY Zenon, <2>1 DEF write, write_fails, may_fail, fault
<1> QED
  BY <1>1, <1>2, <1>3, <1>4, SmallFacts

LEMMA PublishedDoes ==
  ASSUME HoldInv, creation_published
  PROVE  /\ UNCHANGED <<bound, cap, acct, ops, hand, bind, faults>>
         /\ make.pc \in {"replay", "replay_rejected"} /\ make.replay = <<>>
         /\ make'.session = make.session /\ make'.replay = <<>>
         /\ make'.refused = make.refused /\ make'.owes = make.owes
         /\ make'.pc \in {"error", "unclaim", "bind"}
         /\ make'.pc # "error" => make.pc = "replay"
         /\ make'.pc = "bind" => ~make.failed
<1>1. /\ make.pc \in {"replay", "replay_rejected"} /\ make.replay = <<>>
      /\ UNCHANGED <<bound, cap, acct, ops, hand, bind, faults>>
  BY DEF creation_published
<1>2. /\ make'.session = make.session /\ make'.replay = make.replay
      /\ make'.refused = make.refused /\ make'.owes = make.owes
      /\ make'.pc = CASE make.pc = "replay_rejected" -> "error"
                      [] make.pc = "replay" /\ make.failed -> "unclaim"
                      [] OTHER -> "bind"
  BY SmallFacts DEF creation_published
<1>3. make'.pc = IF make.pc = "replay_rejected" THEN "error"
                 ELSE IF make.failed THEN "unclaim" ELSE "bind"
  <2>1. make.failed \in BOOLEAN
    BY DEF HoldInv, CreationInv, Shapes
  <2>2. CASE make.pc = "replay_rejected"
    BY <1>2, <2>2
  <2>3. CASE make.pc = "replay" /\ make.failed
    BY <1>2, <2>3
  <2>4. CASE make.pc = "replay" /\ ~make.failed
    BY <1>2, <2>4
  <2> QED
    BY <1>1, <2>1, <2>2, <2>3, <2>4
<1> QED
  BY <1>1, <1>2, <1>3

LEMMA RollbackDoes ==
  ASSUME HoldInv, rollback_publication
  PROVE  /\ make.pc = "unclaim" /\ make'.pc \in {"reject", "error"}
         /\ make'.session = make.session /\ make'.replay = make.replay
         /\ make'.refused = make.refused /\ make'.owes = make.owes
         /\ unbind(Fresh)
         /\ UNCHANGED <<quar, qcount, stored, accepted, hand, bind, turns, faults>>
<1>1. make.pc = "unclaim" /\ make' = [make EXCEPT !.pc = IF quar.active THEN "reject" ELSE "error"]
  BY DEF rollback_publication
<1>2. unbind(Fresh) /\ UNCHANGED <<quar, qcount, stored, accepted, hand, bind, turns, faults>>
  BY DEF rollback_publication
<1> QED
  BY <1>1, <1>2, SmallFacts

LEMMA PopDoes ==
  ASSUME HoldInv, bind_pop
  PROVE  /\ UNCHANGED <<bound, keys, quar, qcount, acct, hand, make, faults, turns>>
         /\ bind.pc = "drain" /\ bind.session \in Sessions /\ bind'.session = bind.session
         /\ \/ bind'.pc = "finish" /\ bind'.u = 0 /\ UNCHANGED <<pend, pcount>>
            \/ /\ bind'.pc = "capture" /\ bind'.u = Head(pend[bind.session])
               /\ pend[bind.session] # <<>> /\ pcount' = pcount - 1
               /\ pend' = [pend EXCEPT ![bind.session] = Tail(@)]
<1>1. /\ UNCHANGED <<bound, keys, quar, qcount, acct, hand, make, faults, turns>>
      /\ bind.pc = "drain" /\ bind.session \in Sessions /\ bind.u = 0
  BY SmallFacts DEF bind_pop, ops
<1>2. CASE bind' = [bind EXCEPT !.pc = "finish"] /\ UNCHANGED <<pend, pcount>>
  BY <1>1, <1>2, SmallFacts
<1>3. CASE /\ pend[bind.session] # <<>> /\ pcount' = pcount - 1
           /\ bind' = [bind EXCEPT !.pc = "capture", !.u = Head(pend[bind.session])]
           /\ pend' = [pend EXCEPT ![bind.session] = Tail(@)]
  <2>1. bind'.pc = "capture" /\ bind'.u = Head(pend[bind.session]) /\ bind'.session = bind.session
    BY <1>3, SmallFacts
  <2> QED
    BY <1>1, <1>3, <2>1
<1> QED
  BY <1>2, <1>3 DEF bind_pop

LEMMA BindCaptureDoes ==
  ASSUME HoldInv, bind_capture
  PROVE  /\ UNCHANGED <<bound, quar, qcount, accepted, hand, turns>>
         /\ bind.pc = "capture" /\ bind.session \in Sessions
         /\ make'.session = make.session /\ make'.replay = make.replay
         /\ make'.refused = make.refused /\ make'.owes = make.owes
         /\ \/ /\ write(bind.session, bind.u) /\ UNCHANGED <<pend, keys, pcount, make>>
               /\ bind'.pc = "drain" /\ bind'.u = 0 /\ bind'.session = bind.session
            \/ /\ write_fails(bind.session) /\ bind' = BindIdle
               /\ pend' = [pend EXCEPT ![bind.session] = <<bind.u>> \o @]
               /\ keys' = keys \cup {bind.session} /\ pcount' = pcount + 1
               /\ make'.pc = IF bind.session = Fresh /\ make.pc = "bind" THEN "unclaim" ELSE make.pc
<1>1. /\ UNCHANGED <<bound, quar, qcount, accepted, hand, turns>>
      /\ bind.pc = "capture" /\ bind.session \in Sessions
  BY SmallFacts DEF bind_capture
<1>2. CASE /\ write(bind.session, bind.u) /\ bind' = [bind EXCEPT !.pc = "drain", !.u = 0]
           /\ UNCHANGED <<pend, keys, pcount, make>>
  <2>1. bind'.pc = "drain" /\ bind'.u = 0 /\ bind'.session = bind.session
    BY <1>2, SmallFacts
  <2> QED
    BY <1>1, <1>2, <2>1
<1>3. CASE /\ write_fails(bind.session) /\ bind' = BindIdle
           /\ pend' = [pend EXCEPT ![bind.session] = <<bind.u>> \o @]
           /\ keys' = keys \cup {bind.session} /\ pcount' = pcount + 1
           /\ make' = [make EXCEPT !.pc = IF bind.session = Fresh /\ @ = "bind" THEN "unclaim" ELSE @]
  <2>1. /\ make'.session = make.session /\ make'.replay = make.replay
        /\ make'.refused = make.refused /\ make'.owes = make.owes
        /\ make'.pc = IF bind.session = Fresh /\ make.pc = "bind" THEN "unclaim" ELSE make.pc
    BY <1>3, SmallFacts
  <2> QED
    BY <1>1, <1>3, <2>1
<1> QED
  BY <1>2, <1>3 DEF bind_capture, queues

LEMMA RemoveDoes ==
  ASSUME HoldInv, remove_agent_state
  PROVE  /\ hand.pc = "idle" /\ bind.pc = "idle" /\ make.pc \in {"new", "ok", "error"}
         /\ ~quar.active /\ quar' = NoQuar /\ bound' = {} /\ keys' = {} /\ quar.entries = <<>>
         /\ pend' = [s \in Sessions |-> <<>>] /\ budget' = [s \in Sessions |-> 0]
         /\ pcount' = pcount - MapThenSumSet(LAMBDA s : Len(pend[s]), Sessions)
         /\ qcount' = qcount - Len(quar.entries)
         /\ faults < MaxFaults /\ faults' = faults + 1
         /\ UNCHANGED <<stored, accepted, turns, hand, make, bind>>
<1>1. /\ hand.pc = "idle" /\ bind.pc = "idle" /\ make.pc \in {"new", "ok", "error"}
      /\ quar' = NoQuar /\ bound' = {} /\ keys' = {}
      /\ pend' = [s \in Sessions |-> <<>>] /\ budget' = [s \in Sessions |-> 0]
      /\ pcount' = pcount - MapThenSumSet(LAMBDA s : Len(pend[s]), Sessions)
      /\ qcount' = qcount - Len(quar.entries)
      /\ faults < MaxFaults /\ faults' = faults + 1
      /\ UNCHANGED <<stored, accepted, turns, hand, make, bind>>
  BY Zenon DEF remove_agent_state, may_fail, fault
<1>2. ~quar.active
  BY <1>1 DEF HoldInv, CreationInv, CreationPlaced
<1> QED
  BY <1>1, <1>2, SmallFacts

-----------------------------------------------------------------------------
(* The flags keep their types, ...                                         *)
LEMMA FlagStep ==
  ASSUME HoldInv, [Next]_vars
  PROVE  FlagTypes'
<1>1. ASSUME NEW s \in Sessions, handle_notification(s) PROVE FlagTypes'
  BY <1>1, SMTT(30) DEF handle_notification, cap, queues, HoldInv, CreationInv, Shapes,
     FlagTypes
<1>2. CASE capture_session_creation_notification
  <2>1. make'.refused \subseteq {"sent", "publish", "reject", "unclaim"}
    BY <1>2, QuarantineDoes DEF HoldInv, CreationInv, CreationPlaced, FlagTypes
  <2> QED
    BY <1>2, <2>1, QuarantineDoes DEF HoldInv, FlagTypes
<1>3. CASE lookup_binding
  BY <1>3, SMTT(30) DEF lookup_binding, cap, acct, ops, queues, HoldInv, CreationInv,
     Shapes, FlagTypes
<1>4. CASE enqueue_pending
  BY <1>4, SMTT(30) DEF enqueue_pending, refuse, accept, HandIdle, HoldInv, CreationInv,
     CreationPlaced, Shapes, FlagTypes
<1>5. CASE capture_bound_notification
  <2>1. UNCHANGED <<keys, quar, bind>>
    BY <1>5 DEF capture_bound_notification, cap, queues
  <2>2. CASE accept /\ UNCHANGED make
    BY <2>1, <2>2 DEF accept, HandIdle, HoldInv, FlagTypes
  <2>3. CASE refuse
    <3>1. /\ hand'.pc = "refused" /\ hand'.session = hand.session /\ make'.pc = make.pc
          /\ make'.session = make.session /\ make'.owes = make.owes
          /\ make'.refused = IF quar.active THEN make.refused \cup {make.pc} ELSE make.refused
      BY <2>3, SmallFacts DEF refuse
    <3> QED
      BY <2>1, <3>1 DEF HoldInv, CreationInv, CreationPlaced, FlagTypes
  <2> QED
    BY <1>5, <2>2, <2>3 DEF capture_bound_notification
<1>6. CASE begin_session_creation_capture
  BY <1>6, SMTT(30) DEF begin_session_creation_capture, NoQuar, queues, acct, ops,
     HoldInv, CreationInv, Shapes, FlagTypes
<1>7. CASE create_session_response
  BY <1>7, ResponseDoes, SMTT(30) DEF cap, queues, acct, HoldInv, CreationInv, Shapes,
     FlagTypes
<1>8. CASE finish_session_creation_capture
  <2>1. /\ keys' = keys \/ keys' = keys \cup {Fresh}
        /\ quar' = NoQuar /\ UNCHANGED <<hand, bind>>
        /\ make'.session = make.session /\ make'.pc \in {"replay", "replay_rejected"}
        /\ make'.refused = make.refused /\ make'.owes = make.owes
    BY <1>8, FinishDoes
  <2> QED
    BY <2>1 DEF NoQuar, HoldInv, FlagTypes, Sessions
<1>9. CASE replay_session_creation_notification
  <2>1. /\ UNCHANGED <<keys, quar, hand, bind>>
        /\ make'.pc = make.pc /\ make'.session = make.session
        /\ make'.refused = make.refused /\ make'.owes \in Sessions \cup {None}
    <3>1. UNCHANGED <<cap, hand, bind>> /\ make'.pc = make.pc /\ make'.session = make.session
      BY <1>9, ReplayDoes
    <3>2. make'.refused = make.refused /\ make'.owes \in {make.owes} \cup bound
      BY <1>9, ReplayDoes
    <3> QED
      BY <3>1, <3>2 DEF cap, queues, HoldInv, TurnTypes, FlagTypes
  <2> QED
    BY <2>1 DEF HoldInv, FlagTypes
<1>10. CASE creation_published
  BY <1>10, PublishedDoes, SMTT(30) DEF cap, queues, acct, HoldInv, CreationInv, Shapes,
     FlagTypes
<1>11. CASE rollback_publication
  BY <1>11, RollbackDoes, SMTT(30) DEF unbind, HoldInv, CreationInv, Shapes, FlagTypes
<1>12. ASSUME NEW s \in Sessions, bind_start(s) PROVE FlagTypes'
  BY <1>12, SMTT(30) DEF bind_start, acct, HoldInv, CreationInv, Shapes, FlagTypes
<1>13. CASE bind_pop
  BY <1>13, PopDoes, SMTT(30) DEF acct, HoldInv, CreationInv, Shapes, FlagTypes
<1>14. CASE bind_capture
  BY <1>14, BindCaptureDoes, SMTT(30) DEF write, write_fails, affordable, may_fail,
     fault, BindIdle, HoldInv, CreationInv, Shapes, FlagTypes
<1>15. CASE bind_finish
  BY <1>15, SMTT(30) DEF bind_finish, acct, ops, BindIdle, HoldInv, CreationInv, Shapes,
     FlagTypes
<1>16. ASSUME NEW s \in Sessions, begin_capture_operation(s) PROVE FlagTypes'
  BY <1>16, SMTT(30) DEF begin_capture_operation, cap, queues, HoldInv, CreationInv,
     Shapes, FlagTypes
<1>17. ASSUME NEW s \in Sessions, response_arrives(s) PROVE FlagTypes'
  BY <1>17, SMTT(30) DEF response_arrives, cap, queues, acct, HoldInv, CreationInv,
     Shapes, FlagTypes
<1>18. ASSUME NEW s \in Sessions, take_capture_failure(s) PROVE FlagTypes'
  BY <1>18, SMTT(30) DEF take_capture_failure, cap, queues, acct, HoldInv, CreationInv,
     Shapes, FlagTypes
<1>19. ASSUME NEW s \in Sessions, unbind_session(s) PROVE FlagTypes'
  BY <1>19, SMTT(30) DEF unbind_session, unbind, HoldInv, CreationInv, Shapes, FlagTypes
<1>20. CASE remove_agent_state
  <2>1. /\ hand.pc = "idle" /\ bind.pc = "idle" /\ make.pc \in {"new", "ok", "error"}
        /\ ~quar.active /\ quar' = NoQuar /\ keys' = {}
        /\ budget' = [s \in Sessions |-> 0]
        /\ faults < MaxFaults /\ faults' = faults + 1
        /\ UNCHANGED <<turns, hand, make, bind>>
    BY <1>20, RemoveDoes, Zenon
  <2> QED
    BY <2>1 DEF HoldInv, FlagTypes, NoQuar
<1>21. CASE UNCHANGED vars
  BY <1>21, SMTT(30) DEF vars, cap, queues, acct, ops, HoldInv, CreationInv, Shapes,
     FlagTypes
<1>22. CASE record_session_creation_capture_failure \/ record_refusal \/ record_replay_failure
  BY <1>22, RecordDoes DEF queues, HandIdle, HoldInv, FlagTypes
<1> QED
  BY <1>1, <1>2, <1>3, <1>4, <1>5, <1>6, <1>7, <1>8, <1>9, <1>10, <1>11, <1>12,
     <1>13, <1>14, <1>15, <1>16, <1>17, <1>18, <1>19, <1>20, <1>21, <1>22 DEF Next,
     Handler, Creator, Binder, Turn

(* ... the counters theirs, ...                                            *)
LEMMA NumStep ==
  ASSUME HoldInv, [Next]_vars
  PROVE  NumTypes'
<1>1. ASSUME NEW s \in Sessions, handle_notification(s) PROVE NumTypes'
  <2>1. UNCHANGED <<budget, faults, turns>>
    BY <1>1 DEF handle_notification, ops
  <2> QED
    BY <2>1 DEF HoldInv, NumTypes
<1>2. CASE capture_session_creation_notification
  BY <1>2, QuarantineDoes, Limits, SMTT(30) DEF HoldInv, FlagTypes, NumTypes
<1>3. CASE lookup_binding
  BY <1>3, Limits, SMTT(30) DEF lookup_binding, cap, acct, ops, queues, HoldInv,
     FlagTypes, NumTypes
<1>4. CASE enqueue_pending
  BY <1>4, Limits, SMTT(30) DEF enqueue_pending, refuse, accept, HandIdle, HoldInv,
     FlagTypes, NumTypes
<1>5. CASE capture_bound_notification
  BY <1>5, Limits, SMTT(30) DEF capture_bound_notification, refuse, accept, HandIdle,
     write, write_fails, affordable, may_fail, fault, queues, HoldInv, FlagTypes,
     NumTypes
<1>6. CASE begin_session_creation_capture
  BY <1>6, Limits, SMTT(30) DEF begin_session_creation_capture, NoQuar, queues, acct,
     ops, HoldInv, FlagTypes, NumTypes
<1>7. CASE create_session_response
  BY <1>7, ResponseDoes, Limits, SMTT(30) DEF cap, queues, acct, HoldInv, FlagTypes,
     NumTypes
<1>8. CASE finish_session_creation_capture
  BY <1>8, FinishDoes, Limits, SMTT(30) DEF NoQuar, HoldInv, FlagTypes, NumTypes
<1>9. CASE replay_session_creation_notification
  <2>1. UNCHANGED turns /\ (faults' = faults \/ (faults < MaxFaults /\ faults' = faults + 1))
    BY <1>9, ReplayDoes
  <2>2. \/ budget' = budget
        \/ \E s \in Sessions : budget[s] < MaxBudget /\ budget' = [budget EXCEPT ![s] = @ + 1]
    <3>1. \/ UNCHANGED budget
          \/ Head(make.replay).session \in bound /\ write(Head(make.replay).session, Head(make.replay).u)
      BY <1>9, ReplayDoes
    <3> QED
      BY <3>1 DEF write, affordable, HoldInv, TurnTypes
  <2> QED
    BY <2>1, <2>2, Limits DEF HoldInv, NumTypes
<1>10. CASE creation_published
  <2>1. UNCHANGED <<budget, faults, turns>>
    BY <1>10, PublishedDoes DEF acct, ops
  <2> QED
    BY <2>1 DEF HoldInv, NumTypes
<1>11. CASE rollback_publication
  BY <1>11, RollbackDoes, Limits, SMTT(30) DEF unbind, HoldInv, FlagTypes, NumTypes
<1>12. ASSUME NEW s \in Sessions, bind_start(s) PROVE NumTypes'
  BY <1>12, Limits, SMTT(30) DEF bind_start, acct, HoldInv, FlagTypes, NumTypes
<1>13. CASE bind_pop
  BY <1>13, PopDoes, Limits, SMTT(30) DEF acct, HoldInv, FlagTypes, NumTypes
<1>14. CASE bind_capture
  BY <1>14, BindCaptureDoes, Limits, SMTT(30) DEF write, write_fails, affordable,
     may_fail, fault, BindIdle, HoldInv, FlagTypes, NumTypes
<1>15. CASE bind_finish
  BY <1>15, Limits, SMTT(30) DEF bind_finish, acct, ops, BindIdle, HoldInv, FlagTypes,
     NumTypes
<1>16. ASSUME NEW s \in Sessions, begin_capture_operation(s) PROVE NumTypes'
  BY <1>16, Limits, SMTT(30) DEF begin_capture_operation, cap, queues, HoldInv,
     FlagTypes, NumTypes
<1>17. ASSUME NEW s \in Sessions, response_arrives(s) PROVE NumTypes'
  BY <1>17, Limits, SMTT(30) DEF response_arrives, cap, queues, acct, HoldInv,
     FlagTypes, NumTypes
<1>18. ASSUME NEW s \in Sessions, take_capture_failure(s) PROVE NumTypes'
  BY <1>18, Limits, SMTT(30) DEF take_capture_failure, cap, queues, acct, HoldInv,
     FlagTypes, NumTypes
<1>19. ASSUME NEW s \in Sessions, unbind_session(s) PROVE NumTypes'
  BY <1>19, Limits, SMTT(30) DEF unbind_session, unbind, HoldInv, FlagTypes, NumTypes
<1>20. CASE remove_agent_state
  <2>1. /\ hand.pc = "idle" /\ bind.pc = "idle" /\ make.pc \in {"new", "ok", "error"}
        /\ ~quar.active /\ quar' = NoQuar /\ keys' = {}
        /\ budget' = [s \in Sessions |-> 0]
        /\ faults < MaxFaults /\ faults' = faults + 1
        /\ UNCHANGED <<turns, hand, make, bind>>
    BY <1>20, RemoveDoes, Zenon
  <2> QED
    BY <2>1, Limits DEF HoldInv, NumTypes
<1>21. CASE UNCHANGED vars
  BY <1>21, Limits, SMTT(30) DEF vars, cap, queues, acct, ops, HoldInv, FlagTypes,
     NumTypes
<1>22. CASE record_session_creation_capture_failure \/ record_refusal \/ record_replay_failure
  BY <1>22, RecordDoes DEF acct, HoldInv, NumTypes
<1> QED
  BY <1>1, <1>2, <1>3, <1>4, <1>5, <1>6, <1>7, <1>8, <1>9, <1>10, <1>11, <1>12,
     <1>13, <1>14, <1>15, <1>16, <1>17, <1>18, <1>19, <1>20, <1>21, <1>22 DEF Next,
     Handler, Creator, Binder, Turn

(* ... and the holders their places.                                       *)
LEMMA PlacedStep ==
  ASSUME HoldInv, [Next]_vars
  PROVE  HoldersPlaced'
<1>1. ASSUME NEW s \in Sessions, handle_notification(s) PROVE HoldersPlaced'
  BY <1>1, SMTT(30) DEF handle_notification, cap, queues, HoldInv, CreationInv,
     CreationPlaced, Shapes, FlagTypes, SeqTypes, HoldersPlaced
<1>2. CASE capture_session_creation_notification
  BY <1>2, QuarantineDoes, SMTT(30) DEF HoldInv, CreationInv, CreationPlaced, Shapes,
     FlagTypes, SeqTypes, HoldersPlaced
<1>3. CASE lookup_binding
  BY <1>3, SMTT(30) DEF lookup_binding, cap, acct, ops, queues, HoldInv, CreationInv,
     CreationPlaced, Shapes, FlagTypes, SeqTypes, HoldersPlaced
<1>4. CASE enqueue_pending
  BY <1>4, SMTT(30) DEF enqueue_pending, refuse, accept, HandIdle, HoldInv, CreationInv,
     CreationPlaced, Shapes, FlagTypes, SeqTypes, HoldersPlaced
<1>5. CASE capture_bound_notification
  <2>1. hand.pc = "store" /\ UNCHANGED <<quar, bind>>
    BY <1>5 DEF capture_bound_notification, cap
  <2>2. CASE accept /\ UNCHANGED make
    BY <2>1, <2>2 DEF accept, HandIdle, HoldInv, HoldersPlaced
  <2>3. CASE refuse
    <3>1. /\ hand'.u = hand.u /\ make'.pc = make.pc
          /\ make'.session = make.session /\ make'.replay = make.replay
      BY <2>3, SmallFacts DEF refuse
    <3> QED
      BY <2>1, <3>1 DEF HoldInv, HoldersPlaced
  <2> QED
    BY <1>5, <2>2, <2>3 DEF capture_bound_notification
<1>6. CASE begin_session_creation_capture
  BY <1>6, SMTT(30) DEF begin_session_creation_capture, NoQuar, queues, acct, ops,
     HoldInv, CreationInv, CreationPlaced, Shapes, FlagTypes, SeqTypes, HoldersPlaced
<1>7. CASE create_session_response
  BY <1>7, ResponseDoes, SMTT(30) DEF cap, queues, acct, HoldInv, CreationInv,
     CreationPlaced, Shapes, FlagTypes, SeqTypes, HoldersPlaced
<1>8. CASE finish_session_creation_capture
  BY <1>8, FinishDoes, SMTT(30) DEF NoQuar, HoldInv, CreationInv, CreationPlaced,
     Shapes, FlagTypes, SeqTypes, HoldersPlaced
<1>9. CASE replay_session_creation_notification
  <2>1. /\ UNCHANGED <<keys, quar, hand, bind>>
        /\ make'.pc = make.pc /\ make'.session = make.session
        /\ make.replay # <<>> /\ make'.replay = Tail(make.replay)
    <3>1. UNCHANGED <<cap, hand, bind>> /\ make'.pc = make.pc /\ make'.session = make.session
      BY <1>9, ReplayDoes
    <3>2. make.replay # <<>> /\ make'.replay = Tail(make.replay)
      BY <1>9, ReplayDoes
    <3> QED
      BY <3>1, <3>2 DEF cap, queues
  <2> QED
    BY <2>1 DEF HoldInv, HoldersPlaced
<1>10. CASE creation_published
  BY <1>10, PublishedDoes, SMTT(30) DEF cap, queues, acct, HoldInv, CreationInv,
     CreationPlaced, Shapes, FlagTypes, SeqTypes, HoldersPlaced
<1>11. CASE rollback_publication
  BY <1>11, RollbackDoes, SMTT(30) DEF unbind, HoldInv, CreationInv, CreationPlaced,
     Shapes, FlagTypes, SeqTypes, HoldersPlaced
<1>12. ASSUME NEW s \in Sessions, bind_start(s) PROVE HoldersPlaced'
  BY <1>12, SMTT(30) DEF bind_start, acct, HoldInv, CreationInv, CreationPlaced, Shapes,
     FlagTypes, SeqTypes, HoldersPlaced
<1>13. CASE bind_pop
  <2>1. /\ bind.pc = "drain" /\ bind.session \in Sessions /\ UNCHANGED <<quar, hand, make>>
        /\ \/ bind'.pc = "finish" /\ bind'.u = 0
           \/ bind'.pc = "capture" /\ bind'.u # 0
    <3>1. ASSUME bind.session \in Sessions, pend[bind.session] # <<>> PROVE Head(pend[bind.session]) # 0
      <4>1. pend[bind.session] \in Seq(1..MaxUpdates)
        BY <3>1 DEF HoldInv, SeqTypes, Updates
      <4>2. Head(pend[bind.session]) \in 1..MaxUpdates
        BY <3>1, <4>1, HeadTailProperties
      <4> QED
        BY <4>2, Limits
    <3> QED
      BY <1>13, PopDoes, <3>1
  <2> QED
    BY <2>1 DEF HoldInv, HoldersPlaced
<1>14. CASE bind_capture
  BY <1>14, BindCaptureDoes, SMTT(30) DEF write, write_fails, affordable, may_fail,
     fault, BindIdle, HoldInv, CreationInv, CreationPlaced, Shapes, FlagTypes, SeqTypes,
     HoldersPlaced
<1>15. CASE bind_finish
  BY <1>15, SMTT(30) DEF bind_finish, acct, ops, BindIdle, HoldInv, CreationInv,
     CreationPlaced, Shapes, FlagTypes, SeqTypes, HoldersPlaced
<1>16. ASSUME NEW s \in Sessions, begin_capture_operation(s) PROVE HoldersPlaced'
  BY <1>16, SMTT(30) DEF begin_capture_operation, cap, queues, HoldInv, CreationInv,
     CreationPlaced, Shapes, FlagTypes, SeqTypes, HoldersPlaced
<1>17. ASSUME NEW s \in Sessions, response_arrives(s) PROVE HoldersPlaced'
  BY <1>17, SMTT(30) DEF response_arrives, cap, queues, acct, HoldInv, CreationInv,
     CreationPlaced, Shapes, FlagTypes, SeqTypes, HoldersPlaced
<1>18. ASSUME NEW s \in Sessions, take_capture_failure(s) PROVE HoldersPlaced'
  BY <1>18, SMTT(30) DEF take_capture_failure, cap, queues, acct, HoldInv, CreationInv,
     CreationPlaced, Shapes, FlagTypes, SeqTypes, HoldersPlaced
<1>19. ASSUME NEW s \in Sessions, unbind_session(s) PROVE HoldersPlaced'
  BY <1>19, SMTT(30) DEF unbind_session, unbind, HoldInv, CreationInv, CreationPlaced,
     Shapes, FlagTypes, SeqTypes, HoldersPlaced
<1>20. CASE remove_agent_state
  <2>1. /\ hand.pc = "idle" /\ bind.pc = "idle" /\ make.pc \in {"new", "ok", "error"}
        /\ ~quar.active /\ quar' = NoQuar /\ keys' = {}
        /\ budget' = [s \in Sessions |-> 0]
        /\ faults < MaxFaults /\ faults' = faults + 1
        /\ UNCHANGED <<turns, hand, make, bind>>
    BY <1>20, RemoveDoes, Zenon
  <2> QED
    BY <2>1 DEF HoldInv, HoldersPlaced, NoQuar
<1>21. CASE UNCHANGED vars
  BY <1>21, SMTT(30) DEF vars, cap, queues, acct, ops, HoldInv, CreationInv,
     CreationPlaced, Shapes, FlagTypes, SeqTypes, HoldersPlaced
<1>22. CASE record_session_creation_capture_failure \/ record_refusal \/ record_replay_failure
  BY <1>22, RecordDoes DEF HandIdle, HoldInv, HoldersPlaced
<1> QED
  BY <1>1, <1>2, <1>3, <1>4, <1>5, <1>6, <1>7, <1>8, <1>9, <1>10, <1>11, <1>12,
     <1>13, <1>14, <1>15, <1>16, <1>17, <1>18, <1>19, <1>20, <1>21, <1>22 DEF Next,
     Handler, Creator, Binder, Turn

(* The queues, the quarantine and what is replayed hold updates.           *)
LEMMA TakesType ==
  ASSUME NEW es \in Seq(Entry), NEW S
  PROVE  of_sessions(es, S) \in Seq(Entry) /\ updates(of_sessions(es, S)) \in Updates
<1>1. of_sessions(es, S) \in Seq(Entry)
  BY LoopTakes DEF Takes
<1> QED
  BY <1>1, UpdatesAre

LEMMA SeqStep ==
  ASSUME HoldInv, [Next]_vars
  PROVE  SeqTypes'
<1>1. HoldInv /\ SeqTypes /\ HoldersPlaced
  BY DEF HoldInv
<1>2. CASE Quiet
  BY <1>1, <1>2, Limits DEF Quiet, SameTaken, SameEntries, SameReplay, SameBind, SeqTypes
<1>3. CASE Sends
  BY <1>1, <1>3, Limits DEF Sends, SameEntries, SameReplay, SameBind, SeqTypes
<1>4. CASE Accepts
  <2>1. hand.u \in 1..MaxUpdates /\ hand.session \in Sessions
    BY <1>1, <1>4, Limits DEF Accepts, SeqTypes, HoldersPlaced
  <2>2. accepted' \in [Sessions -> Updates]
    BY <1>1, <1>4, <2>1, QueueEdits DEF Accepts, SeqTypes
  <2>3. /\ make'.replay \in Seq(Entry) /\ bind'.u \in 0..MaxUpdates /\ hand'.u \in 0..MaxUpdates
        /\ last' \in 0..MaxUpdates /\ dropped' \subseteq 1..MaxUpdates
    BY <1>1, <1>4, Limits DEF Accepts, SameReplay, SameBind, SeqTypes
  <2>4. CASE Entered
    <3>1. [session |-> hand.session, u |-> hand.u] \in Entry
      BY <2>1 DEF Entry
    <3>2. quar'.entries \in Seq(Entry)
      BY <1>1, <2>4, <3>1, AppendProperties DEF Entered, SeqTypes
    <3> QED
      BY <1>1, <2>2, <2>3, <2>4, <3>2 DEF Entered, SeqTypes
  <2>5. CASE Queued
    <3>1. pend' \in [Sessions -> Updates]
      BY <1>1, <2>1, <2>5, QueueEdits DEF Queued, SeqTypes
    <3> QED
      BY <1>1, <2>2, <2>3, <2>5, <3>1 DEF Queued, SameEntries, SeqTypes
  <2>6. CASE Stored
    <3>1. stored' \in [Sessions -> Updates]
      BY <1>1, <2>1, <2>6, QueueEdits DEF Stored, SeqTypes
    <3> QED
      BY <1>1, <2>2, <2>3, <2>6, <3>1 DEF Stored, SameEntries, SeqTypes
  <2> QED
    BY <1>4, <2>4, <2>5, <2>6 DEF Accepts
<1>5. CASE Pops
  <2>1. pend[bind.session] \in Seq(1..MaxUpdates)
    BY <1>1, <1>5 DEF Pops, SeqTypes, Updates
  <2>2. /\ Tail(pend[bind.session]) \in Updates
        /\ Head(pend[bind.session]) \in 1..MaxUpdates
    BY <1>5, <2>1, HeadTailProperties DEF Pops, Updates
  <2>3. pend' \in [Sessions -> Updates] /\ bind'.u \in 0..MaxUpdates
    BY <1>1, <1>5, <2>2 DEF Pops, SeqTypes
  <2> QED
    BY <1>1, <1>5, <2>3 DEF Pops, SameTaken, SameEntries, SameReplay, SeqTypes
<1>6. CASE BindEnds
  <2>1. bind.u \in 1..MaxUpdates /\ bind.session \in Sessions
    BY <1>1, <1>6, Limits DEF BindEnds, SeqTypes
  <2>2. pend' \in [Sessions -> Updates] /\ stored' \in [Sessions -> Updates]
    <3>1. pend \in [Sessions -> Updates] /\ stored \in [Sessions -> Updates]
      BY <1>1 DEF SeqTypes
    <3>2. /\ [stored EXCEPT ![bind.session] = Append(@, bind.u)] \in [Sessions -> Updates]
          /\ [pend EXCEPT ![bind.session] = <<bind.u>> \o @] \in [Sessions -> Updates]
      BY <2>1, <3>1, QueueEdits
    <3>3. \/ stored' = [stored EXCEPT ![bind.session] = Append(@, bind.u)] /\ UNCHANGED pend
          \/ pend' = [pend EXCEPT ![bind.session] = <<bind.u>> \o @] /\ UNCHANGED stored
      BY <1>6 DEF BindEnds
    <3> QED
      BY <3>1, <3>2, <3>3
  <2> QED
    BY <1>1, <1>6, <2>2, Limits DEF BindEnds, SameTaken, SameEntries, SameReplay, SeqTypes
<1>7. CASE Replays
  <2> DEFINE e == Head(make.replay)
  <2>1. make.replay \in Seq(Entry) /\ make.replay # <<>>
    BY <1>1, <1>7 DEF Replays, SeqTypes
  <2>2. e \in Entry /\ Tail(make.replay) \in Seq(Entry)
    BY <2>1, HeadTailProperties
  <2>3. e.session \in Sessions /\ e.u \in 1..MaxUpdates
    BY <2>2 DEF Entry
  <2>4. make'.replay \in Seq(Entry)
    BY <1>7, <2>2 DEF Replays
  <2>5. \/ stored' = [stored EXCEPT ![e.session] = Append(@, e.u)] /\ UNCHANGED dropped
        \/ dropped' = dropped \cup {e.u} /\ UNCHANGED stored
    BY <1>7 DEF Replays
  <2>6. SameTaken /\ UNCHANGED pend /\ SameEntries /\ SameBind
    BY <1>7 DEF Replays
  <2> HIDE DEF e
  <2>7. stored' \in [Sessions -> Updates] /\ dropped' \subseteq 1..MaxUpdates
    <3>1. stored \in [Sessions -> Updates] /\ dropped \subseteq 1..MaxUpdates
      BY <1>1 DEF SeqTypes
    <3>2. [stored EXCEPT ![e.session] = Append(@, e.u)] \in [Sessions -> Updates]
      BY <2>3, <3>1, QueueEdits
    <3> QED
      BY <2>3, <2>5, <3>1, <3>2
  <2> QED
    BY <1>1, <2>4, <2>6, <2>7, Limits DEF SameTaken, SameEntries, SameBind, SeqTypes
<1>8. CASE Finishes
  <2>1. /\ make'.replay \in Seq(Entry) /\ matching \in Updates /\ quar'.entries \in Seq(Entry)
    <3>1. quar.entries \in Seq(Entry)
      BY <1>1 DEF SeqTypes
    <3> QED
      BY <1>8, <3>1, TakesType, EmptySeq DEF Finishes, matching
  <2>2. /\ stored' \in [Sessions -> Updates] /\ accepted' \in [Sessions -> Updates]
        /\ last' \in 0..MaxUpdates /\ hand'.u \in 0..MaxUpdates /\ bind'.u \in 0..MaxUpdates
    BY <1>1, <1>8, Limits DEF Finishes, SameTaken, SameBind, SeqTypes
  <2>3. CASE /\ make.session \in Sessions /\ UNCHANGED dropped
             /\ pend' = [pend EXCEPT ![make.session] = @ \o matching]
    <3>1. pend[make.session] \in Seq(1..MaxUpdates) /\ matching \in Seq(1..MaxUpdates)
      BY <1>1, <2>1, <2>3 DEF SeqTypes, Updates
    <3>2. pend[make.session] \o matching \in Updates
      BY <3>1, ConcatProperties DEF Updates
    <3>3. pend' \in [Sessions -> Updates]
      BY <1>1, <2>3, <3>2 DEF SeqTypes
    <3> QED
      BY <1>1, <2>1, <2>2, <2>3, <3>3 DEF SeqTypes
  <2>4. CASE dropped' = dropped \cup ToSet(matching) /\ UNCHANGED pend
    <3>1. ToSet(matching) \subseteq 1..MaxUpdates
      <4>1. matching \in Seq(1..MaxUpdates)
        BY <2>1 DEF Updates
      <4>2. DOMAIN matching = 1..Len(matching) /\ \A i \in 1..Len(matching) : matching[i] \in 1..MaxUpdates
        BY <4>1, LenProperties, ElementOfSeq
      <4> QED
        BY <4>2 DEF ToSet
    <3> QED
      BY <1>1, <2>1, <2>2, <2>4, <3>1 DEF SeqTypes
  <2> QED
    BY <1>8, <2>3, <2>4 DEF Finishes
<1>9. ASSUME NEW S \in SUBSET Sessions, Empties(S) PROVE SeqTypes'
  <2>1. <<>> \in Updates
    BY EmptySeq DEF Updates
  <2>2. pend' \in [Sessions -> Updates]
    BY <1>1, <1>9, <2>1 DEF Empties, SeqTypes
  <2>3. UNION {ToSet(pend[s]) : s \in S} \subseteq 1..MaxUpdates
    <3>1. \A s \in S : ToSet(pend[s]) \subseteq 1..MaxUpdates
      <4> SUFFICES ASSUME NEW s \in S PROVE ToSet(pend[s]) \subseteq 1..MaxUpdates
        OBVIOUS
      <4>1. pend[s] \in Seq(1..MaxUpdates)
        BY <1>1 DEF SeqTypes, Updates
      <4>2. DOMAIN pend[s] = 1..Len(pend[s]) /\ \A i \in 1..Len(pend[s]) : pend[s][i] \in 1..MaxUpdates
        BY <4>1, LenProperties, ElementOfSeq
      <4> QED
        BY <4>2 DEF ToSet
    <3> QED
      BY <3>1
  <2>4. dropped' \subseteq 1..MaxUpdates
    BY <1>1, <1>9, <2>3 DEF Empties, SeqTypes
  <2>5. SameTaken /\ UNCHANGED stored /\ SameEntries /\ SameReplay /\ SameBind
    BY <1>9 DEF Empties
  <2> QED
    BY <1>1, <2>2, <2>4, <2>5, Limits DEF SameTaken, SameEntries, SameReplay, SameBind, SeqTypes
<1>10. CASE UNCHANGED vars
  BY <1>1, <1>10 DEF vars, cap, queues, acct, SeqTypes
<1>11. CASE Next
  <2>1. Kinds
    BY <1>1, <1>11, StepKinds
  <2> QED
    BY <1>2, <1>3, <1>4, <1>5, <1>6, <1>7, <1>8, <1>9, <2>1 DEF Kinds
<1> QED
  BY <1>10, <1>11

(* Every step keeps what is known of the holders; so does the first state. *)
LEMMA HoldStep ==
  ASSUME HoldInv, TurnInv, [Next]_vars
  PROVE  HoldInv'
<1>1. CreationInv' /\ TurnInv'
  BY CreationStep, TurnStep DEF HoldInv
<1> QED
  BY <1>1, FlagStep, NumStep, SeqStep, PlacedStep DEF HoldInv, TurnInv

LEMMA HoldStarts ==
  ASSUME Init
  PROVE  HoldInv /\ TurnInv
<1>1. CreationInv /\ TurnInv
  BY CaptureStarts
<1>2. FlagTypes /\ HoldersPlaced
  BY DEF Init, FlagTypes, HoldersPlaced, NoQuar, MakeNew, HandIdle, BindIdle
<1>3. NumTypes
  BY Limits DEF Init, NumTypes
<1>4. SeqTypes
  <2>1. <<>> \in Updates /\ <<>> \in Seq(Entry)
    BY EmptySeq DEF Updates
  <2> QED
    BY <2>1, Limits DEF Init, SeqTypes, NoQuar, MakeNew, HandIdle, BindIdle
<1> QED
  BY <1>1, <1>2, <1>3, <1>4 DEF HoldInv, TurnInv

-----------------------------------------------------------------------------
(***************************************************************************)
(* The quotas.  What the queues hold is a sum over the sessions, and an    *)
(* entry in the binder's hands keeps its place in the quota.               *)
(***************************************************************************)
Lens(f) == [s \in Sessions |-> Len(f[s])]
Held(f) == SumOf(Lens(f), Sessions)
InHand == IF bind.pc = "capture" THEN 1 ELSE 0
QuotaKept ==
  /\ pcount = Held(pend) /\ qcount = Len(quar.entries)
  /\ pcount + qcount + InHand <= MaxPending + 1
  /\ \A s \in Sessions : pend[s] # <<>> => s \in keys

QuotaInv == HoldInv /\ TurnInv /\ QuotaKept

LEMMA SessionsFinite == IsFiniteSet(Sessions)
  BY CaptureAssumption, FS_Singleton, FS_Union DEF Sessions

LEMMA LensAre ==
  ASSUME NEW f \in [Sessions -> Updates]
  PROVE  \A s \in Sessions : Lens(f)[s] \in Nat /\ Lens(f)[s] = Len(f[s])
<1> SUFFICES ASSUME NEW s \in Sessions PROVE Len(f[s]) \in Nat
  BY DEF Lens
<1>1. f[s] \in Seq(1..MaxUpdates)
  BY DEF Updates
<1> QED
  BY <1>1, LenProperties

(* The sum that the quota invariant writes with a fold.                    *)
LenSum(f) ==
  (CHOOSE g : g = [s \in SUBSET Sessions |->
                     IF s = {} THEN 0 ELSE Len(f[pick(s)]) + g[s \ {pick(s)}]])[Sessions]
LEMMA LenSumIs ==
  ASSUME NEW f \in [Sessions -> Updates]
  PROVE  LenSum(f) = Held(f)
<1> DEFINE Eq(g) == g = [s \in SUBSET Sessions |->
                           IF s = {} THEN 0 ELSE Len(f[pick(s)]) + g[s \ {pick(s)}]]
           c == CHOOSE g : Eq(g)
<1>1. LenSum(f) = c[Sessions]
  BY Zenon DEF LenSum
<1>2. IsFiniteSet(Sessions) /\ \A x \in Sessions : Lens(f)[x] \in Nat
  BY SessionsFinite, LensAre
<1>3. \A s \in SUBSET Sessions : s # {} => Len(f[pick(s)]) = Lens(f)[pick(s)]
  <2>1. \A s \in SUBSET Sessions : s # {} => pick(s) \in Sessions
    BY DEF pick
  <2> QED
    BY <2>1 DEF Lens
<1>4. \A g : Eq(g) <=> IsSum(g, Lens(f), Sessions)
  <2> SUFFICES ASSUME NEW g
               PROVE [s \in SUBSET Sessions |-> IF s = {} THEN 0 ELSE Len(f[pick(s)]) + g[s \ {pick(s)}]]
                   = [s \in SUBSET Sessions |-> IF s = {} THEN 0 ELSE Lens(f)[pick(s)] + g[s \ {pick(s)}]]
    BY DEF IsSum
  <2> QED
    BY <1>3
<1>5. \E g : IsSum(g, Lens(f), Sessions)
  BY <1>2, SumExists
<1>6. IsSum(c, Lens(f), Sessions)
  <2>1. \E g : Eq(g)
    BY <1>4, <1>5
  <2>2. Eq(c)
    BY <2>1, Zenon
  <2> QED
    BY <1>4, <2>2
<1> HIDE DEF c
<1> QED
  BY <1>1, <1>2, <1>6, SumOfIs DEF Held

LEMMA FoldIs ==
  ASSUME pend \in [Sessions -> Updates]
  PROVE  MapThenSumSet(LAMBDA s : Len(pend[s]), Sessions) = Held(pend)
<1>1. MapThenSumSet(LAMBDA s : Len(pend[s]), Sessions) = LenSum(pend)
  BY Zenon DEF LenSum, MapThenSumSet, MapThenFoldSet, pick
<1> QED
  BY <1>1, LenSumIs

(* The sum follows an edit of one queue.                                   *)
LEMMA HeldChange ==
  ASSUME NEW f \in [Sessions -> Updates], NEW s \in Sessions, NEW q \in Updates
  PROVE  /\ Held(f) \in Nat /\ Len(f[s]) \in Nat /\ Len(q) \in Nat
         /\ Held([f EXCEPT ![s] = q]) = (Held(f) - Len(f[s])) + Len(q)
<1> DEFINE g == [f EXCEPT ![s] = q]
<1>1. g \in [Sessions -> Updates] /\ g[s] = q /\ \A t \in Sessions \ {s} : g[t] = f[t]
  OBVIOUS
<1> HIDE DEF g
<1>2. /\ \A t \in Sessions : Lens(f)[t] \in Nat /\ Lens(f)[t] = Len(f[t])
      /\ \A t \in Sessions : Lens(g)[t] \in Nat /\ Lens(g)[t] = Len(g[t])
  BY <1>1, LensAre
<1>3. \A t \in Sessions \ {s} : Lens(g)[t] = Lens(f)[t]
  BY <1>1, <1>2
<1>4. SumOf(Lens(g), Sessions) = SumOf(Lens(f), Sessions) - Lens(f)[s] + Lens(g)[s]
  BY <1>2, <1>3, SessionsFinite, SumOfChange
<1>5. SumOf(Lens(f), Sessions) \in Nat
  BY <1>2, SessionsFinite, SumOfNat
<1>6. Held(g) = (Held(f) - Len(f[s])) + Len(q) /\ Held(f) \in Nat /\ Len(f[s]) \in Nat /\ Len(q) \in Nat
  BY <1>1, <1>2, <1>4, <1>5 DEF Held
<1> QED
  BY <1>6 DEF g

LEMMA QuotaNats ==
  ASSUME QuotaInv
  PROVE  /\ pcount \in Nat /\ qcount \in Nat /\ pend \in [Sessions -> Updates]
         /\ InHand \in {0, 1} /\ MaxPending \in Nat /\ quar.entries \in Seq(Entry)
<1>1. pend \in [Sessions -> Updates] /\ quar.entries \in Seq(Entry)
  BY DEF QuotaInv, HoldInv, SeqTypes
<1>2. Held(pend) \in Nat
  <2>1. \A s \in Sessions : Lens(pend)[s] \in Nat
    BY <1>1, LensAre
  <2> QED
    BY <2>1, SessionsFinite, SumOfNat DEF Held
<1>3. Len(quar.entries) \in Nat
  BY <1>1, LenProperties
<1> QED
  BY <1>1, <1>2, <1>3, Limits DEF QuotaInv, QuotaKept, InHand

(* The steps that leave the counted entries alone, ...                     *)
Uncounted == /\ UNCHANGED <<pend, pcount, qcount>> /\ SameEntries /\ InHand' = InHand
             /\ \A s \in Sessions : pend[s] # <<>> /\ s \in keys => s \in keys'

LEMMA UncountedKeeps ==
  ASSUME QuotaInv, Uncounted
  PROVE  QuotaKept'
<1>1. Held(pend') = Held(pend)
  BY DEF Uncounted
<1> QED
  BY <1>1 DEF QuotaInv, QuotaKept, Uncounted, SameEntries

(* ... and the ones that edit one queue.                                   *)
LEMMA EditKeeps ==
  ASSUME QuotaInv, NEW s \in Sessions, NEW q \in Updates,
         pend' = [pend EXCEPT ![s] = q], pcount' = (pcount - Len(pend[s])) + Len(q),
         qcount' = Len(quar'.entries), pcount' + qcount' + InHand' <= MaxPending + 1,
         \A t \in Sessions : t # s /\ t \in keys => t \in keys',
         q # <<>> => s \in keys'
  PROVE  QuotaKept'
<1>1. pcount = Held(pend) /\ \A t \in Sessions : pend[t] # <<>> => t \in keys
  BY DEF QuotaInv, QuotaKept
<1>2. pend \in [Sessions -> Updates]
  BY QuotaNats
<1>3. Held([pend EXCEPT ![s] = q]) = (Held(pend) - Len(pend[s])) + Len(q)
  BY <1>2, HeldChange
<1>4. pcount' = Held(pend')
  BY <1>1, <1>3
<1>5. \A t \in Sessions : pend'[t] # <<>> => t \in keys'
  BY <1>1, <1>2
<1> QED
  BY <1>4, <1>5 DEF QuotaKept

LEMMA QuotaStep ==
  ASSUME QuotaInv, [Next]_vars
  PROVE  QuotaKept'
<1>0. /\ HoldInv /\ QuotaKept /\ pcount \in Nat /\ qcount \in Nat /\ MaxPending \in Nat
      /\ pend \in [Sessions -> Updates] /\ quar.entries \in Seq(Entry)
      /\ SeqTypes /\ FlagTypes /\ HoldersPlaced
  BY QuotaNats DEF QuotaInv, HoldInv
<1>1. ASSUME NEW s \in Sessions, handle_notification(s) PROVE Uncounted
  BY <1>1 DEF handle_notification, cap, queues, Uncounted, SameEntries, InHand
<1>2. CASE capture_session_creation_notification
  <2>1. UNCHANGED <<pend, keys, pcount, bind>>
    BY <1>0, <1>2, QuarantineDoes
  <2>2. CASE quar'.entries = quar.entries /\ UNCHANGED qcount
    BY <2>1, <2>2, UncountedKeeps DEF Uncounted, SameEntries, InHand
  <2>3. CASE /\ ~(pcount + qcount >= MaxPending) /\ qcount' = qcount + 1
             /\ quar'.entries = Append(quar.entries, [session |-> hand.session, u |-> hand.u])
    <3>1. hand.session \in Sessions /\ hand.u \in 1..MaxUpdates
      <4>1. hand.pc = "quarantine" /\ hand.session \in Sessions
        BY <1>0, <1>2, QuarantineDoes
      <4> QED
        BY <1>0, <4>1, Limits DEF SeqTypes, HoldersPlaced
    <3>2. Len(quar'.entries) = Len(quar.entries) + 1
      <4>1. [session |-> hand.session, u |-> hand.u] \in Entry
        BY <3>1 DEF Entry
      <4> QED
        BY <1>0, <2>3, <4>1, AppendProperties
    <3>3. pcount + qcount + 1 <= MaxPending
      BY <1>0, <2>3
    <3> QED
      BY <1>0, <2>1, <2>3, <3>2, <3>3 DEF QuotaKept, InHand
  <2> QED
    BY <1>0, <1>2, <2>2, <2>3, QuarantineDoes
<1>3. CASE lookup_binding
  <2>1. Uncounted
    BY <1>3 DEF lookup_binding, cap, queues, Uncounted, SameEntries, InHand
  <2> QED
    BY <2>1, UncountedKeeps
<1>4. CASE enqueue_pending
  <2>1. hand.pc = "enqueue" /\ UNCHANGED <<qcount, bind>> /\ hand.session \in Sessions
    BY <1>0, <1>4, SmallFacts DEF enqueue_pending
  <2>2. SameEntries
    BY <1>4 DEF enqueue_pending, SameEntries
  <2>3. CASE UNCHANGED <<pend, pcount>> /\ keys \subseteq keys'
    BY <2>1, <2>2, <2>3, UncountedKeeps DEF Uncounted, InHand
  <2>4. CASE /\ ~quota_exceeded(hand.session) /\ keys' = keys \cup {hand.session}
             /\ pend' = [pend EXCEPT ![hand.session] = Append(@, hand.u)] /\ pcount' = pcount + 1
    <3>1. hand.u \in 1..MaxUpdates
      BY <1>0, <2>1, Limits DEF SeqTypes, HoldersPlaced
    <3> DEFINE q == Append(pend[hand.session], hand.u)
    <3>2. q \in Updates /\ Len(q) = Len(pend[hand.session]) + 1 /\ Len(pend[hand.session]) \in Nat
      <4>1. pend[hand.session] \in Seq(1..MaxUpdates)
        BY <1>0, <2>1 DEF Updates
      <4> QED
        BY <3>1, <4>1, AppendProperties, LenProperties DEF Updates
    <3>3. pend' = [pend EXCEPT ![hand.session] = q]
      BY <2>4
    <3> HIDE DEF q
    <3>4. pcount' = (pcount - Len(pend[hand.session])) + Len(q)
      <4>1. pcount \in Nat /\ pcount' = pcount + 1
        BY <1>0, <2>4
      <4>2. PICK n, l : n = Len(q) /\ l = Len(pend[hand.session])
        OBVIOUS
      <4>3. l \in Nat /\ n = l + 1
        BY <3>2, <4>2
      <4>4. pcount + 1 = (pcount - l) + n
        BY <4>1, <4>3
      <4> QED
        BY <4>1, <4>2, <4>4
    <3>5. pcount + qcount + 1 <= MaxPending
      BY <1>0, <2>4 DEF quota_exceeded
    <3>6. pcount' + qcount' + InHand' <= MaxPending + 1
      BY <1>0, <2>1, <2>4, <3>5 DEF InHand
    <3>7. qcount' = Len(quar'.entries)
      BY <1>0, <2>1, <2>2 DEF QuotaKept, SameEntries
    <3>8. /\ \A t \in Sessions : t # hand.session /\ t \in keys => t \in keys'
          /\ hand.session \in keys'
      BY <2>4
    <3> QED
      BY <2>1, <3>2, <3>3, <3>4, <3>6, <3>7, <3>8, EditKeeps
  <2> QED
    BY <1>4, <2>3, <2>4 DEF enqueue_pending
<1>5. CASE capture_bound_notification
  <2>1. UNCHANGED <<pend, keys, pcount, qcount, bind>>
    BY <1>5 DEF capture_bound_notification, cap, queues
  <2>2. SameEntries
    BY <1>5 DEF capture_bound_notification, cap, SameEntries
  <2> QED
    BY <2>1, <2>2, UncountedKeeps DEF Uncounted, InHand
<1>6. CASE begin_session_creation_capture
  <2>1. UNCHANGED <<pend, keys, pcount, qcount, bind>>
    BY <1>6 DEF begin_session_creation_capture, queues
  <2>2. SameEntries
    <3>1. ~quar.active
      BY <1>0, <1>6 DEF begin_session_creation_capture, HoldInv, CreationInv, CreationPlaced
    <3>2. quar'.entries = <<>>
      BY <1>6 DEF begin_session_creation_capture, NoQuar
    <3> QED
      BY <1>0, <3>1, <3>2 DEF HoldersPlaced, SameEntries
  <2> QED
    BY <2>1, <2>2, UncountedKeeps DEF Uncounted, InHand
<1>7. CASE create_session_response
  <2>1. Uncounted
    BY <1>7 DEF create_session_response, cap, queues, Uncounted, SameEntries, InHand
  <2> QED
    BY <2>1, UncountedKeeps
<1>8. CASE finish_session_creation_capture
  <2>1. UNCHANGED bind /\ qcount' = 0 /\ quar'.entries = <<>> /\ Len(<<>>) = 0
    BY <1>0, <1>8, FinishDoes, EmptySeq DEF NoQuar
  <2>2. CASE UNCHANGED <<pend, keys, pcount>>
    BY <1>0, <2>1, <2>2 DEF QuotaKept, InHand
  <2>3. CASE /\ make.session = Fresh /\ pend' = [pend EXCEPT ![Fresh] = @ \o matching]
             /\ keys' = IF matching = <<>> THEN keys ELSE keys \cup {Fresh}
             /\ pcount' = pcount + Len(matching)
    <3> DEFINE q == pend[Fresh] \o matching
               es == of_sessions(quar.entries, {make.session})
    <3>1. Fresh \in Sessions /\ pend[Fresh] \in Seq(1..MaxUpdates)
      BY <1>0 DEF Sessions, Updates
    <3>2. es \in Seq(Entry) /\ Len(es) <= Len(quar.entries)
      BY <1>0, LoopTakes DEF Takes
    <3>3. matching \in Seq(1..MaxUpdates) /\ Len(matching) = Len(es)
      BY <3>2, UpdatesAre DEF matching, Updates
    <3>4. /\ q \in Seq(1..MaxUpdates) /\ Len(q) = Len(pend[Fresh]) + Len(matching)
          /\ Len(pend[Fresh]) \in Nat /\ Len(matching) \in Nat
      BY <3>1, <3>3, ConcatProperties, LenProperties
    <3>5. pend' = [pend EXCEPT ![Fresh] = q]
      BY <2>3
    <3>6. q # <<>> => Fresh \in keys'
      <4>1. CASE matching = <<>>
        <5>1. q = pend[Fresh]
          BY <3>1, <4>1, ConcatEmptySeq
        <5> QED
          BY <1>0, <2>3, <3>1, <4>1, <5>1 DEF QuotaKept
      <4> QED
        BY <2>3, <4>1
    <3>7. Len(es) <= qcount
      BY <1>0, <3>2 DEF QuotaKept
    <3> HIDE DEF q, es
    <3>8. pcount' = (pcount - Len(pend[Fresh])) + Len(q)
      <4>1. pcount \in Nat /\ pcount' = pcount + Len(matching)
        BY <1>0, <2>3
      <4>2. PICK n, l, m : n = Len(q) /\ l = Len(pend[Fresh]) /\ m = Len(matching)
        OBVIOUS
      <4>3. l \in Nat /\ m \in Nat /\ n = l + m
        BY <3>4, <4>2
      <4>4. pcount + m = (pcount - l) + n
        BY <4>1, <4>3
      <4> QED
        BY <4>1, <4>2, <4>4
    <3>9. pcount' + qcount' + InHand' <= MaxPending + 1
      <4>1. pcount + qcount + InHand <= MaxPending + 1 /\ InHand' = InHand /\ InHand \in {0, 1}
        BY <1>0, <2>1 DEF QuotaKept, InHand
      <4> QED
        BY <1>0, <2>1, <2>3, <3>3, <3>4, <3>7, <4>1
    <3>10. \A t \in Sessions : t # Fresh /\ t \in keys => t \in keys'
      BY <2>3
    <3> QED
      BY <2>1, <3>1, <3>4, <3>5, <3>6, <3>8, <3>9, <3>10, EditKeeps DEF Updates
  <2> QED
    BY <1>0, <1>8, <2>2, <2>3, FinishDoes
<1>9. CASE replay_session_creation_notification
  <2>1. UNCHANGED <<cap, bind>>
    BY <1>0, <1>9, ReplayDoes
  <2> QED
    BY <2>1, UncountedKeeps DEF cap, queues, Uncounted, SameEntries, InHand
<1>10. CASE creation_published
  <2>1. Uncounted
    BY <1>10 DEF creation_published, cap, queues, Uncounted, SameEntries, InHand
  <2> QED
    BY <2>1, UncountedKeeps
<1>11. ASSUME NEW s \in Sessions, unbind(s), UNCHANGED <<quar, qcount, bind>>
       PROVE  QuotaKept'
  <2>1. /\ pend' = [pend EXCEPT ![s] = <<>>] /\ keys' = keys \ {s} /\ pcount' = pcount - Len(pend[s])
    BY <1>11 DEF unbind
  <2>2. <<>> \in Updates /\ Len(<<>>) = 0 /\ Len(pend[s]) \in Nat
    <3>1. pend[s] \in Seq(1..MaxUpdates)
      BY <1>0 DEF Updates
    <3> QED
      BY <3>1, EmptySeq, LenProperties DEF Updates
  <2>3. pcount' = (pcount - Len(pend[s])) + Len(<<>>)
    BY <1>0, <2>1, <2>2
  <2>4. pcount' + qcount' + InHand' <= MaxPending + 1
    <3>1. pcount + qcount + InHand <= MaxPending + 1 /\ InHand' = InHand /\ InHand \in {0, 1}
      BY <1>0, <1>11 DEF QuotaKept, InHand
    <3> QED
      BY <1>0, <1>11, <2>1, <2>2, <3>1
  <2>5. qcount' = Len(quar'.entries)
    BY <1>0, <1>11 DEF QuotaKept
  <2> QED
    BY <2>1, <2>2, <2>3, <2>4, <2>5, EditKeeps
<1>12. CASE rollback_publication
  BY <1>11, <1>12, Zenon DEF rollback_publication, Sessions
<1>13. ASSUME NEW s \in Sessions, unbind_session(s) PROVE QuotaKept'
  BY <1>11, <1>13 DEF unbind_session
<1>14. ASSUME NEW s \in Sessions, bind_start(s) PROVE Uncounted
  <2>1. bind.pc = "idle" /\ bind'.pc = "drain" /\ UNCHANGED <<pend, pcount, quar, qcount>> /\ keys \subseteq keys'
    BY <1>14 DEF bind_start
  <2> QED
    BY <2>1 DEF Uncounted, SameEntries, InHand
<1>15. CASE bind_pop
  <2>1. UNCHANGED <<keys, quar, qcount>> /\ bind.pc = "drain" /\ bind.session \in Sessions
    BY <1>0, <1>15, PopDoes
  <2>2. CASE bind'.pc = "finish" /\ UNCHANGED <<pend, pcount>>
    BY <2>1, <2>2, UncountedKeeps DEF Uncounted, SameEntries, InHand
  <2>3. CASE /\ bind'.pc = "capture" /\ pend[bind.session] # <<>> /\ pcount' = pcount - 1
             /\ pend' = [pend EXCEPT ![bind.session] = Tail(@)]
    <3>1. PICK q : q = Tail(pend[bind.session])
      OBVIOUS
    <3>2. q \in Updates /\ Len(q) = Len(pend[bind.session]) - 1 /\ Len(pend[bind.session]) \in Nat
      <4>1. pend[bind.session] \in Seq(1..MaxUpdates)
        BY <1>0, <2>1 DEF Updates
      <4> QED
        BY <2>3, <3>1, <4>1, HeadTailProperties, LenProperties DEF Updates
    <3>3. pend' = [pend EXCEPT ![bind.session] = q] /\ pcount' = (pcount - Len(pend[bind.session])) + Len(q)
      BY <1>0, <2>3, <3>1, <3>2
    <3>4. pcount' + qcount' + InHand' <= MaxPending + 1 /\ qcount' = Len(quar'.entries)
      BY <1>0, <2>1, <2>3 DEF QuotaKept, InHand
    <3>5. q # <<>> => bind.session \in keys'
      BY <1>0, <2>1, <2>3 DEF QuotaKept
    <3> QED
      BY <2>1, <3>2, <3>3, <3>4, <3>5, EditKeeps
  <2> QED
    BY <1>0, <1>15, <2>2, <2>3, PopDoes
<1>16. CASE bind_capture
  <2>1. UNCHANGED <<quar, qcount>> /\ bind.pc = "capture" /\ bind.session \in Sessions
    BY <1>0, <1>16, BindCaptureDoes
  <2>2. CASE bind'.pc = "drain" /\ UNCHANGED <<pend, keys, pcount>>
    <3>1. pcount' + qcount' + InHand' <= MaxPending + 1
      BY <1>0, <2>1, <2>2 DEF QuotaKept, InHand
    <3> QED
      BY <1>0, <2>1, <2>2, <3>1 DEF QuotaKept
  <2>3. CASE /\ bind' = BindIdle /\ pend' = [pend EXCEPT ![bind.session] = <<bind.u>> \o @]
             /\ keys' = keys \cup {bind.session} /\ pcount' = pcount + 1
    <3>1. PICK q : q = <<bind.u>> \o pend[bind.session]
      OBVIOUS
    <3>2. q \in Updates /\ Len(q) = Len(pend[bind.session]) + 1 /\ Len(pend[bind.session]) \in Nat
      <4>1. pend[bind.session] \in Seq(1..MaxUpdates)
        BY <1>0, <2>1 DEF Updates
      <4>2. bind.u \in 1..MaxUpdates
        BY <1>0, <2>1, Limits DEF SeqTypes, HoldersPlaced
      <4>3. <<bind.u>> \in Seq(1..MaxUpdates) /\ Len(<<bind.u>>) = 1
        BY <4>2
      <4>4. Len(<<bind.u>> \o pend[bind.session]) = Len(<<bind.u>>) + Len(pend[bind.session])
        BY <4>1, <4>3, ConcatProperties
      <4> QED
        BY <3>1, <4>1, <4>3, <4>4, ConcatProperties, LenProperties DEF Updates
    <3>3. pend' = [pend EXCEPT ![bind.session] = q] /\ pcount' = (pcount - Len(pend[bind.session])) + Len(q)
      <4>1. pcount \in Nat /\ pcount' = pcount + 1
        BY <1>0, <2>3
      <4>2. PICK n, l : n = Len(q) /\ l = Len(pend[bind.session])
        OBVIOUS
      <4>3. l \in Nat /\ n = l + 1
        BY <3>2, <4>2
      <4>4. pcount + 1 = (pcount - l) + n
        BY <4>1, <4>3
      <4> QED
        BY <2>3, <3>1, <4>1, <4>2, <4>4
    <3>4. pcount' + qcount' + InHand' <= MaxPending + 1 /\ qcount' = Len(quar'.entries)
      BY <1>0, <2>1, <2>3 DEF QuotaKept, InHand, BindIdle
    <3>5. bind.session \in keys' /\ \A t \in Sessions : t \in keys => t \in keys'
      BY <2>3
    <3> QED
      BY <2>1, <3>2, <3>3, <3>4, <3>5, EditKeeps
  <2> QED
    BY <1>0, <1>16, <2>2, <2>3, BindCaptureDoes
<1>17. CASE bind_finish
  <2>1. UNCHANGED <<pend, pcount, quar, qcount>> /\ bind.pc = "finish"
    BY <1>17 DEF bind_finish
  <2>2. bind'.pc # "capture"
    BY <1>0, <1>17, SmallFacts DEF bind_finish, BindIdle
  <2>3. \A s \in Sessions : pend[s] # <<>> /\ s \in keys => s \in keys'
    BY <1>17 DEF bind_finish
  <2> QED
    BY <2>1, <2>2, <2>3, UncountedKeeps DEF Uncounted, SameEntries, InHand
<1>18. ASSUME NEW s \in Sessions, begin_capture_operation(s) \/ response_arrives(s) \/ take_capture_failure(s)
       PROVE  Uncounted
  BY <1>18 DEF begin_capture_operation, response_arrives, take_capture_failure, cap, queues,
     Uncounted, SameEntries, InHand
<1>19. CASE remove_agent_state
  <2>1. pcount' = pcount - Held(pend)
    <3>1. pcount' = pcount - MapThenSumSet(LAMBDA s : Len(pend[s]), Sessions)
      BY <1>0, <1>19, RemoveDoes, Zenon
    <3>2. MapThenSumSet(LAMBDA s : Len(pend[s]), Sessions) = Held(pend)
      BY <1>0, FoldIs, Zenon
    <3> QED
      BY <3>1, <3>2, Zenon
  <2>2. /\ quar' = NoQuar /\ pend' = [s \in Sessions |-> <<>>] /\ UNCHANGED bind
        /\ qcount' = qcount - Len(quar.entries) /\ bind.pc = "idle"
    BY <1>0, <1>19, RemoveDoes, Zenon
  <2>3. pcount' = 0 /\ qcount' = 0
    BY <1>0, <2>1, <2>2 DEF QuotaKept
  <2>4. Held(pend') = 0
    <3>1. \A s \in Sessions : Lens(pend')[s] = 0
      BY <2>2 DEF Lens
    <3> QED
      BY <3>1, SessionsFinite, SumOfZeros DEF Held
  <2>5. Len(quar'.entries) = 0
    BY <2>2, EmptySeq DEF NoQuar
  <2> QED
    BY <1>0, <2>2, <2>3, <2>4, <2>5 DEF QuotaKept, InHand
<1>20. CASE UNCHANGED vars
  <2>1. Uncounted
    BY <1>20 DEF vars, cap, queues, Uncounted, SameEntries, InHand
  <2> QED
    BY <2>1, UncountedKeeps
<1>21. CASE record_session_creation_capture_failure \/ record_refusal \/ record_replay_failure
  <2>1. Uncounted
    BY <1>0, <1>21, RecordDoes DEF queues, Uncounted, SameEntries, InHand
  <2> QED
    BY <2>1, UncountedKeeps
<1> QED
  BY <1>1, <1>2, <1>3, <1>4, <1>5, <1>6, <1>7, <1>8, <1>9, <1>10, <1>12, <1>13, <1>14, <1>15,
     <1>16, <1>17, <1>18, <1>19, <1>20, <1>21, UncountedKeeps DEF Next, Handler, Creator, Binder, Turn

LEMMA QuotaMeans ==
  ASSUME QuotaInv
  PROVE  CaptureInv
<1>1. CaptureTypeOK
  BY QuotaNats DEF QuotaInv, HoldInv, TurnTypes, FlagTypes, NumTypes, SeqTypes, CaptureTypeOK
<1>2. QuotaExact
  <2>1. MapThenSumSet(LAMBDA s : Len(pend[s]), Sessions) = Held(pend)
    BY QuotaNats, FoldIs, Zenon
  <2>2. pcount = Held(pend) /\ qcount = Len(quar.entries) /\ \A s \in Sessions : pend[s] # <<>> => s \in keys
    BY DEF QuotaInv, QuotaKept
  <2>3. pcount + qcount <= MaxPending + 1
    BY QuotaNats DEF QuotaInv, QuotaKept
  <2> QED
    BY <2>1, <2>2, <2>3, Zenon DEF QuotaExact
<1> QED
  BY <1>1, <1>2 DEF CaptureInv

LEMMA QuotaStarts ==
  ASSUME Init
  PROVE  QuotaInv
<1>1. HoldInv /\ TurnInv
  BY HoldStarts
<1>2. QuotaKept
  <2>1. Held(pend) = 0
    <3>1. \A s \in Sessions : Lens(pend)[s] = 0
      BY DEF Init, Lens
    <3> QED
      BY <3>1, SessionsFinite, SumOfZeros DEF Held
  <2>2. pcount = 0 /\ qcount = 0 /\ Len(quar.entries) = 0 /\ bind.pc = "idle" /\ MaxPending \in Nat
    BY Limits, EmptySeq DEF Init, NoQuar, BindIdle
  <2> QED
    BY <2>1, <2>2 DEF Init, QuotaKept, InHand
<1> QED
  BY <1>1, <1>2 DEF QuotaInv

(* The counters that every quota is decided on are the lengths of what the *)
(* queues and the quarantine hold (callbacks/capture.rs), through the      *)
(* hand-over of a finished quarantine, the binder's pops and the entry a   *)
(* failed bind returns; that entry is the only excess over the limit.      *)
THEOREM QuotasAreExact == Spec => []CaptureInv
<1>1. Init => QuotaInv
  BY QuotaStarts
<1>2. QuotaInv /\ [Next]_vars => QuotaInv'
  BY HoldStep, TurnStep, QuotaStep DEF QuotaInv, HoldInv
<1>3. QuotaInv => CaptureInv
  BY QuotaMeans
<1> QED
  BY <1>1, <1>2, <1>3, PTL DEF Spec

-----------------------------------------------------------------------------
(***************************************************************************)
(* Every accepted update is in one place.  How often it occurs in each:    *)
(***************************************************************************)
InQueue(s, u)  == occurrences(pend[s], u)
InStore(s, u)  == occurrences(stored[s], u)
InQuar(s, u)   == occurrences(quar.entries, [session |-> s, u |-> u])
InReplay(s, u) == occurrences(make.replay, [session |-> s, u |-> u])
InBinder(s, u) == IF bind.session = s /\ bind.u = u THEN 1 ELSE 0
Discarded(s, u) == IF u \in dropped \cap ToSet(accepted[s]) THEN 1 ELSE 0
Taken(s, u)    == IF u \in ToSet(accepted[s]) THEN 1 ELSE 0
Balanced(s, u) ==
  InQueue(s, u) + InStore(s, u) + InQuar(s, u) + InReplay(s, u) + InBinder(s, u)
  + Discarded(s, u) = Taken(s, u)

(* The agent numbers its updates: the one in the handler is the latest and *)
(* nobody has accepted it, no two sessions accepted the same, and what was *)
(* discarded had been accepted.                                            *)
Numbered ==
  /\ \A s \in Sessions : \A u \in ToSet(accepted[s]) : u <= last
  /\ hand.pc # "idle" => hand.u = last /\ \A s \in Sessions : last \notin ToSet(accepted[s])
  /\ \A s, t \in Sessions : ToSet(accepted[s]) \cap ToSet(accepted[t]) # {} => s = t
  /\ \A u \in dropped : \E s \in Sessions : u \in ToSet(accepted[s])

OnceInv == HoldInv /\ Numbered /\ UpdatesExactlyOnce

LEMMA AllBalanced ==
  UpdatesExactlyOnce <=> \A s \in Sessions : \A u \in 1..MaxUpdates : Balanced(s, u)
  BY DEF UpdatesExactlyOnce, places, Balanced, InQueue, InStore, InQuar, InReplay, InBinder,
     Discarded, Taken

LEMMA AllBalancedNext ==
  UpdatesExactlyOnce' <=> \A s \in Sessions : \A u \in 1..MaxUpdates : Balanced(s, u)'
  BY DEF UpdatesExactlyOnce, places, Balanced, InQueue, InStore, InQuar, InReplay, InBinder,
     Discarded, Taken

LEMMA OnceTypes ==
  ASSUME OnceInv
  PROVE  /\ HoldInv /\ SeqTypes /\ HoldersPlaced
         /\ quar.entries \in Seq(Entry) /\ make.replay \in Seq(Entry)
         /\ \A s \in Sessions : /\ pend[s] \in Seq(1..MaxUpdates) /\ stored[s] \in Seq(1..MaxUpdates)
                                /\ accepted[s] \in Seq(1..MaxUpdates)
  BY DEF OnceInv, HoldInv, SeqTypes, Updates

LEMMA Counts ==
  ASSUME OnceInv, NEW s \in Sessions, NEW u \in 1..MaxUpdates
  PROVE  /\ InQueue(s, u) \in Nat /\ InStore(s, u) \in Nat /\ InQuar(s, u) \in Nat
         /\ InReplay(s, u) \in Nat /\ InBinder(s, u) \in {0, 1} /\ Discarded(s, u) \in {0, 1}
         /\ Taken(s, u) \in {0, 1} /\ Balanced(s, u)
<1>1. InQueue(s, u) \in Nat /\ InStore(s, u) \in Nat
  BY OnceTypes, OccSet DEF InQueue, InStore
<1>2. InQuar(s, u) \in Nat /\ InReplay(s, u) \in Nat
  BY OnceTypes, OccSet DEF InQuar, InReplay
<1>3. Balanced(s, u)
  BY AllBalanced DEF OnceInv
<1> QED
  BY <1>1, <1>2, <1>3 DEF InBinder, Discarded, Taken

(* An update that is held anywhere was accepted, and is nowhere else.      *)
LEMMA HeldOnce ==
  ASSUME OnceInv, NEW s \in Sessions, NEW u \in 1..MaxUpdates,
         \/ InQueue(s, u) # 0 \/ InStore(s, u) # 0 \/ InQuar(s, u) # 0 \/ InReplay(s, u) # 0
         \/ InBinder(s, u) # 0
  PROVE  /\ Taken(s, u) = 1 /\ u \in ToSet(accepted[s])
         /\ InQueue(s, u) + InStore(s, u) + InQuar(s, u) + InReplay(s, u) + InBinder(s, u) = 1
         /\ Discarded(s, u) = 0 /\ u \notin dropped
         /\ \A t \in Sessions : u \in ToSet(accepted[t]) => t = s
<1>1. /\ Taken(s, u) = 1 /\ Discarded(s, u) = 0
      /\ InQueue(s, u) + InStore(s, u) + InQuar(s, u) + InReplay(s, u) + InBinder(s, u) = 1
  <2>1. PICK a, b, c, d, e, f, g : /\ a = InQueue(s, u) /\ b = InStore(s, u) /\ c = InQuar(s, u)
             /\ d = InReplay(s, u) /\ e = InBinder(s, u) /\ f = Discarded(s, u) /\ g = Taken(s, u)
    OBVIOUS
  <2>2. /\ a \in Nat /\ b \in Nat /\ c \in Nat /\ d \in Nat /\ e \in {0, 1} /\ f \in {0, 1} /\ g \in {0, 1}
        /\ a + b + c + d + e + f = g
    BY <2>1, Counts DEF Balanced
  <2>3. a # 0 \/ b # 0 \/ c # 0 \/ d # 0 \/ e # 0
    BY <2>1
  <2>4. g = 1 /\ f = 0 /\ a + b + c + d + e = 1
    BY <2>2, <2>3
  <2> QED
    BY <2>1, <2>4
<1>2. u \in ToSet(accepted[s])
  BY <1>1 DEF Taken
<1>3. u \notin dropped
  BY <1>1, <1>2 DEF Discarded
<1>4. \A t \in Sessions : u \in ToSet(accepted[t]) => t = s
  BY <1>2 DEF OnceInv, Numbered
<1> QED
  BY <1>1, <1>2, <1>3, <1>4

LEMMA QueuedIs ==
  ASSUME OnceInv, NEW s \in Sessions, NEW u \in ToSet(pend[s])
  PROVE  u \in 1..MaxUpdates /\ InQueue(s, u) # 0
<1>1. pend[s] \in Seq(1..MaxUpdates)
  BY OnceTypes
<1>2. occurrences(pend[s], u) # 0
  BY <1>1, OccIn
<1>3. DOMAIN pend[s] = 1..Len(pend[s]) /\ \A i \in 1..Len(pend[s]) : pend[s][i] \in 1..MaxUpdates
  BY <1>1, LenProperties, ElementOfSeq
<1> QED
  BY <1>2, <1>3 DEF InQueue, ToSet

(* What does not change what a place holds does not change its count.      *)
LEMMA SameCounts ==
  ASSUME NEW s \in Sessions, NEW u \in 1..MaxUpdates
  PROVE  /\ UNCHANGED pend => InQueue(s, u)' = InQueue(s, u)
         /\ UNCHANGED stored => InStore(s, u)' = InStore(s, u)
         /\ SameEntries => InQuar(s, u)' = InQuar(s, u)
         /\ SameReplay => InReplay(s, u)' = InReplay(s, u)
         /\ SameBind => InBinder(s, u)' = InBinder(s, u)
         /\ UNCHANGED accepted => Taken(s, u)' = Taken(s, u)
         /\ UNCHANGED <<dropped, accepted>> => Discarded(s, u)' = Discarded(s, u)
<1>1. u # 0
  OBVIOUS
<1> QED
  BY <1>1 DEF InQueue, InStore, InQuar, InReplay, InBinder, Taken, Discarded,
     SameEntries, SameReplay, SameBind

(* The counts of a queue that gains an update.                             *)
LEMMA OccGrows ==
  ASSUME NEW q \in Seq(1..MaxUpdates), NEW v \in 1..MaxUpdates, NEW u
  PROVE  /\ occurrences(Append(q, v), u) = occurrences(q, u) + (IF v = u THEN 1 ELSE 0)
         /\ occurrences(<<v>> \o q, u) = (IF v = u THEN 1 ELSE 0) + occurrences(q, u)
<1>1. PICK X : X = 1..MaxUpdates
  OBVIOUS
<1>2. q \in Seq(X) /\ v \in X
  BY <1>1
<1> QED
  BY <1>2, OccAppend, OccFront

(* Quiet steps and new updates leave every count alone, ...                *)
LEMMA QuietBalanced ==
  ASSUME OnceInv, Quiet \/ Sends, NEW s \in Sessions, NEW u \in 1..MaxUpdates
  PROVE  Balanced(s, u)'
<1>1. UNCHANGED <<pend, stored, accepted, dropped>> /\ SameEntries /\ SameReplay /\ SameBind
  BY DEF Quiet, Sends, SameTaken
<1>2. Balanced(s, u)
  BY Counts
<1> QED
  BY <1>1, <1>2, SameCounts DEF Balanced

(* ... an accepted update enters one place, ...                            *)
LEMMA AcceptBalanced ==
  ASSUME OnceInv, Accepts, NEW s \in Sessions, NEW u \in 1..MaxUpdates
  PROVE  Balanced(s, u)'
<1> DEFINE h == hand.session
           v == hand.u
           new == IF s = h /\ u = v THEN 1 ELSE 0
<1>1. /\ h \in Sessions /\ v \in 1..MaxUpdates
      /\ \A t \in Sessions : v \notin ToSet(accepted[t])
      /\ accepted' = [accepted EXCEPT ![h] = Append(@, v)]
      /\ UNCHANGED dropped /\ SameReplay /\ SameBind
  <2>1. h \in Sessions /\ hand.pc # "idle" /\ UNCHANGED dropped /\ SameReplay /\ SameBind
        /\ accepted' = [accepted EXCEPT ![h] = Append(@, v)]
    BY DEF Accepts
  <2>2. v \in 1..MaxUpdates
    BY <2>1, OnceTypes, Limits DEF SeqTypes, HoldersPlaced
  <2>3. \A t \in Sessions : v \notin ToSet(accepted[t])
    BY <2>1 DEF OnceInv, Numbered
  <2> QED
    BY <2>1, <2>2, <2>3
<1>2. /\ accepted[h] \in Seq(1..MaxUpdates) /\ pend[h] \in Seq(1..MaxUpdates)
      /\ stored[h] \in Seq(1..MaxUpdates)
      /\ DOMAIN accepted = Sessions /\ DOMAIN pend = Sessions /\ DOMAIN stored = Sessions
  BY <1>1, OnceTypes DEF SeqTypes
<1>3. [session |-> h, u |-> v] \in Entry
      /\ ([session |-> h, u |-> v] = [session |-> s, u |-> u] <=> s = h /\ u = v)
  BY <1>1 DEF Entry
<1> HIDE DEF h, v
<1>4. u \in ToSet(accepted[s])' <=> u \in ToSet(accepted[s]) \/ (s = h /\ u = v)
  <2>1. CASE s # h
    <3>1. accepted'[s] = accepted[s]
      BY <1>1, <1>2, <2>1
    <3> QED
      BY <2>1, <3>1
  <2>2. CASE s = h
    <3>1. accepted'[h] = Append(accepted[h], v)
      BY <1>1, <1>2
    <3>2. Append(accepted[h], v) \in Seq(1..MaxUpdates)
      BY <1>1, <1>2, AppendProperties
    <3>3. occurrences(Append(accepted[h], v), u) = occurrences(accepted[h], u) + (IF v = u THEN 1 ELSE 0)
      BY <1>1, <1>2, OccGrows
    <3>4. occurrences(accepted[h], u) \in Nat
      BY <1>2, OccSet
    <3>5. /\ u \in ToSet(accepted[h]) <=> occurrences(accepted[h], u) # 0
          /\ u \in ToSet(Append(accepted[h], v)) <=> occurrences(Append(accepted[h], v), u) # 0
      BY <1>2, <3>2, OccIn
    <3>6. u \in ToSet(Append(accepted[h], v)) <=> u \in ToSet(accepted[h]) \/ u = v
      BY <3>3, <3>4, <3>5
    <3> QED
      BY <2>2, <3>1, <3>6
  <2> QED
    BY <2>1, <2>2
<1>5. v \notin dropped
  BY <1>1 DEF OnceInv, Numbered
<1>6. Taken(s, u)' = Taken(s, u) + new /\ Discarded(s, u)' = Discarded(s, u)
  BY <1>1, <1>4, <1>5 DEF Taken, Discarded
<1>7. InReplay(s, u)' = InReplay(s, u) /\ InBinder(s, u)' = InBinder(s, u)
  BY <1>1, SameCounts
<1>8. \/ /\ InQueue(s, u)' = InQueue(s, u) + new /\ InStore(s, u)' = InStore(s, u)
         /\ InQuar(s, u)' = InQuar(s, u)
      \/ /\ InQueue(s, u)' = InQueue(s, u) /\ InStore(s, u)' = InStore(s, u) + new
         /\ InQuar(s, u)' = InQuar(s, u)
      \/ /\ InQueue(s, u)' = InQueue(s, u) /\ InStore(s, u)' = InStore(s, u)
         /\ InQuar(s, u)' = InQuar(s, u) + new
  <2>1. CASE Entered
    <3>1. quar'.entries = Append(quar.entries, [session |-> h, u |-> v])
      BY <2>1 DEF Entered, h, v
    <3>2. InQuar(s, u)' = InQuar(s, u) + new
      BY <1>3, <3>1, OnceTypes, OccAppend DEF InQuar
    <3> QED
      BY <2>1, <3>2, SameCounts DEF Entered
  <2>2. CASE Queued
    <3>1. pend' = [pend EXCEPT ![h] = Append(@, v)]
      BY <2>2 DEF Queued, h, v
    <3>2. InQueue(s, u)' = InQueue(s, u) + new
      <4>1. occurrences(Append(pend[h], v), u) = occurrences(pend[h], u) + (IF v = u THEN 1 ELSE 0)
        BY <1>1, <1>2, OccGrows
      <4>2. InQueue(s, u) \in Nat
        BY Counts
      <4> QED
        BY <1>2, <3>1, <4>1, <4>2 DEF InQueue
    <3> QED
      BY <2>2, <3>2, SameCounts DEF Queued
  <2>3. CASE Stored
    <3>1. stored' = [stored EXCEPT ![h] = Append(@, v)]
      BY <2>3 DEF Stored, h, v
    <3>2. InStore(s, u)' = InStore(s, u) + new
      <4>1. occurrences(Append(stored[h], v), u) = occurrences(stored[h], u) + (IF v = u THEN 1 ELSE 0)
        BY <1>1, <1>2, OccGrows
      <4>2. InStore(s, u) \in Nat
        BY Counts
      <4> QED
        BY <1>2, <3>1, <4>1, <4>2 DEF InStore
    <3> QED
      BY <2>3, <3>2, SameCounts DEF Stored
  <2> QED
    BY <2>1, <2>2, <2>3 DEF Accepts
<1>9. new \in {0, 1}
  OBVIOUS
<1> HIDE DEF new
<1> QED
  BY <1>6, <1>7, <1>8, <1>9, Counts DEF Balanced

(* ... the binder takes one out of a queue, ...                            *)
LEMMA PopBalanced ==
  ASSUME OnceInv, Pops, NEW s \in Sessions, NEW u \in 1..MaxUpdates
  PROVE  Balanced(s, u)'
<1>1. /\ bind.session \in Sessions /\ pend[bind.session] # <<>> /\ bind.u = 0
      /\ pend' = [pend EXCEPT ![bind.session] = Tail(@)]
      /\ bind'.u = Head(pend[bind.session]) /\ bind'.session = bind.session
      /\ UNCHANGED <<stored, accepted, dropped>> /\ SameEntries /\ SameReplay
  BY DEF Pops, SameTaken
<1>2. pend[bind.session] \in Seq(1..MaxUpdates) /\ DOMAIN pend = Sessions
  BY <1>1, OnceTypes DEF SeqTypes
<1>3. occurrences(pend[bind.session], u)
        = (IF Head(pend[bind.session]) = u THEN 1 ELSE 0) + occurrences(Tail(pend[bind.session]), u)
  BY <1>1, <1>2, OccHead
<1>4. occurrences(Tail(pend[bind.session]), u) \in Nat
  <2>1. Tail(pend[bind.session]) \in Seq(1..MaxUpdates)
    BY <1>1, <1>2, HeadTailProperties
  <2> QED
    BY <2>1, OccSet
<1>5. InQueue(s, u)' + InBinder(s, u)' = InQueue(s, u) + InBinder(s, u) /\ InQueue(s, u)' \in Nat
  <2>1. CASE s = bind.session
    <3>1. /\ InQueue(s, u)' = occurrences(Tail(pend[bind.session]), u)
          /\ InBinder(s, u)' = (IF Head(pend[bind.session]) = u THEN 1 ELSE 0)
          /\ InQueue(s, u) = occurrences(pend[bind.session], u)
          /\ InBinder(s, u) = 0
      BY <1>1, <1>2, <2>1 DEF InQueue, InBinder
    <3> QED
      BY <1>3, <1>4, <3>1
  <2>2. CASE s # bind.session
    <3>1. InQueue(s, u)' = InQueue(s, u) /\ InBinder(s, u)' = 0 /\ InBinder(s, u) = 0
      BY <1>1, <1>2, <2>2 DEF InQueue, InBinder
    <3> QED
      BY <3>1, Counts
  <2> QED
    BY <2>1, <2>2
<1>6. InBinder(s, u)' \in {0, 1}
  BY DEF InBinder
<1>7. /\ InStore(s, u)' = InStore(s, u) /\ InQuar(s, u)' = InQuar(s, u)
      /\ InReplay(s, u)' = InReplay(s, u) /\ Discarded(s, u)' = Discarded(s, u)
      /\ Taken(s, u)' = Taken(s, u)
  BY <1>1, SameCounts
<1> QED
  BY <1>5, <1>6, <1>7, Counts DEF Balanced

(* ... stores it or puts it back, ...                                      *)
LEMMA BindEndBalanced ==
  ASSUME OnceInv, BindEnds, NEW s \in Sessions, NEW u \in 1..MaxUpdates
  PROVE  Balanced(s, u)'
<1> DEFINE b == bind.session
           v == bind.u
           new == IF s = b /\ u = v THEN 1 ELSE 0
<1>1. /\ b \in Sessions /\ v \in 1..MaxUpdates /\ bind'.u = 0
      /\ \/ stored' = [stored EXCEPT ![b] = Append(@, v)] /\ UNCHANGED pend
         \/ pend' = [pend EXCEPT ![b] = <<v>> \o @] /\ UNCHANGED stored
      /\ UNCHANGED <<accepted, dropped>> /\ SameEntries /\ SameReplay
  <2>1. v \in 1..MaxUpdates
    BY OnceTypes, Limits DEF BindEnds, SeqTypes
  <2> QED
    BY <2>1 DEF BindEnds, SameTaken
<1>2. /\ pend[b] \in Seq(1..MaxUpdates) /\ stored[b] \in Seq(1..MaxUpdates)
      /\ DOMAIN pend = Sessions /\ DOMAIN stored = Sessions
  BY <1>1, OnceTypes DEF SeqTypes
<1>3. InBinder(s, u) = new /\ InBinder(s, u)' = 0 /\ new \in {0, 1}
  <2>1. u # 0
    OBVIOUS
  <2> QED
    BY <1>1, <2>1 DEF InBinder
<1> HIDE DEF b, v
<1>4. \/ InQueue(s, u)' = InQueue(s, u) /\ InStore(s, u)' = InStore(s, u) + new
      \/ InQueue(s, u)' = new + InQueue(s, u) /\ InStore(s, u)' = InStore(s, u)
  <2>1. CASE stored' = [stored EXCEPT ![b] = Append(@, v)] /\ UNCHANGED pend
    <3>1. occurrences(Append(stored[b], v), u) = occurrences(stored[b], u) + (IF v = u THEN 1 ELSE 0)
      BY <1>1, <1>2, OccGrows
    <3>2. InStore(s, u) \in Nat
      BY Counts
    <3>3. InStore(s, u)' = InStore(s, u) + new
      BY <1>2, <2>1, <3>1, <3>2 DEF InStore
    <3> QED
      BY <2>1, <3>3, SameCounts
  <2>2. CASE pend' = [pend EXCEPT ![b] = <<v>> \o @] /\ UNCHANGED stored
    <3>1. occurrences(<<v>> \o pend[b], u) = (IF v = u THEN 1 ELSE 0) + occurrences(pend[b], u)
      BY <1>1, <1>2, OccGrows
    <3>2. InQueue(s, u) \in Nat
      BY Counts
    <3>3. InQueue(s, u)' = new + InQueue(s, u)
      BY <1>2, <2>2, <3>1, <3>2 DEF InQueue
    <3> QED
      BY <2>2, <3>3, SameCounts
  <2> QED
    BY <1>1, <2>1, <2>2
<1>5. /\ InQuar(s, u)' = InQuar(s, u) /\ InReplay(s, u)' = InReplay(s, u)
      /\ Discarded(s, u)' = Discarded(s, u) /\ Taken(s, u)' = Taken(s, u)
  BY <1>1, SameCounts
<1> HIDE DEF new
<1> QED
  BY <1>3, <1>4, <1>5, Counts DEF Balanced

(* ... a replayed entry is stored or discarded, ...                        *)
LEMMA ReplayBalanced ==
  ASSUME OnceInv, Replays, NEW s \in Sessions, NEW u \in 1..MaxUpdates
  PROVE  Balanced(s, u)'
<1>1. PICK e : e = Head(make.replay)
  OBVIOUS
<1>2. /\ make.replay # <<>> /\ make'.replay = Tail(make.replay)
      /\ UNCHANGED <<pend, accepted>> /\ SameEntries /\ SameBind
      /\ \/ stored' = [stored EXCEPT ![e.session] = Append(@, e.u)] /\ UNCHANGED dropped
         \/ dropped' = dropped \cup {e.u} /\ UNCHANGED stored
  BY <1>1 DEF Replays, SameTaken
<1>3. /\ make.replay \in Seq(Entry) /\ DOMAIN stored = Sessions
      /\ \A t \in Sessions : stored[t] \in Seq(1..MaxUpdates)
  BY OnceTypes DEF SeqTypes
<1>4. /\ e \in Entry /\ Tail(make.replay) \in Seq(Entry)
      /\ \A x : occurrences(make.replay, x)
                  = (IF e = x THEN 1 ELSE 0) + occurrences(Tail(make.replay), x)
  BY <1>1, <1>2, <1>3, OccHead
<1>5. /\ e.session \in Sessions /\ e.u \in 1..MaxUpdates
      /\ (e = [session |-> s, u |-> u] <=> e.session = s /\ e.u = u)
      /\ e = [session |-> e.session, u |-> e.u]
  BY <1>4 DEF Entry
<1> DEFINE new == IF e = [session |-> s, u |-> u] THEN 1 ELSE 0
<1>6. InReplay(s, u) = new + InReplay(s, u)' /\ InReplay(s, u)' \in Nat /\ new \in {0, 1}
  <2>1. occurrences(Tail(make.replay), [session |-> s, u |-> u]) \in Nat
    BY <1>4, OccSet
  <2> QED
    BY <1>2, <1>4, <2>1 DEF InReplay
<1>7. InReplay(e.session, e.u) # 0
  <2>1. occurrences(make.replay, e) = 1 + occurrences(Tail(make.replay), e)
    BY <1>4
  <2>2. occurrences(Tail(make.replay), e) \in Nat
    BY <1>4, OccSet
  <2>3. occurrences(make.replay, e) # 0
    BY <2>1, <2>2
  <2> QED
    BY <1>5, <2>3 DEF InReplay
<1>8. /\ e.u \in ToSet(accepted[e.session]) /\ e.u \notin dropped
      /\ \A t \in Sessions : e.u \in ToSet(accepted[t]) => t = e.session
  BY <1>5, <1>7, HeldOnce
<1>9. \/ InStore(s, u)' = InStore(s, u) + new /\ Discarded(s, u)' = Discarded(s, u)
      \/ InStore(s, u)' = InStore(s, u) /\ Discarded(s, u)' = Discarded(s, u) + new
  <2>1. CASE stored' = [stored EXCEPT ![e.session] = Append(@, e.u)] /\ UNCHANGED dropped
    <3>1. occurrences(Append(stored[e.session], e.u), u)
            = occurrences(stored[e.session], u) + (IF e.u = u THEN 1 ELSE 0)
      <4>1. stored[e.session] \in Seq(1..MaxUpdates) /\ e.u \in 1..MaxUpdates
        BY <1>3, <1>5
      <4> QED
        BY <4>1, OccGrows
    <3>2. InStore(s, u) \in Nat
      BY Counts
    <3>3. InStore(s, u)' = InStore(s, u) + new
      BY <1>3, <1>5, <2>1, <3>1, <3>2 DEF InStore
    <3> QED
      BY <1>2, <2>1, <3>3, SameCounts
  <2>2. CASE dropped' = dropped \cup {e.u} /\ UNCHANGED stored
    <3>1. Discarded(s, u)' = Discarded(s, u) + new
      BY <1>2, <1>5, <1>8, <2>2 DEF Discarded
    <3> QED
      BY <2>2, <3>1, SameCounts
  <2> QED
    BY <1>2, <2>1, <2>2
<1>10. /\ InQueue(s, u)' = InQueue(s, u) /\ InQuar(s, u)' = InQuar(s, u)
       /\ InBinder(s, u)' = InBinder(s, u) /\ Taken(s, u)' = Taken(s, u)
  BY <1>2, SameCounts
<1> HIDE DEF new
<1> QED
  BY <1>6, <1>9, <1>10, Counts DEF Balanced

(* The entries of a finished quarantine that match the new session, and    *)
(* the ones that do not.                                                   *)
LEMMA Matched ==
  ASSUME OnceInv, NEW u
  PROVE  /\ matching \in Seq(1..MaxUpdates)
         /\ occurrences(matching, u) = occurrences(of_sessions(quar.entries, {make.session}),
                                                   [session |-> make.session, u |-> u])
<1> DEFINE es == of_sessions(quar.entries, {make.session})
<1>1. es \in Seq(Entry) /\ \A i \in 1..Len(es) : es[i].session = make.session
  BY OnceTypes, LoopTakes DEF Takes
<1>2. updates(es) \in Seq(1..MaxUpdates)
  BY <1>1, UpdatesAre DEF Updates
<1>3. occurrences(updates(es), u) = occurrences(es, [session |-> make.session, u |-> u])
  BY <1>1, UpdatesOcc
<1> QED
  BY <1>2, <1>3 DEF matching

LEMMA MatchedIs ==
  ASSUME OnceInv, NEW u \in ToSet(matching)
  PROVE  make.session \in Sessions /\ u \in 1..MaxUpdates /\ InQuar(make.session, u) # 0
<1> DEFINE es == of_sessions(quar.entries, {make.session})
           e == [session |-> make.session, u |-> u]
<1>1. occurrences(es, e) # 0
  BY Matched, OccIn
<1>2. es \in Seq(Entry)
  BY OnceTypes, LoopTakes DEF Takes
<1>3. e \in Entry
  <2>1. e \in ToSet(es)
    BY <1>1, <1>2, OccIn
  <2>2. DOMAIN es = 1..Len(es) /\ \A i \in 1..Len(es) : es[i] \in Entry
    BY <1>2, LenProperties, ElementOfSeq
  <2> HIDE DEF es, e
  <2> QED
    BY <2>1, <2>2 DEF ToSet
<1>4. make.session \in Sessions /\ u \in 1..MaxUpdates
  BY <1>3 DEF Entry
<1>5. occurrences(es, e) = occurrences(quar.entries, e)
  BY <1>3, OnceTypes, LoopTakes DEF Takes
<1> QED
  BY <1>1, <1>4, <1>5 DEF InQuar

(* ... a finished quarantine is handed over, ...                           *)
LEMMA FinishBalanced ==
  ASSUME OnceInv, Finishes, NEW s \in Sessions, NEW u \in 1..MaxUpdates
  PROVE  Balanced(s, u)'
<1> DEFINE m == make.session
           e == [session |-> s, u |-> u]
           here == IF s = m THEN InQuar(s, u) ELSE 0
<1>1. /\ UNCHANGED <<stored, accepted>> /\ SameBind
      /\ make.replay = <<>> /\ quar'.entries = <<>>
      /\ make'.replay = of_sessions(quar.entries, Sessions \ {m})
  BY DEF Finishes, SameTaken
<1>2. e \in Entry /\ e.session = s
  BY DEF Entry
<1>3. InQuar(s, u)' = 0 /\ InReplay(s, u) = 0
  BY <1>1, OccEmpty DEF InQuar, InReplay
<1>4. InReplay(s, u)' = IF s = m THEN 0 ELSE InQuar(s, u)
  <2>1. occurrences(of_sessions(quar.entries, Sessions \ {m}), e)
          = IF e.session \in Sessions \ {m} THEN occurrences(quar.entries, e) ELSE 0
    BY <1>2, OnceTypes, LoopTakes DEF Takes
  <2> QED
    BY <1>1, <1>2, <2>1 DEF InReplay, InQuar
<1>5. m = s => occurrences(matching, u) = InQuar(s, u)
  <2>1. occurrences(of_sessions(quar.entries, {m}), e)
          = IF e.session \in {m} THEN occurrences(quar.entries, e) ELSE 0
    BY <1>2, OnceTypes, LoopTakes DEF Takes
  <2> QED
    BY <1>2, <2>1, Matched DEF InQuar
<1>6. \/ InQueue(s, u)' = InQueue(s, u) + here /\ Discarded(s, u)' = Discarded(s, u)
      \/ InQueue(s, u)' = InQueue(s, u) /\ Discarded(s, u)' = Discarded(s, u) + here
  <2>1. CASE /\ m \in Sessions /\ UNCHANGED dropped
             /\ pend' = [pend EXCEPT ![m] = @ \o matching]
    <3>1. pend[m] \in Seq(1..MaxUpdates) /\ DOMAIN pend = Sessions /\ matching \in Seq(1..MaxUpdates)
      BY <2>1, OnceTypes, Matched DEF SeqTypes
    <3>2. occurrences(pend[m] \o matching, u) = occurrences(pend[m], u) + occurrences(matching, u)
      BY <3>1, OccConcat
    <3>3. pend'[s] = IF s = m THEN pend[m] \o matching ELSE pend[s]
      BY <2>1, <3>1
    <3>4. InQueue(s, u)' = InQueue(s, u) + here
      <4>1. CASE s = m
        BY <1>5, <3>2, <3>3, <4>1 DEF InQueue
      <4>2. CASE s # m
        <5>1. InQueue(s, u)' = InQueue(s, u)
          BY <3>3, <4>2 DEF InQueue
        <5> QED
          BY <4>2, <5>1, Counts
      <4> QED
        BY <4>1, <4>2
    <3> QED
      BY <1>1, <2>1, <3>4, SameCounts
  <2>2. CASE dropped' = dropped \cup ToSet(matching) /\ UNCHANGED pend
    <3>1. matching \in Seq(1..MaxUpdates)
      BY Matched
    <3>2. CASE s = m
      <4>1. u \in ToSet(matching) <=> InQuar(s, u) # 0
        BY <1>5, <3>1, <3>2, OccIn
      <4>2. CASE InQuar(s, u) = 0
        <5>1. Discarded(s, u)' = Discarded(s, u) /\ here = 0
          BY <1>1, <2>2, <3>2, <4>1, <4>2 DEF Discarded
        <5> QED
          BY <2>2, <5>1, Counts, SameCounts
      <4>3. CASE InQuar(s, u) # 0
        <5>1. /\ u \in ToSet(accepted[s]) /\ Discarded(s, u) = 0
              /\ InQueue(s, u) + InStore(s, u) + InQuar(s, u) + InReplay(s, u) + InBinder(s, u) = 1
          BY <4>3, HeldOnce
        <5>2. InQuar(s, u) = 1
          BY <4>3, <5>1, Counts
        <5>3. Discarded(s, u)' = 1
          BY <1>1, <2>2, <4>1, <4>3, <5>1 DEF Discarded
        <5> QED
          BY <2>2, <3>2, <5>1, <5>2, <5>3, SameCounts
      <4> QED
        BY <4>2, <4>3
    <3>3. CASE s # m
      <4>1. u \in ToSet(matching) => u \notin ToSet(accepted[s])
        <5> SUFFICES ASSUME u \in ToSet(matching) PROVE u \notin ToSet(accepted[s])
          OBVIOUS
        <5>1. m \in Sessions /\ InQuar(m, u) # 0
          BY MatchedIs
        <5>2. \A t \in Sessions : u \in ToSet(accepted[t]) => t = m
          BY <5>1, HeldOnce
        <5> QED
          BY <3>3, <5>2
      <4>2. Discarded(s, u)' = Discarded(s, u)
        BY <1>1, <2>2, <4>1 DEF Discarded
      <4> QED
        BY <2>2, <3>3, <4>2, Counts, SameCounts
    <3> QED
      BY <3>2, <3>3
  <2> QED
    BY <2>1, <2>2 DEF Finishes
<1>7. /\ InStore(s, u)' = InStore(s, u) /\ InBinder(s, u)' = InBinder(s, u)
      /\ Taken(s, u)' = Taken(s, u)
  BY <1>1, SameCounts
<1>8. here + InReplay(s, u)' = InQuar(s, u) /\ here \in Nat /\ InReplay(s, u)' \in Nat
  BY <1>4, Counts
<1> HIDE DEF here
<1> QED
  BY <1>3, <1>6, <1>7, <1>8, Counts DEF Balanced

(* ... and a queue that goes with its binding is discarded.                *)
LEMMA EmptyBalanced ==
  ASSUME OnceInv, NEW S \in SUBSET Sessions, Empties(S), NEW s \in Sessions, NEW u \in 1..MaxUpdates
  PROVE  Balanced(s, u)'
<1>1. /\ UNCHANGED <<stored, accepted>> /\ SameEntries /\ SameReplay /\ SameBind
      /\ pend' = [t \in Sessions |-> IF t \in S THEN <<>> ELSE pend[t]]
      /\ dropped' = dropped \cup UNION {ToSet(pend[t]) : t \in S}
  BY DEF Empties, SameTaken
<1>2. pend[s] \in Seq(1..MaxUpdates)
  BY OnceTypes
<1>3. ASSUME NEW t \in S, u \in ToSet(pend[t])
      PROVE  u \in ToSet(accepted[s]) => t = s
  <2>1. t \in Sessions /\ InQueue(t, u) # 0
    BY <1>3, QueuedIs
  <2>2. \A r \in Sessions : u \in ToSet(accepted[r]) => r = t
    BY <2>1, HeldOnce
  <2> QED
    BY <2>2
<1>4. u \in ToSet(pend[s]) <=> InQueue(s, u) # 0
  BY <1>2, OccIn DEF InQueue
<1>5. InQueue(s, u)' + Discarded(s, u)' = InQueue(s, u) + Discarded(s, u) /\ InQueue(s, u)' \in Nat
  <2>1. CASE s \notin S
    <3>1. InQueue(s, u)' = InQueue(s, u)
      BY <1>1, <2>1 DEF InQueue
    <3>2. Discarded(s, u)' = Discarded(s, u)
      <4>1. u \in ToSet(accepted[s]) => u \notin UNION {ToSet(pend[t]) : t \in S}
        BY <1>3, <2>1
      <4> QED
        BY <1>1, <4>1 DEF Discarded
    <3> QED
      BY <3>1, <3>2, Counts
  <2>2. CASE s \in S /\ InQueue(s, u) = 0
    <3>1. InQueue(s, u)' = 0
      BY <1>1, <2>2, OccEmpty DEF InQueue
    <3>2. Discarded(s, u)' = Discarded(s, u)
      <4>1. u \in ToSet(accepted[s]) => u \notin UNION {ToSet(pend[t]) : t \in S}
        BY <1>3, <1>4, <2>2
      <4> QED
        BY <1>1, <4>1 DEF Discarded
    <3> QED
      BY <2>2, <3>1, <3>2
  <2>3. CASE s \in S /\ InQueue(s, u) # 0
    <3>1. InQueue(s, u)' = 0
      BY <1>1, <2>3, OccEmpty DEF InQueue
    <3>2. /\ u \in ToSet(accepted[s]) /\ Discarded(s, u) = 0
          /\ InQueue(s, u) + InStore(s, u) + InQuar(s, u) + InReplay(s, u) + InBinder(s, u) = 1
      BY <2>3, HeldOnce
    <3>3. InQueue(s, u) = 1
      BY <2>3, <3>2, Counts
    <3>4. Discarded(s, u)' = 1
      BY <1>1, <1>4, <2>3, <3>2 DEF Discarded
    <3> QED
      BY <3>1, <3>2, <3>3, <3>4
  <2> QED
    BY <2>1, <2>2, <2>3
<1>6. /\ InStore(s, u)' = InStore(s, u) /\ InQuar(s, u)' = InQuar(s, u)
      /\ InReplay(s, u)' = InReplay(s, u) /\ InBinder(s, u)' = InBinder(s, u)
      /\ Taken(s, u)' = Taken(s, u)
  BY <1>1, SameCounts
<1>7. Discarded(s, u)' \in {0, 1}
  BY DEF Discarded
<1> QED
  BY <1>5, <1>6, <1>7, Counts DEF Balanced

LEMMA BalanceStep ==
  ASSUME OnceInv, [Next]_vars
  PROVE  UpdatesExactlyOnce'
<1>1. CASE UNCHANGED vars
  <2>1. Quiet
    BY <1>1 DEF vars, cap, queues, acct, Quiet, SameTaken, SameEntries, SameReplay, SameBind
  <2> QED
    BY <2>1, QuietBalanced, AllBalancedNext
<1>2. CASE Next
  <2>1. Kinds
    BY <1>2, StepKinds DEF OnceInv
  <2>2. CASE Quiet \/ Sends
    BY <2>2, QuietBalanced, AllBalancedNext
  <2>3. CASE Accepts
    BY <2>3, AcceptBalanced, AllBalancedNext
  <2>4. CASE Pops
    BY <2>4, PopBalanced, AllBalancedNext
  <2>5. CASE BindEnds
    BY <2>5, BindEndBalanced, AllBalancedNext
  <2>6. CASE Replays
    BY <2>6, ReplayBalanced, AllBalancedNext
  <2>7. CASE Finishes
    BY <2>7, FinishBalanced, AllBalancedNext
  <2>8. ASSUME NEW S \in SUBSET Sessions, Empties(S) PROVE UpdatesExactlyOnce'
    BY <2>8, EmptyBalanced, AllBalancedNext
  <2> QED
    BY <2>1, <2>2, <2>3, <2>4, <2>5, <2>6, <2>7, <2>8 DEF Kinds
<1> QED
  BY <1>1, <1>2

(* Every step keeps the numbering: only an update that is sent raises the  *)
(* latest number, and only the handler accepts it.                         *)
LEMMA SameTakenNumbered ==
  ASSUME OnceInv, SameTaken,
         \A u \in dropped' : u \in dropped \/ \E s \in Sessions : u \in ToSet(accepted[s])
  PROVE  Numbered'
  BY DEF OnceInv, Numbered, SameTaken

LEMMA NumberedStep ==
  ASSUME OnceInv, [Next]_vars
  PROVE  Numbered'
<1>1. CASE Quiet \/ Pops \/ BindEnds
  BY <1>1, SameTakenNumbered DEF Quiet, Pops, BindEnds
<1>2. CASE Sends
  <2>1. /\ last \in Int /\ last' = last + 1 /\ hand'.u = last' /\ UNCHANGED <<accepted, dropped>>
        /\ \A s \in Sessions : \A u \in ToSet(accepted[s]) : u <= last /\ u \in Int
    <3>1. \A s \in Sessions : \A u \in ToSet(accepted[s]) : u \in Int
      <4> SUFFICES ASSUME NEW s \in Sessions, NEW u \in ToSet(accepted[s]) PROVE u \in Int
        OBVIOUS
      <4>1. accepted[s] \in Seq(1..MaxUpdates)
        BY OnceTypes
      <4>2. DOMAIN accepted[s] = 1..Len(accepted[s]) /\ \A i \in 1..Len(accepted[s]) : accepted[s][i] \in 1..MaxUpdates
        BY <4>1, LenProperties, ElementOfSeq
      <4> QED
        BY <4>2 DEF ToSet
    <3> QED
      <4>1. last \in Int
        BY OnceTypes DEF SeqTypes
      <4> QED
        BY <1>2, <3>1, <4>1 DEF Sends, OnceInv, Numbered
  <2>2. \A s \in Sessions : \A u \in ToSet(accepted[s]) : u <= last' /\ u # last'
    BY <2>1
  <2>3. \A s \in Sessions : last' \notin ToSet(accepted'[s])
    BY <2>1, <2>2
  <2> QED
    BY <2>1, <2>2, <2>3 DEF OnceInv, Numbered
<1>3. CASE Accepts
  <2> DEFINE h == hand.session
             v == hand.u
  <2>1. /\ h \in Sessions /\ hand'.pc = "idle" /\ v = last /\ last \in Int
        /\ \A t \in Sessions : v \notin ToSet(accepted[t])
        /\ accepted' = [accepted EXCEPT ![h] = Append(@, v)]
        /\ UNCHANGED <<last, dropped>>
    <3>1. last \in Int
      BY OnceTypes DEF SeqTypes
    <3>2. /\ h \in Sessions /\ hand'.pc = "idle" /\ hand.pc # "idle"
          /\ accepted' = [accepted EXCEPT ![h] = Append(@, v)] /\ UNCHANGED <<last, dropped>>
      BY <1>3 DEF Accepts
    <3>3. v = last /\ \A t \in Sessions : v \notin ToSet(accepted[t])
      BY <3>2 DEF OnceInv, Numbered
    <3> QED
      BY <3>1, <3>2, <3>3
  <2>2. \A s \in Sessions : ToSet(accepted'[s]) = ToSet(accepted[s]) \cup (IF s = h THEN {v} ELSE {})
    <3> SUFFICES ASSUME NEW s \in Sessions
                 PROVE  ToSet(accepted'[s]) = ToSet(accepted[s]) \cup (IF s = h THEN {v} ELSE {})
      OBVIOUS
    <3>1. DOMAIN accepted = Sessions /\ accepted[s] \in Seq(1..MaxUpdates)
      BY OnceTypes DEF SeqTypes
    <3>2. v \in 1..MaxUpdates
      BY <1>3, OnceTypes, Limits DEF Accepts, SeqTypes, HoldersPlaced
    <3> HIDE DEF h, v
    <3>3. CASE s # h
      <4>1. accepted'[s] = accepted[s]
        BY <2>1, <3>1, <3>3
      <4> QED
        BY <3>3, <4>1
    <3>4. CASE s = h
      <4>1. accepted'[s] = Append(accepted[s], v)
        BY <2>1, <3>1, <3>4
      <4>2. /\ DOMAIN accepted[s] = 1..Len(accepted[s]) /\ Len(accepted[s]) \in Nat
            /\ DOMAIN Append(accepted[s], v) = 1..(Len(accepted[s]) + 1)
            /\ \A i \in 1..Len(accepted[s]) : Append(accepted[s], v)[i] = accepted[s][i]
            /\ Append(accepted[s], v)[Len(accepted[s]) + 1] = v
        BY <3>1, <3>2, AppendProperties, LenProperties
      <4>3. ToSet(Append(accepted[s], v)) = ToSet(accepted[s]) \cup {v}
        BY <4>2 DEF ToSet
      <4> QED
        BY <3>4, <4>1, <4>3
    <3> QED
      BY <3>3, <3>4
  <2> HIDE DEF h, v
  <2>3. \A s \in Sessions : \A u \in ToSet(accepted'[s]) : u <= last'
    BY <2>1, <2>2 DEF OnceInv, Numbered
  <2>4. \A s, t \in Sessions : ToSet(accepted'[s]) \cap ToSet(accepted'[t]) # {} => s = t
    <3> SUFFICES ASSUME NEW s \in Sessions, NEW t \in Sessions, NEW u,
                        u \in ToSet(accepted'[s]), u \in ToSet(accepted'[t])
                 PROVE  s = t
      OBVIOUS
    <3>1. CASE u = v
      BY <2>1, <2>2, <3>1
    <3>2. CASE u # v
      <4>1. u \in ToSet(accepted[s]) /\ u \in ToSet(accepted[t])
        BY <2>2, <3>2
      <4> QED
        BY <4>1 DEF OnceInv, Numbered
    <3> QED
      BY <3>1, <3>2
  <2>5. \A u \in dropped' : \E s \in Sessions : u \in ToSet(accepted'[s])
    BY <2>1, <2>2 DEF OnceInv, Numbered
  <2> QED
    BY <2>1, <2>3, <2>4, <2>5 DEF Numbered
<1>4. CASE Replays
  <2>1. PICK e : e = Head(make.replay)
    OBVIOUS
  <2>2. make.replay # <<>> /\ make.replay \in Seq(Entry)
    BY <1>4, OnceTypes DEF Replays
  <2>3. e \in Entry /\ occurrences(make.replay, e) # 0
    <3>1. occurrences(make.replay, e) = 1 + occurrences(Tail(make.replay), e)
      BY <2>1, <2>2, OccHead
    <3>2. e \in Entry /\ Tail(make.replay) \in Seq(Entry)
      BY <2>1, <2>2, HeadTailProperties
    <3>3. occurrences(Tail(make.replay), e) \in Nat
      BY <3>2, OccSet
    <3> QED
      BY <3>1, <3>2, <3>3
  <2>4. e.session \in Sessions /\ e.u \in 1..MaxUpdates /\ e = [session |-> e.session, u |-> e.u]
    BY <2>3 DEF Entry
  <2>5. InReplay(e.session, e.u) # 0
    BY <2>3, <2>4 DEF InReplay
  <2>6. e.u \in ToSet(accepted[e.session])
    BY <2>4, <2>5, HeldOnce
  <2>7. SameTaken /\ dropped' \subseteq dropped \cup {e.u}
    BY <1>4, <2>1 DEF Replays
  <2> QED
    BY <2>4, <2>6, <2>7, SameTakenNumbered
<1>5. CASE Finishes
  <2>1. \A u \in ToSet(matching) : make.session \in Sessions /\ u \in ToSet(accepted[make.session])
    BY MatchedIs, HeldOnce
  <2>2. SameTaken /\ dropped' \subseteq dropped \cup ToSet(matching)
    BY <1>5 DEF Finishes
  <2> QED
    BY <2>1, <2>2, SameTakenNumbered
<1>6. ASSUME NEW S \in SUBSET Sessions, Empties(S) PROVE Numbered'
  <2>1. \A s \in Sessions : \A u \in ToSet(pend[s]) : u \in ToSet(accepted[s])
    BY QueuedIs, HeldOnce
  <2>2. SameTaken /\ dropped' = dropped \cup UNION {ToSet(pend[s]) : s \in S}
    BY <1>6 DEF Empties
  <2>3. \A u \in dropped' : u \in dropped \/ \E s \in Sessions : u \in ToSet(accepted[s])
    BY <2>1, <2>2
  <2> QED
    BY <2>2, <2>3, SameTakenNumbered
<1>7. CASE UNCHANGED vars
  <2>1. SameTaken /\ UNCHANGED dropped
    BY <1>7 DEF vars, acct, SameTaken
  <2> QED
    BY <2>1, SameTakenNumbered
<1>8. CASE Next
  <2>1. Kinds
    BY <1>8, StepKinds DEF OnceInv
  <2> QED
    BY <1>1, <1>2, <1>3, <1>4, <1>5, <1>6, <2>1 DEF Kinds
<1> QED
  BY <1>7, <1>8

LEMMA OnceStarts ==
  ASSUME Init
  PROVE  OnceInv
<1>1. HoldInv
  BY HoldStarts
<1>2. \A x : occurrences(<<>>, x) = 0
  BY OccEmpty
<1>3. ToSet(<<>>) = {}
  BY DEF ToSet
<1>4. Numbered
  BY <1>3 DEF Init, Numbered, HandIdle
<1>5. UpdatesExactlyOnce
  <2> SUFFICES ASSUME NEW s \in Sessions, NEW u \in 1..MaxUpdates PROVE Balanced(s, u)
    BY AllBalanced
  <2>1. /\ InQueue(s, u) = 0 /\ InStore(s, u) = 0 /\ InQuar(s, u) = 0 /\ InReplay(s, u) = 0
    BY <1>2 DEF Init, InQueue, InStore, InQuar, InReplay, NoQuar, MakeNew
  <2>2. InBinder(s, u) = 0 /\ Discarded(s, u) = 0 /\ Taken(s, u) = 0
    BY <1>3 DEF Init, InBinder, Discarded, Taken, BindIdle
  <2> QED
    BY <2>1, <2>2 DEF Balanced
<1> QED
  BY <1>1, <1>4, <1>5 DEF OnceInv

(* An update that the handler accepted is in exactly one place             *)
(* (callbacks/capture.rs): through the hand-over of a finished quarantine, *)
(* the replay of what was left of it, the pops and put-backs of            *)
(* bind_session and every unbind, it is neither lost nor stored twice.     *)
THEOREM NothingLostOrDoubled == Spec => []UpdatesExactlyOnce
<1>1. Init => OnceInv /\ TurnInv
  BY OnceStarts, HoldStarts
<1>2. OnceInv /\ TurnInv /\ [Next]_vars => (OnceInv /\ TurnInv)'
  BY HoldStep, TurnStep, BalanceStep, NumberedStep DEF OnceInv, HoldInv
<1>3. OnceInv => UpdatesExactlyOnce
  BY DEF OnceInv
<1> QED
  BY <1>1, <1>2, <1>3, PTL DEF Spec

-----------------------------------------------------------------------------
(***************************************************************************)
(* The order of the updates of the new session.  It has no binding before  *)
(* session/new has succeeded; until then its updates are, in protocol      *)
(* order, in the quarantine, and after its publication in the store, the   *)
(* hands of the binder and the queue.                                      *)
(***************************************************************************)
BinderHolds == IF bind.pc = "capture" /\ bind.session = Fresh THEN <<bind.u>> ELSE <<>>
FreshPlaced ==
  /\ Fresh \in bound => make.pc = "ok"
  /\ bind.pc # "idle" /\ bind.session = Fresh => make.pc \in {"bind", "ok"}
  /\ hand.session = Fresh =>
       /\ hand.pc # "idle" => make.pc # "new"
       /\ hand.pc \in {"lookup", "enqueue", "store"} => make.pc \notin {"sent", "publish"}
       /\ hand.pc = "store" => make.pc = "ok"
FreshOrdered ==
  /\ make.pc = "new" => accepted[Fresh] = <<>>
  /\ make.pc \in {"new", "sent", "publish"} => pend[Fresh] = <<>> /\ stored[Fresh] = <<>>
  /\ make.pc \in {"sent", "publish"} =>
       accepted[Fresh] = updates(of_sessions(quar.entries, {Fresh}))
  /\ make.pc = "replay" /\ ~make.failed => accepted[Fresh] = pend[Fresh] /\ stored[Fresh] = <<>>
  /\ make.pc = "bind" => accepted[Fresh] = (stored[Fresh] \o BinderHolds) \o pend[Fresh]

OrderInv == HoldInv /\ FreshPlaced /\ FreshOrdered

(* Every step keeps the new session unbound until it has succeeded.        *)
LEMMA FreshPlacedStep ==
  ASSUME OrderInv, [Next]_vars
  PROVE  FreshPlaced'
<1>0. HoldInv /\ FreshPlaced
  BY DEF OrderInv
<1>1. ASSUME NEW s \in Sessions, handle_notification(s) PROVE FreshPlaced'
  BY <1>0, <1>1, SmallFacts, SMTT(30) DEF handle_notification, cap, queues, HoldInv,
     CreationInv, CreationPlaced, FreshPlaced
<1>2. CASE capture_session_creation_notification
  <2>1. /\ UNCHANGED <<bound, bind>> /\ make'.pc = make.pc /\ hand.pc = "quarantine"
        /\ hand'.pc \in {"idle", "lookup", "refused"} /\ hand'.session \in {hand.session, None}
        /\ hand'.pc = "lookup" => ~quar.active
    BY <1>0, <1>2, QuarantineDoes
  <2>2. ~quar.active => make.pc \notin {"sent", "publish"}
    BY <1>0 DEF HoldInv, CreationInv, CreationPlaced
  <2>3. Fresh # None
    BY CaptureAssumption DEF Sessions
  <2> QED
    BY <1>0, <2>1, <2>2, <2>3 DEF FreshPlaced
<1>3. CASE lookup_binding
  BY <1>0, <1>3, SmallFacts, SMTT(30) DEF lookup_binding, cap, acct, ops, queues, HoldInv,
     CreationInv, CreationPlaced, FreshPlaced
<1>4. CASE enqueue_pending
  BY <1>0, <1>4, SmallFacts, SMTT(30) DEF enqueue_pending, refuse, accept, HandIdle, HoldInv,
     CreationInv, CreationPlaced, FreshPlaced
<1>5. CASE capture_bound_notification
  BY <1>0, <1>5, SmallFacts, SMTT(30) DEF capture_bound_notification, refuse, accept,
     HandIdle, write, write_fails, affordable, may_fail, fault, queues, HoldInv,
     CreationInv, CreationPlaced, FreshPlaced
<1>6. CASE begin_session_creation_capture
  BY <1>0, <1>6, SmallFacts, SMTT(30) DEF begin_session_creation_capture, NoQuar, queues,
     acct, ops, HoldInv, CreationInv, CreationPlaced, FreshPlaced
<1>7. CASE create_session_response
  BY <1>0, <1>7, ResponseDoes, SmallFacts, SMTT(30) DEF cap, queues, acct, HoldInv,
     CreationInv, CreationPlaced, FreshPlaced
<1>8. CASE finish_session_creation_capture
  BY <1>0, <1>8, FinishDoes, SmallFacts, SMTT(30) DEF NoQuar, HoldInv, CreationInv,
     CreationPlaced, FreshPlaced
<1>9. CASE replay_session_creation_notification
  <2>1. UNCHANGED <<bound, hand, bind>> /\ make'.pc = make.pc
    BY <1>0, <1>9, ReplayDoes
  <2> QED
    BY <1>0, <2>1 DEF FreshPlaced
<1>10. CASE creation_published
  BY <1>0, <1>10, PublishedDoes, SmallFacts, SMTT(30) DEF cap, queues, acct, HoldInv,
     CreationInv, CreationPlaced, FreshPlaced
<1>11. CASE rollback_publication
  BY <1>0, <1>11, RollbackDoes, SmallFacts, SMTT(30) DEF unbind, HoldInv, CreationInv,
     CreationPlaced, FreshPlaced
<1>12. ASSUME NEW s \in Sessions, bind_start(s) PROVE FreshPlaced'
  BY <1>0, <1>12, SmallFacts, SMTT(30) DEF bind_start, busy, acct, HoldInv, CreationInv,
     CreationPlaced, FreshPlaced
<1>13. CASE bind_pop
  BY <1>0, <1>13, PopDoes, SmallFacts, SMTT(30) DEF acct, HoldInv, CreationInv,
     CreationPlaced, FreshPlaced
<1>14. CASE bind_capture
  BY <1>0, <1>14, BindCaptureDoes, SmallFacts, SMTT(30) DEF write, write_fails, affordable,
     may_fail, fault, BindIdle, HoldInv, CreationInv, CreationPlaced, FreshPlaced
<1>15. CASE bind_finish
  BY <1>0, <1>15, SmallFacts, SMTT(30) DEF bind_finish, acct, ops, BindIdle, HoldInv,
     CreationInv, CreationPlaced, FreshPlaced
<1>16. ASSUME NEW s \in Sessions, begin_capture_operation(s) PROVE FreshPlaced'
  BY <1>0, <1>16, SmallFacts, SMTT(30) DEF begin_capture_operation, cap, queues, HoldInv,
     CreationInv, CreationPlaced, FreshPlaced
<1>17. ASSUME NEW s \in Sessions, response_arrives(s) PROVE FreshPlaced'
  BY <1>0, <1>17, SmallFacts, SMTT(30) DEF response_arrives, cap, queues, acct, HoldInv,
     CreationInv, CreationPlaced, FreshPlaced
<1>18. ASSUME NEW s \in Sessions, take_capture_failure(s) PROVE FreshPlaced'
  BY <1>0, <1>18, SmallFacts, SMTT(30) DEF take_capture_failure, cap, queues, acct, HoldInv,
     CreationInv, CreationPlaced, FreshPlaced
<1>19. ASSUME NEW s \in Sessions, unbind_session(s) PROVE FreshPlaced'
  BY <1>0, <1>19, SmallFacts, SMTT(30) DEF unbind_session, unbind, HoldInv, CreationInv,
     CreationPlaced, FreshPlaced
<1>20. CASE remove_agent_state
  <2>1. /\ hand.pc = "idle" /\ bind.pc = "idle" /\ bound' = {} /\ UNCHANGED <<hand, make, bind>>
    BY <1>0, <1>20, RemoveDoes, Zenon
  <2> QED
    BY <2>1 DEF FreshPlaced
<1>21. CASE UNCHANGED vars
  BY <1>0, <1>21, SmallFacts, SMTT(30) DEF vars, cap, queues, acct, ops, HoldInv, CreationInv,
     CreationPlaced, FreshPlaced
<1>22. CASE record_session_creation_capture_failure \/ record_refusal \/ record_replay_failure
  <2>1. /\ UNCHANGED <<bound, bind>> /\ make'.pc = make.pc
        /\ \/ hand' = hand \/ hand'.session = None
           \/ hand'.pc = "recording" /\ hand.pc # "idle" /\ hand'.session = hand.session
    BY <1>0, <1>22, RecordDoes DEF HandIdle
  <2>2. Fresh # None
    BY CaptureAssumption DEF Sessions
  <2> QED
    BY <1>0, <2>1, <2>2 DEF FreshPlaced
<1> QED
  BY <1>1, <1>2, <1>3, <1>4, <1>5, <1>6, <1>7, <1>8, <1>9, <1>10, <1>11, <1>12,
     <1>13, <1>14, <1>15, <1>16, <1>17, <1>18, <1>19, <1>20, <1>21, <1>22 DEF Next,
     Handler, Creator, Binder, Turn

(* How a queue, the binder's hands and the store follow each other.        *)
LEMMA ChainLaws ==
  ASSUME NEW X, NEW p \in Seq(X), NEW q \in Seq(X), NEW u \in X
  PROVE  /\ (p \o <<>>) \o Append(q, u) = Append((p \o <<>>) \o q, u)
         /\ (p \o <<u>>) \o q = (Append(p, u) \o <<>>) \o q
         /\ q # <<>> => (p \o <<>>) \o q = (p \o <<Head(q)>>) \o Tail(q)
         /\ (<<>> \o <<>>) \o q = q
<1>1. <<u>> \in Seq(X) /\ <<>> \in Seq(X)
  BY EmptySeq
<1>2. p \o <<>> = p /\ <<>> \o <<>> = <<>> /\ <<>> \o q = q
  BY <1>1, ConcatEmptySeq
<1>3. Append(p, u) = p \o <<u>> /\ Append(p, u) \in Seq(X) /\ Append(q, u) = q \o <<u>>
  BY AppendIsConcat, AppendProperties
<1>4. Append(p, u) \o <<>> = Append(p, u)
  BY <1>3, ConcatEmptySeq
<1>5. q # <<>> => (p \o <<>>) \o q = (p \o <<Head(q)>>) \o Tail(q)
  <2> SUFFICES ASSUME q # <<>> PROVE p \o q = (p \o <<Head(q)>>) \o Tail(q)
    BY <1>2
  <2>1. Head(q) \in X /\ Tail(q) \in Seq(X) /\ q = <<Head(q)>> \o Tail(q)
    BY HeadTailConcat
  <2>2. <<Head(q)>> \in Seq(X)
    BY <2>1
  <2>3. (p \o <<Head(q)>>) \o Tail(q) = p \o (<<Head(q)>> \o Tail(q))
    BY <2>1, <2>2, ConcatAssociative
  <2> QED
    BY <2>1, <2>3
<1>6. p \o Append(q, u) = Append(p \o q, u)
  <2>1. p \o q \in Seq(X)
    BY ConcatProperties
  <2>2. (p \o q) \o <<u>> = p \o (q \o <<u>>)
    BY <1>1, ConcatAssociative
  <2>3. Append(p \o q, u) = (p \o q) \o <<u>>
    BY <2>1, AppendIsConcat
  <2> QED
    BY <1>3, <2>2, <2>3
<1> QED
  BY <1>2, <1>3, <1>4, <1>5, <1>6

(* The steps that do not touch the new session, and the states of a        *)
(* creation in which nothing is asked of its order.                        *)
SameFresh ==
  /\ accepted'[Fresh] = accepted[Fresh] /\ pend'[Fresh] = pend[Fresh]
  /\ stored'[Fresh] = stored[Fresh] /\ BinderHolds' = BinderHolds
  /\ \/ SameEntries
     \/ updates(of_sessions(quar'.entries, {Fresh})) = updates(of_sessions(quar.entries, {Fresh}))
  /\ make'.pc = make.pc /\ (make'.failed = FALSE => make.failed = FALSE)
Free == make'.pc \in {"reject", "replay_rejected", "unclaim", "ok", "error"}

LEMMA OrderKept ==
  ASSUME OrderInv, CreationInv', SameFresh \/ Free
  PROVE  FreshOrdered'
<1>1. make.failed \in BOOLEAN /\ make'.failed \in BOOLEAN /\ FreshOrdered
  BY DEF OrderInv, HoldInv, CreationInv, Shapes
<1>2. CASE Free
  BY <1>2 DEF Free, FreshOrdered
<1>3. CASE SameFresh
  <2>1. updates(of_sessions(quar'.entries, {Fresh})) = updates(of_sessions(quar.entries, {Fresh}))
    BY <1>3 DEF SameFresh, SameEntries
  <2> QED
    BY <1>1, <1>3, <2>1 DEF SameFresh, FreshOrdered
<1> QED
  BY <1>2, <1>3

LEMMA FreshQueues ==
  ASSUME OrderInv
  PROVE  /\ Fresh \in Sessions /\ Fresh # None
         /\ pend[Fresh] \in Seq(1..MaxUpdates) /\ stored[Fresh] \in Seq(1..MaxUpdates)
         /\ accepted[Fresh] \in Seq(1..MaxUpdates)
         /\ DOMAIN pend = Sessions /\ DOMAIN stored = Sessions /\ DOMAIN accepted = Sessions
         /\ quar.entries \in Seq(Entry)
         /\ HoldInv /\ FreshPlaced /\ FreshOrdered /\ HoldersPlaced
         /\ hand.pc # "idle" => hand.u \in 1..MaxUpdates
         /\ bind.pc = "capture" => bind.u \in 1..MaxUpdates
<1>1. HoldInv /\ SeqTypes /\ HoldersPlaced
  BY DEF OrderInv, HoldInv
<1>2. Fresh \in Sessions /\ Fresh # None
  BY CaptureAssumption DEF Sessions
<1>3. /\ hand.pc # "idle" => hand.u \in 1..MaxUpdates
      /\ bind.pc = "capture" => bind.u \in 1..MaxUpdates
  BY <1>1, Limits DEF SeqTypes, HoldersPlaced
<1> QED
  BY <1>1, <1>2, <1>3 DEF OrderInv, SeqTypes, Updates

(* The quarantine keeps the order of arrival.                              *)
LEMMA QuarantineOrdered ==
  ASSUME OrderInv, CreationInv', capture_session_creation_notification
  PROVE  FreshOrdered'
<1>1. /\ UNCHANGED <<pend, stored, bind>> /\ make'.pc = make.pc /\ make'.failed = make.failed
      /\ hand.pc = "quarantine" /\ hand.session \in Sessions /\ quar'.active = quar.active
  BY FreshQueues, QuarantineDoes
<1>2. BinderHolds' = BinderHolds
  BY <1>1 DEF BinderHolds
<1>3. CASE SameEntries /\ UNCHANGED accepted
  BY <1>1, <1>2, <1>3, OrderKept DEF SameFresh
<1>4. CASE /\ quar.active /\ quar'.entries = Append(quar.entries, [session |-> hand.session, u |-> hand.u])
           /\ accepted' = [accepted EXCEPT ![hand.session] = Append(@, hand.u)]
  <2>1. PICK e : e = [session |-> hand.session, u |-> hand.u]
    OBVIOUS
  <2>2. hand.u \in 1..MaxUpdates
    BY <1>1, FreshQueues
  <2>3. e \in Entry /\ e.session = hand.session /\ e.u = hand.u
    BY <1>1, <2>1, <2>2 DEF Entry
  <2>4. of_sessions(quar'.entries, {Fresh}) =
          IF e.session \in {Fresh} THEN Append(of_sessions(quar.entries, {Fresh}), e)
          ELSE of_sessions(quar.entries, {Fresh})
    <3>1. quar.entries \in Seq(Entry) /\ quar'.entries = Append(quar.entries, e)
      BY <1>4, <2>1, FreshQueues
    <3>2. PICK S : S = {Fresh}
      OBVIOUS
    <3>3. of_sessions(Append(quar.entries, e), S) =
            IF e.session \in S THEN Append(of_sessions(quar.entries, S), e)
            ELSE of_sessions(quar.entries, S)
      BY <2>3, <3>1, TakeOneMore
    <3> QED
      BY <3>1, <3>2, <3>3
  <2>5. CASE hand.session # Fresh
    <3>1. accepted'[Fresh] = accepted[Fresh]
      BY <1>4, <2>5, FreshQueues
    <3>2. updates(of_sessions(quar'.entries, {Fresh})) = updates(of_sessions(quar.entries, {Fresh}))
      BY <2>3, <2>4, <2>5
    <3> QED
      BY <1>1, <1>2, <3>1, <3>2, OrderKept DEF SameFresh
  <2>6. CASE hand.session = Fresh
    <3>1. accepted'[Fresh] = Append(accepted[Fresh], hand.u)
      BY <1>4, <2>6, FreshQueues
    <3>2. of_sessions(quar.entries, {Fresh}) \in Seq(Entry)
      BY FreshQueues, LoopTakes DEF Takes
    <3>3. updates(of_sessions(quar'.entries, {Fresh})) = Append(updates(of_sessions(quar.entries, {Fresh})), hand.u)
      BY <2>3, <2>4, <2>6, <3>2, UpdatesAppend
    <3>4. make.pc \in {"sent", "publish", "reject", "unclaim"}
      BY <1>4, FreshQueues DEF HoldInv, CreationInv, CreationPlaced
    <3>5. CASE make.pc \in {"sent", "publish"}
      <4>1. accepted[Fresh] = updates(of_sessions(quar.entries, {Fresh}))
            /\ pend[Fresh] = <<>> /\ stored[Fresh] = <<>>
        BY <3>5, FreshQueues DEF FreshOrdered
      <4>2. accepted'[Fresh] = updates(of_sessions(quar'.entries, {Fresh}))
        BY <3>1, <3>3, <4>1
      <4>3. make'.pc \in {"sent", "publish"} /\ pend'[Fresh] = <<>> /\ stored'[Fresh] = <<>>
        BY <1>1, <3>5, <4>1
      <4> QED
        BY <4>2, <4>3 DEF FreshOrdered
    <3>6. CASE make.pc \in {"reject", "unclaim"}
      BY <1>1, <3>6, OrderKept DEF Free
    <3> QED
      BY <3>4, <3>5, <3>6
  <2> QED
    BY <2>5, <2>6
<1>5. \/ quar' = quar /\ UNCHANGED accepted
      \/ refuse /\ UNCHANGED <<quar, accepted>>
      \/ /\ quar.active /\ accept
         /\ quar' = [quar EXCEPT !.entries = Append(@, [session |-> hand.session, u |-> hand.u])]
  BY DEF capture_session_creation_notification
<1>6. UNCHANGED quar => SameEntries
  BY DEF SameEntries
<1> QED
  BY <1>3, <1>4, <1>5, <1>6, FreshQueues, SmallFacts DEF accept, SameEntries

(* A queue keeps the order of arrival behind what the binder holds.        *)
LEMMA QueueOrdered ==
  ASSUME OrderInv, CreationInv', enqueue_pending
  PROVE  FreshOrdered'
<1>1. /\ hand.pc = "enqueue" /\ UNCHANGED <<stored, bind>> /\ hand.session \in Sessions
      /\ hand.u \in 1..MaxUpdates
  BY FreshQueues, SmallFacts DEF enqueue_pending
<1>2. BinderHolds' = BinderHolds
  BY <1>1 DEF BinderHolds
<1>3. CASE refuse /\ UNCHANGED <<pend, accepted, quar>>
  <2>1. make'.pc = make.pc /\ make'.failed = make.failed /\ SameEntries
    BY <1>3, FreshQueues, SmallFacts DEF refuse, SameEntries
  <2> QED
    BY <1>1, <1>2, <1>3, <2>1, OrderKept DEF SameFresh
<1>4. CASE /\ accept /\ UNCHANGED <<quar, make>>
           /\ pend' = [pend EXCEPT ![hand.session] = Append(@, hand.u)]
  <2>1. accepted' = [accepted EXCEPT ![hand.session] = Append(@, hand.u)]
    BY <1>4 DEF accept
  <2>2. CASE hand.session # Fresh
    <3>1. accepted'[Fresh] = accepted[Fresh] /\ pend'[Fresh] = pend[Fresh]
      BY <1>4, <2>1, <2>2, FreshQueues
    <3> QED
      BY <1>1, <1>2, <1>4, <3>1, OrderKept DEF SameFresh, SameEntries
  <2>3. CASE hand.session = Fresh
    <3>1. /\ accepted'[Fresh] = Append(accepted[Fresh], hand.u)
          /\ pend'[Fresh] = Append(pend[Fresh], hand.u)
      BY <1>4, <2>1, <2>3, FreshQueues
    <3>2. make.pc \notin {"new", "sent", "publish"}
      BY <1>1, <2>3, FreshQueues DEF FreshPlaced
    <3>3. CASE make.pc = "replay"
      BY <1>1, <1>4, <3>1, <3>3, FreshQueues DEF FreshOrdered
    <3>4. CASE make.pc = "bind"
      <4>1. PICK X : X = 1..MaxUpdates
        OBVIOUS
      <4>2. pend[Fresh] \in Seq(X) /\ stored[Fresh] \in Seq(X) /\ hand.u \in X
        BY <1>1, <4>1, FreshQueues
      <4>3. (stored[Fresh] \o BinderHolds) \o Append(pend[Fresh], hand.u)
              = Append((stored[Fresh] \o BinderHolds) \o pend[Fresh], hand.u)
        <5>1. CASE BinderHolds = <<>>
          <6>1. (stored[Fresh] \o <<>>) \o Append(pend[Fresh], hand.u)
                  = Append((stored[Fresh] \o <<>>) \o pend[Fresh], hand.u)
            <7>1. PICK p \in Seq(X), q \in Seq(X), u \in X :
                    p = stored[Fresh] /\ q = pend[Fresh] /\ u = hand.u
              BY <4>2
            <7>2. (p \o <<>>) \o Append(q, u) = Append((p \o <<>>) \o q, u)
              BY ChainLaws
            <7> QED
              BY <7>1, <7>2
          <6> QED
            BY <5>1, <6>1
        <5>2. CASE bind.pc = "capture" /\ BinderHolds = <<bind.u>>
          <6>1. bind.u \in X
            BY <4>1, <5>2, FreshQueues
          <6>2. stored[Fresh] \o <<bind.u>> \in Seq(X)
            <7>1. <<bind.u>> \in Seq(X)
              BY <6>1
            <7> QED
              BY <4>2, <7>1, ConcatProperties
          <6>3. PICK r \in Seq(X) : r = stored[Fresh] \o <<bind.u>>
            BY <6>2
          <6>4. (r \o <<>>) \o Append(pend[Fresh], hand.u) = Append((r \o <<>>) \o pend[Fresh], hand.u)
            BY <4>2, ChainLaws
          <6>5. r \o <<>> = r
            BY ConcatEmptySeq
          <6> QED
            BY <5>2, <6>3, <6>4, <6>5
        <5> QED
          BY <5>1, <5>2 DEF BinderHolds
      <4>4. accepted[Fresh] = (stored[Fresh] \o BinderHolds) \o pend[Fresh]
        BY <3>4, FreshQueues DEF FreshOrdered
      <4>5. accepted'[Fresh] = (stored'[Fresh] \o BinderHolds') \o pend'[Fresh]
        BY <1>1, <1>2, <3>1, <4>3, <4>4
      <4> QED
        BY <1>4, <3>4, <4>5 DEF FreshOrdered
    <3>5. CASE make.pc \notin {"new", "sent", "publish", "replay", "bind"}
      <4>1. make.pc \in {"reject", "replay_rejected", "unclaim", "ok", "error"}
        BY <3>5, FreshQueues DEF HoldInv, FlagTypes
      <4> QED
        BY <1>4, <4>1, OrderKept DEF Free
    <3> QED
      BY <3>2, <3>3, <3>4, <3>5
  <2> QED
    BY <2>2, <2>3
<1> QED
  BY <1>3, <1>4 DEF enqueue_pending

(* The binder moves the oldest update of the queue to the store.           *)
LEMMA PopOrdered ==
  ASSUME OrderInv, CreationInv', bind_pop
  PROVE  FreshOrdered'
<1>1. /\ UNCHANGED <<stored, accepted, make, quar>> /\ bind.pc = "drain"
      /\ bind'.session = bind.session /\ bind.session \in Sessions
      /\ \/ bind'.pc = "finish" /\ UNCHANGED pend
         \/ /\ bind'.pc = "capture" /\ bind'.u = Head(pend[bind.session])
            /\ pend[bind.session] # <<>>
            /\ pend' = [pend EXCEPT ![bind.session] = Tail(@)]
  BY FreshQueues, PopDoes DEF acct
<1>2. BinderHolds = <<>>
  BY <1>1 DEF BinderHolds
<1>3. CASE bind'.pc = "finish" /\ UNCHANGED pend
  BY <1>1, <1>2, <1>3, OrderKept DEF SameFresh, SameEntries, BinderHolds
<1>4. CASE bind.session # Fresh
  <2>1. BinderHolds' = <<>> /\ pend'[Fresh] = pend[Fresh]
    BY <1>1, <1>4, FreshQueues DEF BinderHolds
  <2> QED
    BY <1>1, <1>2, <2>1, OrderKept DEF SameFresh, SameEntries
<1>5. CASE bind'.pc = "capture" /\ bind.session = Fresh
  <2>1. /\ BinderHolds' = <<Head(pend[Fresh])>> /\ pend[Fresh] # <<>>
        /\ pend'[Fresh] = Tail(pend[Fresh])
    BY <1>1, <1>5, FreshQueues DEF BinderHolds
  <2>2. make.pc \in {"bind", "ok"}
    BY <1>1, <1>5, FreshQueues DEF FreshPlaced
  <2>3. CASE make.pc = "bind"
    <3>1. accepted[Fresh] = (stored[Fresh] \o <<>>) \o pend[Fresh]
      BY <1>2, <2>3, FreshQueues DEF FreshOrdered
    <3>2. (stored[Fresh] \o <<>>) \o pend[Fresh]
            = (stored[Fresh] \o <<Head(pend[Fresh])>>) \o Tail(pend[Fresh])
      <4>1. PICK X : X = 1..MaxUpdates
        OBVIOUS
      <4>2. PICK p \in Seq(X), q \in Seq(X) : p = stored[Fresh] /\ q = pend[Fresh]
        BY <4>1, FreshQueues
      <4>3. Head(q) \in X
        BY <2>1, <4>2, HeadTailProperties
      <4>4. (p \o <<>>) \o q = (p \o <<Head(q)>>) \o Tail(q)
        <5>1. PICK u \in X : u = Head(q)
          BY <4>3
        <5>2. q # <<>>
          BY <2>1, <4>2
        <5> QED
          BY <5>2, ChainLaws
      <4> QED
        BY <4>2, <4>4
    <3> QED
      BY <1>1, <2>1, <2>3, <3>1, <3>2 DEF FreshOrdered
  <2>4. CASE make.pc = "ok"
    BY <1>1, <2>4, OrderKept DEF Free
  <2> QED
    BY <2>2, <2>3, <2>4
<1> QED
  BY <1>1, <1>3, <1>4, <1>5

LEMMA BindCaptureOrdered ==
  ASSUME OrderInv, CreationInv', bind_capture
  PROVE  FreshOrdered'
<1>1. /\ UNCHANGED <<quar, accepted>> /\ bind.pc = "capture" /\ bind.session \in Sessions
      /\ \/ /\ stored' = [stored EXCEPT ![bind.session] = Append(@, bind.u)]
            /\ UNCHANGED <<pend, make>> /\ bind'.pc = "drain"
         \/ /\ UNCHANGED stored /\ bind' = BindIdle
            /\ pend' = [pend EXCEPT ![bind.session] = <<bind.u>> \o @]
            /\ make'.pc = IF bind.session = Fresh /\ make.pc = "bind" THEN "unclaim" ELSE make.pc
  BY FreshQueues, BindCaptureDoes DEF write, write_fails
<1>2. make'.failed = make.failed
  <2>1. \/ UNCHANGED make
        \/ make' = [make EXCEPT !.pc = IF bind.session = Fresh /\ @ = "bind" THEN "unclaim" ELSE @]
    BY DEF bind_capture
  <2> QED
    BY <2>1, FreshQueues, SmallFacts
<1>3. BinderHolds' = <<>>
  BY <1>1 DEF BinderHolds, BindIdle
<1>4. CASE bind.session # Fresh
  <2>1. /\ BinderHolds = <<>> /\ pend'[Fresh] = pend[Fresh] /\ stored'[Fresh] = stored[Fresh]
        /\ make'.pc = make.pc
    BY <1>1, <1>4, FreshQueues DEF BinderHolds
  <2> QED
    BY <1>1, <1>2, <1>3, <2>1, OrderKept DEF SameFresh, SameEntries
<1>5. CASE bind.session = Fresh
  <2>1. make.pc \in {"bind", "ok"}
    BY <1>1, <1>5, FreshQueues DEF FreshPlaced
  <2>2. CASE make'.pc # "bind"
    BY <1>1, <1>5, <2>1, <2>2, OrderKept DEF Free
  <2>3. CASE make'.pc = "bind"
    <3>1. /\ make.pc = "bind" /\ pend'[Fresh] = pend[Fresh] /\ BinderHolds = <<bind.u>>
          /\ stored'[Fresh] = Append(stored[Fresh], bind.u)
      BY <1>1, <1>5, <2>1, <2>3, FreshQueues DEF BinderHolds
    <3>2. accepted[Fresh] = (stored[Fresh] \o <<bind.u>>) \o pend[Fresh]
      BY <3>1, FreshQueues DEF FreshOrdered
    <3>3. (stored[Fresh] \o <<bind.u>>) \o pend[Fresh]
            = (Append(stored[Fresh], bind.u) \o <<>>) \o pend[Fresh]
      <4>1. PICK X : X = 1..MaxUpdates
        OBVIOUS
      <4>2. PICK p \in Seq(X), q \in Seq(X), u \in X :
              p = stored[Fresh] /\ q = pend[Fresh] /\ u = bind.u
        BY <1>1, <4>1, FreshQueues
      <4>3. (p \o <<u>>) \o q = (Append(p, u) \o <<>>) \o q
        BY ChainLaws
      <4> QED
        BY <4>2, <4>3
    <3> QED
      BY <1>1, <1>3, <2>3, <3>1, <3>2, <3>3 DEF FreshOrdered
  <2> QED
    BY <2>2, <2>3
<1> QED
  BY <1>4, <1>5

(* A finished quarantine becomes the queue of the new session.             *)
LEMMA FinishOrdered ==
  ASSUME OrderInv, CreationInv', finish_session_creation_capture
  PROVE  FreshOrdered'
<1>1. /\ UNCHANGED <<stored, accepted>> /\ make.pc \in {"publish", "reject"}
      /\ make'.pc \in {"replay", "replay_rejected"}
      /\ make'.pc = "replay" => make.pc = "publish" /\ make'.failed = quar.error
      /\ make.pc = "publish" /\ ~quar.error =>
           make.session = Fresh /\ pend' = [pend EXCEPT ![Fresh] = @ \o matching]
  BY FreshQueues, FinishDoes
<1>2. CASE make'.pc = "replay" /\ ~make'.failed
  <2>1. pend' = [pend EXCEPT ![Fresh] = @ \o matching] /\ make.session = Fresh
    BY <1>1, <1>2
  <2>2. /\ accepted[Fresh] = matching /\ pend[Fresh] = <<>> /\ stored[Fresh] = <<>>
    BY <1>1, <1>2, <2>1, FreshQueues DEF FreshOrdered, matching
  <2>3. pend'[Fresh] = matching
    <3>1. pend'[Fresh] = <<>> \o accepted[Fresh]
      BY <2>1, <2>2, FreshQueues
    <3>2. <<>> \o accepted[Fresh] = accepted[Fresh]
      BY FreshQueues, ConcatEmptySeq
    <3> QED
      BY <2>2, <3>1, <3>2
  <2> QED
    BY <1>1, <1>2, <2>2, <2>3 DEF FreshOrdered
<1>3. CASE ~(make'.pc = "replay" /\ ~make'.failed)
  BY <1>1, <1>3 DEF FreshOrdered
<1> QED
  BY <1>2, <1>3

(* Every step keeps the order.                                             *)
LEMMA OrderStep ==
  ASSUME OrderInv, CreationInv', [Next]_vars
  PROVE  FreshOrdered'
<1>1. ASSUME NEW s \in Sessions, handle_notification(s) PROVE SameFresh
  BY <1>1 DEF handle_notification, cap, queues, SameFresh, SameEntries, BinderHolds
<1>2. CASE lookup_binding
  <2>1. SameFresh
    BY <1>2 DEF lookup_binding, cap, queues, acct, SameFresh, SameEntries, BinderHolds
  <2> QED
    BY <2>1, OrderKept
<1>3. CASE capture_bound_notification
  <2>1. /\ hand.pc = "store" /\ UNCHANGED <<pend, bind>> /\ hand.session \in Sessions
    BY <1>3, FreshQueues, SmallFacts DEF capture_bound_notification, cap, queues
  <2>2. make'.pc = make.pc /\ make'.failed = make.failed /\ SameEntries
    BY <1>3, FreshQueues, SmallFacts DEF capture_bound_notification, cap, refuse, SameEntries
  <2>3. CASE hand.session = Fresh
    <3>1. make.pc = "ok"
      BY <2>1, <2>3, FreshQueues DEF FreshPlaced
    <3> QED
      BY <2>2, <3>1, OrderKept DEF Free
  <2>4. CASE hand.session # Fresh
    <3>1. accepted'[Fresh] = accepted[Fresh] /\ stored'[Fresh] = stored[Fresh]
      BY <1>3, <2>4, FreshQueues DEF capture_bound_notification, write, write_fails, accept
    <3> QED
      BY <2>1, <2>2, <3>1, OrderKept DEF SameFresh, BinderHolds
  <2> QED
    BY <2>3, <2>4
<1>4. CASE begin_session_creation_capture
  <2>1. /\ make.pc = "new" /\ make'.pc = "sent" /\ quar'.entries = <<>>
        /\ UNCHANGED <<pend, stored, accepted>>
    BY <1>4, FreshQueues, SmallFacts DEF begin_session_creation_capture, queues, acct, NoQuar
  <2>2. updates(<<>>) = <<>>
    <3>1. <<>> \in Seq(Entry) /\ Len(<<>>) = 0
      BY EmptySeq
    <3>2. updates(<<>>) \in Seq(1..MaxUpdates) /\ Len(updates(<<>>)) = 0
      BY <3>1, UpdatesAre DEF Updates
    <3> QED
      BY <3>2, EmptySeq
  <2>3. of_sessions(<<>>, {Fresh}) = <<>>
    BY TakeNothing
  <2> QED
    BY <2>1, <2>2, <2>3, FreshQueues DEF FreshOrdered
<1>5. CASE create_session_response
  <2>1. /\ UNCHANGED <<pend, stored, accepted, quar>> /\ make.pc = "sent"
        /\ make'.pc \in {"publish", "unclaim", "reject"}
    BY <1>5, FreshQueues, ResponseDoes DEF cap, queues, acct
  <2>2. CASE make'.pc = "publish"
    BY <2>1, <2>2, FreshQueues DEF FreshOrdered
  <2> QED
    BY <2>1, <2>2, OrderKept DEF Free
<1>6. CASE replay_session_creation_notification
  <2>1. /\ UNCHANGED <<pend, accepted, quar, bind>> /\ make.replay # <<>> /\ make'.pc = make.pc
        /\ make'.failed = make.failed \/ make'.failed = TRUE
    BY <1>6, FreshQueues, ReplayDoes DEF cap, queues
  <2>2. stored'[Fresh] = stored[Fresh]
    <3>1. make.pc # "ok"
      BY <2>1, FreshQueues DEF HoldersPlaced
    <3>2. Fresh \notin bound
      BY <3>1, FreshQueues DEF FreshPlaced
    <3>3. PICK e : e = Head(make.replay)
      OBVIOUS
    <3>4. UNCHANGED stored \/ (e.session \in bound /\ write(e.session, e.u))
      BY <1>6, <3>3, FreshQueues, ReplayDoes
    <3> QED
      BY <3>2, <3>4, FreshQueues DEF write
  <2> QED
    BY <2>1, <2>2, OrderKept DEF SameFresh, SameEntries, BinderHolds
<1>7. CASE creation_published
  <2>1. /\ UNCHANGED <<pend, stored, accepted, bind>> /\ make.pc \in {"replay", "replay_rejected"}
        /\ make'.pc \in {"error", "unclaim", "bind"}
        /\ make'.pc = "bind" => make.pc = "replay" /\ ~make.failed
    BY <1>7, FreshQueues, PublishedDoes DEF cap, queues, acct
  <2>2. CASE make'.pc = "bind"
    <3>1. accepted[Fresh] = pend[Fresh] /\ stored[Fresh] = <<>>
      BY <2>1, <2>2, FreshQueues DEF FreshOrdered
    <3>2. BinderHolds' = <<>>
      BY <2>1, FreshQueues DEF FreshPlaced, BinderHolds
    <3>3. (<<>> \o <<>>) \o pend[Fresh] = pend[Fresh]
      <4>1. <<>> \in Seq(1..MaxUpdates)
        BY EmptySeq
      <4>2. <<>> \o <<>> = <<>> /\ <<>> \o pend[Fresh] = pend[Fresh]
        BY <4>1, FreshQueues, ConcatEmptySeq
      <4> QED
        BY <4>2
    <3> QED
      BY <2>1, <2>2, <3>1, <3>2, <3>3 DEF FreshOrdered
  <2> QED
    BY <2>1, <2>2, OrderKept DEF Free
<1>8. CASE rollback_publication
  BY <1>8, FreshQueues, RollbackDoes, OrderKept DEF Free
<1>9. ASSUME NEW s \in Sessions, bind_start(s) PROVE SameFresh
  BY <1>9 DEF bind_start, acct, SameFresh, SameEntries, BinderHolds
<1>10. CASE bind_finish
  <2>1. /\ bind.pc = "finish" /\ UNCHANGED <<pend, stored, accepted, quar>>
    BY <1>10 DEF bind_finish, acct
  <2>2. bind'.pc # "capture" /\ make'.failed = make.failed /\ (make'.pc = make.pc \/ make'.pc = "ok")
    BY <1>10, FreshQueues, SmallFacts DEF bind_finish, BindIdle
  <2> QED
    BY <2>1, <2>2, OrderKept DEF SameFresh, SameEntries, BinderHolds, Free
<1>11. ASSUME NEW s \in Sessions, begin_capture_operation(s) \/ response_arrives(s) \/ take_capture_failure(s)
       PROVE  SameFresh
  BY <1>11 DEF begin_capture_operation, response_arrives, take_capture_failure, cap, queues, acct,
     SameFresh, SameEntries, BinderHolds
<1>12. ASSUME NEW s \in Sessions, unbind_session(s) PROVE FreshOrdered'
  <2>1. /\ UNCHANGED <<stored, accepted, make, bind, quar>> /\ pend' = [pend EXCEPT ![s] = <<>>]
        /\ s = Fresh => make.pc = "ok"
    BY <1>12 DEF unbind_session, unbind, busy
  <2>2. CASE s = Fresh
    BY <2>1, <2>2, OrderKept DEF Free
  <2>3. CASE s # Fresh
    <3>1. pend'[Fresh] = pend[Fresh]
      BY <2>1, <2>3, FreshQueues
    <3> QED
      BY <2>1, <3>1, OrderKept DEF SameFresh, SameEntries, BinderHolds
  <2> QED
    BY <2>2, <2>3
<1>13. CASE remove_agent_state
  <2>1. /\ make.pc \in {"new", "ok", "error"} /\ pend' = [s \in Sessions |-> <<>>]
        /\ UNCHANGED <<stored, accepted, make>>
    BY <1>13, FreshQueues, RemoveDoes, Zenon
  <2>2. CASE make.pc = "new"
    BY <2>1, <2>2, FreshQueues DEF FreshOrdered
  <2> QED
    BY <2>1, <2>2, OrderKept DEF Free
<1>14. CASE UNCHANGED vars
  <2>1. SameFresh
    BY <1>14 DEF vars, cap, queues, acct, SameFresh, SameEntries, BinderHolds
  <2> QED
    BY <2>1, OrderKept
<1>15. CASE record_session_creation_capture_failure \/ record_refusal \/ record_replay_failure
  <2>1. HoldInv
    BY FreshQueues
  <2>2. SameFresh
    BY <1>15, <2>1, RecordDoes DEF queues, acct, SameFresh, SameEntries, BinderHolds
  <2> QED
    BY <2>2, OrderKept
<1> QED
  BY <1>1, <1>2, <1>3, <1>4, <1>5, <1>6, <1>7, <1>8, <1>9, <1>10, <1>11, <1>12, <1>13, <1>14, <1>15,
     OrderKept, QuarantineOrdered, QueueOrdered, PopOrdered, BindCaptureOrdered, FinishOrdered
     DEF Next, Handler, Creator, Binder, Turn

LEMMA OrderStarts ==
  ASSUME Init
  PROVE  OrderInv
<1>1. HoldInv
  BY HoldStarts
<1>2. Fresh \in Sessions /\ Fresh \notin Known
  BY CaptureAssumption DEF Sessions
<1> QED
  BY <1>1, <1>2 DEF Init, OrderInv, FreshPlaced, FreshOrdered, MakeNew, HandIdle, BindIdle

(* The step in which session/new succeeds is the binder's last.            *)
LEMMA BoundComplete ==
  ASSUME OrderInv, [Next]_vars, make.pc = "bind", make'.pc = "ok"
  PROVE  stored'[Fresh] = accepted'[Fresh]
<1>1. bind_finish
  <2>1. HoldInv
    BY FreshQueues
  <2>2. \A s \in Sessions : ~handle_notification(s)
    BY DEF handle_notification
  <2>3. ~capture_session_creation_notification
    BY <2>1, QuarantineDoes
  <2>4. ~lookup_binding
    BY DEF lookup_binding
  <2>5. ~enqueue_pending /\ ~capture_bound_notification
    <3>1. refuse => make'.pc = make.pc
      BY <2>1, SmallFacts DEF refuse
    <3> QED
      BY <3>1 DEF enqueue_pending, capture_bound_notification, cap
  <2>6. /\ ~begin_session_creation_capture /\ ~create_session_response
        /\ ~finish_session_creation_capture /\ ~creation_published /\ ~rollback_publication
    BY DEF begin_session_creation_capture, create_session_response,
       finish_session_creation_capture, creation_published, rollback_publication
  <2>7. ~replay_session_creation_notification
    BY <2>1, ReplayDoes
  <2>8. \A s \in Sessions : ~bind_start(s) /\ ~begin_capture_operation(s) /\ ~response_arrives(s)
                            /\ ~take_capture_failure(s) /\ ~unbind_session(s)
    BY DEF bind_start, begin_capture_operation, response_arrives, take_capture_failure, unbind_session
  <2>9. ~bind_pop
    BY DEF bind_pop
  <2>10. ~bind_capture
    BY <2>1, BindCaptureDoes
  <2>11. ~remove_agent_state
    BY Zenon DEF remove_agent_state
  <2>12. ~UNCHANGED vars
    BY DEF vars
  <2>13. ~(record_session_creation_capture_failure \/ record_refusal \/ record_replay_failure)
    BY <2>1, RecordDoes
  <2> QED
    BY <2>13, <2>2, <2>3, <2>4, <2>5, <2>6, <2>7, <2>8, <2>9, <2>10, <2>11, <2>12
       DEF Next, Handler, Creator, Binder, Turn
<1>2. /\ bind.pc = "finish" /\ bind.session = Fresh /\ pend[Fresh] = <<>>
      /\ UNCHANGED <<stored, accepted>>
  BY <1>1, FreshQueues, SmallFacts DEF bind_finish, acct
<1>3. accepted[Fresh] = (stored[Fresh] \o <<>>) \o <<>>
  BY <1>2, FreshQueues DEF FreshOrdered, BinderHolds
<1>4. stored[Fresh] \o <<>> = stored[Fresh]
  BY FreshQueues, ConcatEmptySeq
<1> QED
  BY <1>2, <1>3, <1>4

(* When the bind of a new session ends, the store holds every update that  *)
(* was accepted for it, in protocol order (bind_session behind             *)
(* hub/conversation.rs): what arrives while the queue drains goes behind   *)
(* it, and the queue is looked at again before the session is bound.       *)
THEOREM DrainsInOrder == Spec => DrainComplete
<1>1. Init => OrderInv /\ TurnInv
  BY OrderStarts, HoldStarts
<1>2. OrderInv /\ TurnInv /\ [Next]_vars => (OrderInv /\ TurnInv)'
  <2> SUFFICES ASSUME OrderInv, TurnInv, [Next]_vars PROVE (OrderInv /\ TurnInv)'
    OBVIOUS
  <2>1. HoldInv' /\ TurnInv'
    BY HoldStep, TurnStep DEF OrderInv, HoldInv
  <2>2. CreationInv'
    BY <2>1 DEF HoldInv
  <2> QED
    BY <2>1, <2>2, FreshPlacedStep, OrderStep DEF OrderInv
<1>3. OrderInv /\ [Next]_vars =>
        [make.pc = "bind" /\ make'.pc = "ok" => stored'[Fresh] = accepted'[Fresh]]_vars
  BY BoundComplete
<1> QED
  BY <1>1, <1>2, <1>3, PTL DEF Spec, DrainComplete
=============================================================================
