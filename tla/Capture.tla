------------------------------ MODULE Capture ------------------------------
(***************************************************************************)
(* How the callback context of one agent connection captures its           *)
(* session/update notifications (callbacks/capture.rs): the quarantine of  *)
(* a session/new in progress, the pre-bind queues, binding and unbinding   *)
(* of sessions (callbacks/connection.rs), the budget and the failure       *)
(* ledger of a capture operation, and the publication of a new             *)
(* conversation (hub/conversation.rs).                                     *)
(*                                                                         *)
(* Updates are numbered in the order in which the agent sends them and     *)
(* weigh one unit, so that the byte quotas and the count quotas coincide;  *)
(* one above the size limit of a single update is refused, and recorded,   *)
(* like one above a quota.  The agent connection handles notifications     *)
(* one at a time.  Connection leases keep the generation from changing     *)
(* under the handler, a publication or a command, and operation leases     *)
(* keep two binds, or a bind and an unbind, of one session apart, so that  *)
(* the "draining" mark of bind_session never refuses anything here.        *)
(***************************************************************************)
EXTENDS Integers, Sequences, FiniteSets, FiniteSetsExt, SequencesExt

CONSTANTS
  Fresh,        \* the session that session/new creates
  Known,        \* sessions that have a conversation already
  MaxUpdates,   \* bound: updates the agent sends
  MaxPending,   \* MAX_PENDING_NOTIFICATIONS
  MaxPerSession,\* MAX_PENDING_PER_SESSION
  MaxKeys,      \* MAX_PENDING_SESSIONS
  MaxBudget,    \* MAX_CAPTURE_UPDATES_PER_TURN
  MaxFaults,    \* bound: store failures and lost connections
  MaxTurns,     \* bound: capture operations
  None

Sessions == {Fresh} \cup Known

ASSUME CaptureAssumption ==
  /\ Fresh \notin Known /\ None \notin Sessions /\ IsFiniteSet(Known)
  /\ {MaxUpdates, MaxPending, MaxPerSession, MaxKeys, MaxBudget, MaxFaults, MaxTurns}
       \subseteq Nat

VARIABLES
  bound,     \* sessions with a binding
  pend,      \* pending_notifications.sessions
  keys,      \* the sessions that have a queue, empty ones included
  pcount,    \* pending_notifications.count
  quar,      \* the session creation capture: active, entries, error
  qcount,    \* session_creation_captures.count
  budget,    \* capture_budgets
  ledger,    \* capture_failures: "none", "clean" or "failed"
  stored,    \* updates captured, in the order of the store
  last,      \* the number of the agent's latest update
  hand,      \* the notification handler: pc, session, update
  accepted,  \* updates the handler has returned Ok for
  dropped,   \* accepted updates that were discarded
  make,      \* the worker of session/new; "refused" has the stages at which an
             \* update was refused, "owes" the failure that it has to record
  bind,      \* bind_session in progress: pc, session, entry
  turn,      \* capture operations: "none", "running", "answered", "ok", "failed"
  missed,    \* who failed to capture an update during the operation of a session
  turns, faults

queues == <<pend, keys, pcount>>
cap    == <<queues, quar, qcount>>
acct   == <<stored, last, accepted, dropped, budget>>
ops    == <<turn, ledger, missed, turns>>
vars   == <<bound, cap, acct, ops, hand, make, bind, faults>>

NoQuar   == [active |-> FALSE, entries |-> <<>>, error |-> FALSE]
HandIdle == [pc |-> "idle", session |-> None, u |-> 0]
BindIdle == [pc |-> "idle", session |-> None, u |-> 0]
MakeNew  == [pc |-> "new", session |-> None, replay |-> <<>>, failed |-> FALSE,
             refused |-> {}, owes |-> None]

Init ==
  /\ bound = Known
  /\ pend = [s \in Sessions |-> <<>>] /\ keys = {} /\ pcount = 0
  /\ quar = NoQuar /\ qcount = 0
  /\ budget = [s \in Sessions |-> 0]
  /\ ledger = [s \in Sessions |-> "none"]
  /\ stored = [s \in Sessions |-> <<>>]
  /\ last = 0 /\ hand = HandIdle
  /\ accepted = [s \in Sessions |-> <<>>] /\ dropped = {}
  /\ make = MakeNew /\ bind = BindIdle
  /\ turn = [s \in Sessions |-> "none"] /\ missed = {}
  /\ turns = 0 /\ faults = 0

busy(s) == \/ turn[s] \in {"running", "answered"}
           \/ bind.session = s
           \/ s = Fresh /\ make.pc # "ok"
may_fail == faults < MaxFaults
fault == faults' = faults + 1

-----------------------------------------------------------------------------
(* handle_notification: an update of the agent, for a session it knows.    *)
handle_notification(s) ==
  /\ hand.pc = "idle" /\ last < MaxUpdates
  /\ s = Fresh => make.pc # "new"
  /\ last' = last + 1
  /\ hand' = [pc |-> "quarantine", session |-> s, u |-> last + 1]
  /\ UNCHANGED <<bound, cap, stored, accepted, dropped, budget, ops, make, bind, faults>>

(* The handler returns Ok.                                                 *)
accept == /\ hand' = HandIdle
          /\ accepted' = [accepted EXCEPT ![hand.session] = Append(@, hand.u)]

(* The handler gets an error and has released the locks it was decided     *)
(* under.  Ghosts: the stage of the creation and the operation it hits.    *)
refuse ==
  /\ hand' = [hand EXCEPT !.pc = "refused"]
  /\ make' = [make EXCEPT !.refused = IF quar.active THEN @ \cup {make.pc} ELSE @]
  /\ missed' = IF turn[hand.session] = "running"
               THEN missed \cup {<<hand.session, "handler">>} ELSE missed

(* Mutant: the refused update does not poison the creation in progress.    *)
record_no_creation_failure ==
  /\ hand.pc = "refused"
  /\ hand' = [hand EXCEPT !.pc = "recording"]
  /\ UNCHANGED <<bound, cap, acct, ops, make, bind, faults>>

(* The error poisons the session/new whose quarantine is still open.       *)
record_session_creation_capture_failure ==
  /\ hand.pc = "refused"
  /\ hand' = [hand EXCEPT !.pc = "recording"]
  /\ quar' = [quar EXCEPT !.error = quar.active]
  /\ UNCHANGED <<bound, queues, qcount, acct, ops, make, bind, faults>>

(* Mutant: only the session/new in progress hears of the failure.          *)
record_nothing(s) == UNCHANGED ledger

(* record_capture_failure: what a capture operation of s reports.          *)
record_capture_failure(s) ==
  ledger' = [ledger EXCEPT ![s] = IF @ = "clean" THEN "failed" ELSE @]

(* ... and the capture operation of the session; the handler returns it.   *)
record_refusal ==
  /\ hand.pc = "recording"
  /\ hand' = HandIdle
  /\ record_capture_failure(hand.session)
  /\ UNCHANGED <<bound, cap, acct, turn, missed, turns, make, bind, faults>>

quarantined(s) == Cardinality({i \in DOMAIN quar.entries : quar.entries[i].session = s})
distinct_keys == keys \cup {quar.entries[i].session : i \in DOMAIN quar.entries}
quota_exceeded(s) ==
  \/ s \notin distinct_keys /\ Cardinality(distinct_keys) + 1 > MaxKeys
  \/ pcount + qcount >= MaxPending

(* capture_session_creation_notification: while a session/new is in        *)
(* progress every update of the agent is kept aside.                       *)
capture_session_creation_notification ==
  LET s == hand.session
      full == quarantined(s) + Len(pend[s]) >= MaxPerSession \/ quota_exceeded(s) IN
  /\ hand.pc = "quarantine"
  /\ \/ /\ ~quar.active
        /\ hand' = [hand EXCEPT !.pc = "lookup"]
        /\ UNCHANGED <<quar, qcount, accepted, missed, make>>
     \/ /\ quar.active /\ full
        /\ refuse
        /\ UNCHANGED <<quar, qcount, accepted>>
     \/ /\ quar.active /\ ~full
        /\ quar' = [quar EXCEPT !.entries = Append(@, [session |-> s, u |-> hand.u])]
        /\ qcount' = qcount + 1
        /\ accept
        /\ UNCHANGED <<missed, make>>
  /\ UNCHANGED <<bound, queues, stored, last, dropped, budget, bind, turn, ledger, turns,
                 faults>>

(* The binding is read, and its lock released, before it is used.          *)
lookup_binding ==
  /\ hand.pc = "lookup"
  /\ hand' = [hand EXCEPT !.pc = IF hand.session \in bound THEN "store" ELSE "enqueue"]
  /\ UNCHANGED <<bound, cap, acct, ops, make, bind, faults>>

(* The session has no binding: its update waits for one.                   *)
enqueue_pending ==
  LET s == hand.session IN
  /\ hand.pc = "enqueue"
  /\ \/ /\ quota_exceeded(s) \/ Len(pend[s]) >= MaxPerSession
        /\ refuse
        /\ keys' = IF quota_exceeded(s) THEN keys ELSE keys \cup {s}
        /\ UNCHANGED <<pend, pcount, accepted>>
     \/ /\ ~quota_exceeded(s) /\ Len(pend[s]) < MaxPerSession
        /\ accept
        /\ pend' = [pend EXCEPT ![s] = Append(@, hand.u)]
        /\ keys' = keys \cup {s}
        /\ pcount' = pcount + 1
        /\ UNCHANGED <<missed, make>>
  /\ UNCHANGED <<bound, quar, qcount, stored, last, dropped, budget, bind, turn, ledger,
                 turns, faults>>

(* capture_bound_notification: the budget is charged, the update written   *)
(* to the store, and the charge undone when the store fails.               *)
affordable(s) == budget[s] < MaxBudget
write(s, u) ==
  /\ affordable(s)
  /\ budget' = [budget EXCEPT ![s] = @ + 1]
  /\ stored' = [stored EXCEPT ![s] = Append(@, u)]
  /\ UNCHANGED faults
write_fails(s) ==
  /\ \/ ~affordable(s) /\ UNCHANGED faults
     \/ affordable(s) /\ may_fail /\ fault
  /\ UNCHANGED <<budget, stored>>

capture_bound_notification ==
  /\ hand.pc = "store"
  /\ \/ write(hand.session, hand.u) /\ accept /\ UNCHANGED <<missed, make>>
     \/ write_fails(hand.session) /\ refuse /\ UNCHANGED accepted
  /\ UNCHANGED <<bound, cap, last, dropped, bind, turn, ledger, turns>>

-----------------------------------------------------------------------------
(* A capture operation of a bound session: session/prompt, session/load or *)
(* session/resume.  Its response is dispatched after the updates that were *)
(* sent before it.                                                         *)
begin_capture_operation(s) ==
  /\ s \in bound /\ ~busy(s) /\ turns < MaxTurns
  /\ turns' = turns + 1
  /\ turn' = [turn EXCEPT ![s] = "running"]
  /\ ledger' = [ledger EXCEPT ![s] = "clean"]
  /\ budget' = [budget EXCEPT ![s] = 0]
  /\ missed' = missed \ ({s} \X {"handler", "replay"})
  /\ UNCHANGED <<bound, cap, stored, last, accepted, dropped, hand, make, bind, faults>>

response_arrives(s) ==
  /\ turn[s] = "running" /\ hand.pc = "idle"
  /\ turn' = [turn EXCEPT ![s] = "answered"]
  /\ UNCHANGED <<bound, cap, acct, ledger, missed, turns, hand, make, bind, faults>>

take_capture_failure(s) ==
  /\ turn[s] = "answered"
  /\ turn' = [turn EXCEPT ![s] = IF ledger[s] = "failed" THEN "failed" ELSE "ok"]
  /\ ledger' = [ledger EXCEPT ![s] = "none"]
  /\ UNCHANGED <<bound, cap, acct, missed, turns, hand, make, bind, faults>>

-----------------------------------------------------------------------------
(* session/new: the quarantine is opened before the request is sent.       *)
begin_session_creation_capture ==
  /\ make.pc = "new"
  /\ make' = [make EXCEPT !.pc = "sent"]
  /\ quar' = [NoQuar EXCEPT !.active = TRUE]
  /\ UNCHANGED <<bound, queues, qcount, acct, ops, hand, bind, faults>>

(* The response.  A session that has a conversation already, or whose      *)
(* identity another operation holds, is a conflict; creating the row and   *)
(* its snapshots may fail; the request itself may fail, and the lease of   *)
(* the quarantine is then dropped.                                         *)
create_session_response ==
  /\ make.pc = "sent" /\ hand.pc = "idle"
  /\ \/ make' = [make EXCEPT !.pc = "publish", !.session = Fresh] /\ UNCHANGED faults
     \/ may_fail /\ fault /\ make' = [make EXCEPT !.pc = "unclaim", !.session = Fresh]
     \/ \E s \in Known : make' = [make EXCEPT !.pc = "reject", !.session = s]
                         /\ UNCHANGED faults
     \/ make' = [make EXCEPT !.pc = "reject"] /\ UNCHANGED faults
  /\ UNCHANGED <<bound, cap, acct, ops, hand, bind>>

(* finish_session_creation_capture: the updates of the new session become  *)
(* its pre-bind queue, or are discarded; the others are replayed.          *)
of_sessions(es, S) ==
  LET taken[i \in 0..Len(es)] ==
        IF i = 0 THEN <<>>
        ELSE IF es[i].session \in S THEN Append(taken[i - 1], es[i]) ELSE taken[i - 1]
  IN  taken[Len(es)]
updates(es) == [i \in 1..Len(es) |-> es[i].u]
matching == updates(of_sessions(quar.entries, {make.session}))

(* Mutant: the matching updates are copied, not moved.                     *)
finish_copies ==
  LET s == make.session
      publish == make.pc = "publish" /\ ~quar.error IN
  /\ make.pc \in {"publish", "reject"} /\ quar.active
  /\ quar' = NoQuar
  /\ qcount' = 0
  /\ IF publish
     THEN /\ pend' = [pend EXCEPT ![s] = @ \o matching]
          /\ keys' = IF matching = <<>> THEN keys ELSE keys \cup {s}
          /\ pcount' = pcount + Len(matching)
          /\ UNCHANGED dropped
     ELSE /\ dropped' = dropped \cup ToSet(matching)
          /\ UNCHANGED queues
  /\ make' = [make EXCEPT !.pc = IF make.pc = "publish" THEN "replay" ELSE "replay_rejected",
                          !.failed = quar.error,
                          !.replay = quar.entries]
  /\ UNCHANGED <<bound, stored, last, accepted, budget, ops, hand, bind, faults>>

finish_session_creation_capture ==
  LET s == make.session
      publish == make.pc = "publish" /\ ~quar.error IN
  /\ make.pc \in {"publish", "reject"} /\ quar.active
  /\ quar' = NoQuar
  /\ qcount' = 0
  /\ IF publish
     THEN /\ pend' = [pend EXCEPT ![s] = @ \o matching]
          /\ keys' = IF matching = <<>> THEN keys ELSE keys \cup {s}
          /\ pcount' = pcount + Len(matching)
          /\ UNCHANGED dropped
     ELSE /\ dropped' = dropped \cup ToSet(matching)
          /\ UNCHANGED queues
  /\ make' = [make EXCEPT !.pc = IF make.pc = "publish" THEN "replay" ELSE "replay_rejected",
                          !.failed = quar.error,
                          !.replay = of_sessions(quar.entries, Sessions \ {s})]
  /\ UNCHANGED <<bound, stored, last, accepted, budget, ops, hand, bind, faults>>

(* replay_session_creation_notification, one entry at a time, after the    *)
(* quarantine is gone: written when its session is bound, else discarded.  *)
replay_session_creation_notification ==
  LET e == Head(make.replay) IN
  /\ make.replay # <<>> /\ make.owes = None
  /\ \/ /\ e.session \in bound /\ write(e.session, e.u)
        /\ make' = [make EXCEPT !.replay = Tail(@)]
        /\ UNCHANGED <<missed, dropped>>
     \/ /\ e.session \in bound /\ write_fails(e.session)
        /\ make' = [make EXCEPT !.replay = Tail(@), !.failed = TRUE, !.owes = e.session]
        /\ missed' = IF turn[e.session] = "running"
                     THEN missed \cup {<<e.session, "replay">>} ELSE missed
        /\ dropped' = dropped \cup {e.u}
     \/ /\ e.session \notin bound
        /\ make' = [make EXCEPT !.replay = Tail(@)]
        /\ dropped' = dropped \cup {e.u}
        /\ UNCHANGED <<budget, stored, missed, faults>>
  /\ UNCHANGED <<bound, cap, last, accepted, turn, ledger, turns, hand, bind>>

(* The failure of a replayed update is recorded after its write.           *)
record_replay_failure ==
  /\ make.owes # None
  /\ make' = [make EXCEPT !.owes = None]
  /\ record_capture_failure(make.owes)
  /\ UNCHANGED <<bound, cap, acct, turn, missed, turns, hand, bind, faults>>

(* publish or reject returns: the new session is bound, the publication    *)
(* undone, or the error reported.                                          *)
creation_published ==
  /\ make.pc \in {"replay", "replay_rejected"} /\ make.replay = <<>> /\ make.owes = None
  /\ make' = [make EXCEPT !.pc = CASE make.pc = "replay_rejected" -> "error"
                                   [] make.pc = "replay" /\ make.failed -> "unclaim"
                                   [] OTHER -> "bind"]
  /\ UNCHANGED <<bound, cap, acct, ops, hand, bind, faults>>

(* Mutant: the queue goes and its length stays in the count.               *)
unbind_leaks(s) ==
  /\ bound' = bound \ {s}
  /\ budget' = [budget EXCEPT ![s] = 0]
  /\ ledger' = [ledger EXCEPT ![s] = "none"]
  /\ dropped' = dropped \cup ToSet(pend[s])
  /\ pend' = [pend EXCEPT ![s] = <<>>]
  /\ keys' = keys \ {s}
  /\ UNCHANGED pcount

(* unbind_session: the binding, the budget, the ledger and the queue of    *)
(* the session go.                                                         *)
unbind(s) ==
  /\ bound' = bound \ {s}
  /\ budget' = [budget EXCEPT ![s] = 0]
  /\ ledger' = [ledger EXCEPT ![s] = "none"]
  /\ dropped' = dropped \cup ToSet(pend[s])
  /\ pend' = [pend EXCEPT ![s] = <<>>]
  /\ keys' = keys \ {s}
  /\ pcount' = pcount - Len(pend[s])

(* The publication failed: the session is unbound, the row deleted, and    *)
(* the quarantine rejected if publish has not consumed it.                 *)
rollback_publication ==
  /\ make.pc = "unclaim"
  /\ unbind(Fresh)
  /\ make' = [make EXCEPT !.pc = IF quar.active THEN "reject" ELSE "error"]
  /\ UNCHANGED <<quar, qcount, stored, last, accepted, turn, missed, turns, hand, bind,
                 faults>>

-----------------------------------------------------------------------------
(* bind_session, of a new session and of one that is loaded or resumed:    *)
(* an existing binding is removed, so that updates queue up behind the     *)
(* ones that wait.                                                         *)
bind_start(s) ==
  /\ bind.pc = "idle"
  /\ IF s = Fresh /\ make.pc = "bind" THEN TRUE ELSE ~busy(s) /\ turns < MaxTurns
  /\ bind' = [pc |-> "drain", session |-> s, u |-> 0]
  /\ bound' = bound \ {s}
  /\ keys' = keys \cup {s}
  /\ ledger' = [ledger EXCEPT ![s] = "none"]
  /\ turns' = IF s = Fresh /\ make.pc = "bind" THEN turns ELSE turns + 1
  /\ UNCHANGED <<pend, pcount, quar, qcount, acct, turn, missed, hand, make, faults>>

(* One entry is taken off the queue.                                       *)
bind_pop ==
  LET s == bind.session IN
  /\ bind.pc = "drain"
  /\ \/ /\ pend[s] = <<>>
        /\ bind' = [bind EXCEPT !.pc = "finish"]
        /\ UNCHANGED <<pend, pcount>>
     \/ /\ pend[s] # <<>>
        /\ bind' = [bind EXCEPT !.pc = "capture", !.u = Head(pend[s])]
        /\ pend' = [pend EXCEPT ![s] = Tail(@)]
        /\ pcount' = pcount - 1
  /\ UNCHANGED <<bound, keys, quar, qcount, acct, ops, hand, make, faults>>

(* It is captured as if it arrived now; when that fails it goes back to    *)
(* the front of the queue and bind_session returns the error.              *)
bind_capture ==
  LET s == bind.session IN
  /\ bind.pc = "capture"
  /\ \/ /\ write(s, bind.u)
        /\ bind' = [bind EXCEPT !.pc = "drain", !.u = 0]
        /\ UNCHANGED <<queues, ledger, make>>
     \/ /\ write_fails(s)
        /\ record_capture_failure(s)
        /\ pend' = [pend EXCEPT ![s] = <<bind.u>> \o @]
        /\ keys' = keys \cup {s}
        /\ pcount' = pcount + 1
        /\ bind' = BindIdle
        /\ make' = [make EXCEPT !.pc = IF s = Fresh /\ @ = "bind" THEN "unclaim" ELSE @]
  /\ UNCHANGED <<bound, quar, qcount, last, accepted, dropped, turn, missed, turns, hand>>

(* Mutant: the queue is not looked at again under the session lock.        *)
bind_finish_unchecked ==
  LET s == bind.session IN
  /\ bind.pc = "finish"
  /\ bind' = BindIdle
  /\ bound' = bound \cup {s}
  /\ keys' = keys \ {s}
  /\ make' = [make EXCEPT !.pc = IF s = Fresh /\ @ = "bind" THEN "ok" ELSE @]
  /\ UNCHANGED <<pend, pcount, quar, qcount, acct, ops, hand, faults>>

(* The queue is empty under both locks: the session is bound.              *)
bind_finish ==
  LET s == bind.session IN
  /\ bind.pc = "finish"
  /\ \/ /\ pend[s] # <<>>
        /\ bind' = [bind EXCEPT !.pc = "drain"]
        /\ UNCHANGED <<bound, keys, make>>
     \/ /\ pend[s] = <<>>
        /\ bind' = BindIdle
        /\ bound' = bound \cup {s}
        /\ keys' = keys \ {s}
        /\ make' = [make EXCEPT !.pc = IF s = Fresh /\ @ = "bind" THEN "ok" ELSE @]
  /\ UNCHANGED <<pend, pcount, quar, qcount, acct, ops, hand, faults>>

-----------------------------------------------------------------------------
(* Close, delete, or a load that failed.                                   *)
unbind_session(s) ==
  /\ s \in bound /\ ~busy(s)
  /\ unbind(s)
  /\ UNCHANGED <<quar, qcount, stored, last, accepted, turn, missed, turns, hand, make,
                 bind, faults>>

(* The connection is replaced or revoked: remove_agent_state.  The         *)
(* generation writer waits for the handler, the publication and every      *)
(* command.                                                                *)
remove_agent_state ==
  /\ may_fail /\ fault
  /\ hand.pc = "idle" /\ bind.pc = "idle" /\ make.pc \in {"new", "ok", "error"}
  /\ \A s \in Sessions : turn[s] \notin {"running", "answered"}
  /\ bound' = {}
  /\ budget' = [s \in Sessions |-> 0]
  /\ ledger' = [s \in Sessions |-> "none"]
  /\ dropped' = dropped \cup UNION {ToSet(pend[s]) : s \in Sessions}
  /\ pend' = [s \in Sessions |-> <<>>] /\ keys' = {}
  /\ pcount' = pcount - MapThenSumSet(LAMBDA s : Len(pend[s]), Sessions)
  /\ quar' = NoQuar /\ qcount' = qcount - Len(quar.entries)
  /\ UNCHANGED <<stored, last, accepted, turn, missed, turns, hand, make, bind>>

Handler == \/ \E s \in Sessions : handle_notification(s)
           \/ capture_session_creation_notification \/ lookup_binding \/ enqueue_pending
           \/ capture_bound_notification \/ record_session_creation_capture_failure
           \/ record_refusal
Creator == \/ begin_session_creation_capture \/ create_session_response
           \/ finish_session_creation_capture \/ replay_session_creation_notification
           \/ record_replay_failure \/ creation_published \/ rollback_publication
Binder == (\E s \in Sessions : bind_start(s)) \/ bind_pop \/ bind_capture \/ bind_finish
Turn(s) == begin_capture_operation(s) \/ response_arrives(s) \/ take_capture_failure(s)
             \/ unbind_session(s)

Next == Handler \/ Creator \/ Binder \/ (\E s \in Sessions : Turn(s)) \/ remove_agent_state

Spec == Init /\ [][Next]_vars

-----------------------------------------------------------------------------
Entry == [session : Sessions, u : 1..MaxUpdates]
Updates == Seq(1..MaxUpdates)

(* Every variable has its type.                                            *)
CaptureTypeOK ==
  /\ bound \subseteq Sessions /\ keys \subseteq Sessions
  /\ pend \in [Sessions -> Updates] /\ stored \in [Sessions -> Updates]
  /\ accepted \in [Sessions -> Updates]
  /\ pcount \in Nat /\ qcount \in Nat
  /\ quar.active \in BOOLEAN /\ quar.error \in BOOLEAN
  /\ quar.entries \in Seq(Entry) /\ make.replay \in Seq(Entry)
  /\ budget \in [Sessions -> 0..MaxBudget]
  /\ ledger \in [Sessions -> {"none", "clean", "failed"}]
  /\ last \in 0..MaxUpdates /\ dropped \subseteq 1..MaxUpdates
  /\ hand.pc \in {"idle", "quarantine", "lookup", "enqueue", "store", "refused", "recording"}
  /\ hand.session \in Sessions \cup {None} /\ hand.u \in 0..MaxUpdates
  /\ make.pc \in {"new", "sent", "publish", "replay", "reject", "replay_rejected",
                  "unclaim", "bind", "ok", "error"}
  /\ make.session \in Sessions \cup {None} /\ make.owes \in Sessions \cup {None}
  /\ make.refused \subseteq {"sent", "publish", "reject", "unclaim"}
  /\ bind.pc \in {"idle", "drain", "capture", "finish"}
  /\ bind.session \in Sessions \cup {None} /\ bind.u \in 0..MaxUpdates
  /\ turn \in [Sessions -> {"none", "running", "answered", "ok", "failed"}]
  /\ missed \subseteq Sessions \X {"handler", "replay"} /\ faults \in 0..MaxFaults /\ turns \in 0..MaxTurns

(* The counters that the quotas are decided on are the lengths of what is  *)
(* held, through every hand-over from the quarantine to a queue, to the    *)
(* binder and back, and what is held exceeds the limit by the one entry at *)
(* most that a failed bind returns.                                        *)
QuotaExact ==
  /\ pcount = MapThenSumSet(LAMBDA s : Len(pend[s]), Sessions)
  /\ qcount = Len(quar.entries)
  /\ pcount + qcount <= MaxPending + 1
  /\ \A s \in Sessions : pend[s] # <<>> => s \in keys

(* An update that the handler accepted is in exactly one place: a queue,   *)
(* the quarantine, the hands of the worker or of the binder, the store, or *)
(* among the discarded ones.  It is neither lost nor stored twice.         *)
occurrences(seq, u) == Cardinality({i \in DOMAIN seq : seq[i] = u})
places(s, u) ==
  occurrences(pend[s], u) + occurrences(stored[s], u)
  + occurrences(quar.entries, [session |-> s, u |-> u])
  + occurrences(make.replay, [session |-> s, u |-> u])
  + (IF bind.session = s /\ bind.u = u THEN 1 ELSE 0)
  + (IF u \in dropped \cap ToSet(accepted[s]) THEN 1 ELSE 0)
UpdatesExactlyOnce ==
  \A s \in Sessions : \A u \in 1..MaxUpdates :
    places(s, u) = IF u \in ToSet(accepted[s]) THEN 1 ELSE 0

(* A session/new that reports success has kept every update that was sent  *)
(* before its response: none of them was refused while the quarantine was  *)
(* open.                                                                   *)
PublicationHonest == make.pc = "ok" => "sent" \notin make.refused

(* What design.md section 2.2 says: a capture failure discards the         *)
(* quarantined updates and the row.  The handler releases the captures     *)
(* lock between the refusal of an update and its record, and the worker,   *)
(* which has the response, may close the quarantine in between.            *)
CaptureFailureUndoesCreation == make.pc = "ok" => make.refused = {}

(* When the bind of a new session ends, the store holds every update that  *)
(* was accepted for it since session/new was sent, in protocol order.      *)
DrainComplete ==
  [][make.pc = "bind" /\ make'.pc = "ok" => stored'[Fresh] = accepted'[Fresh]]_vars

(* An update that the handler refuses before the response of a prompt, a   *)
(* load or a resume makes that operation fail.                             *)
RefusedUpdateFailsTurn == \A s \in Sessions : <<s, "handler">> \in missed => turn[s] # "ok"

(* What COMPLIANCE.md says of a capture that fails in the middle of a      *)
(* turn, for the updates that the creation worker replays: it records the  *)
(* failure after the write, and the turn may take its ledger in between.   *)
ReplayFailureFailsTurn == \A s \in Sessions : <<s, "replay">> \in missed => turn[s] # "ok"

(* The callback context is well formed and its quota counters are what its *)
(* queues and its quarantine hold.                                         *)
CaptureInv ==
  CaptureTypeOK /\ QuotaExact
=============================================================================
