------------------------------- MODULE HubOps -------------------------------
(***************************************************************************)
(* CoreHub's conversation operations (crates/hub/src/hub: state.rs,        *)
(* prompt.rs, lifecycle.rs, conversation.rs; runtime.rs) over the store:   *)
(* prompt turns, cancellation and its supervisor, close, delete, bind,     *)
(* set_param/set_mode and runs owned by a client, as they interleave in    *)
(* one daemon, and the crash and restart of that daemon.                   *)
(*                                                                         *)
(* A request is a task that walks through program counters; between two of *)
(* them lies an await, an unlock or the end of a store transaction.  One   *)
(* identifier serves as request, operation token and run id.  A request    *)
(* that an early return answers without a change of state is not a step.   *)
(***************************************************************************)
EXTENDS RunStore

CONSTANTS NoTask,        \* the owner of a free lock or operation slot
          Agents,
          AgentOf,       \* [Convs -> Agents], the agent_id column
          Kinds,         \* the requests clients issue
          StoreFaults,   \* program counters whose store call may return Err
          ClientAborts,  \* whether a client connection may be torn down
          MaxCrashes     \* how often the daemon may die

AllKinds == {"send", "set", "cancel", "close", "delete", "bind", "external"}

ASSUME HubAssumption ==
  /\ NoTask \notin Runs
  /\ AgentOf \in [Convs -> Agents]
  /\ Kinds \subseteq AllKinds
  /\ ClientAborts \in BOOLEAN
  /\ MaxCrashes \in Nat

VARIABLES ops,         \* CoreHub.operations: the lease table
          opsLock,     \* holder of its mutex across several steps
          runtime,     \* RuntimeCache.sessions
          nextGen,     \* RuntimeCache.next_generation
          bound,       \* HubCtx.sessions: conversations with a callback binding
          currentRun,  \* HubCtx.current_run
          task,        \* the requests and their workers
          sup,         \* the cancel supervisor of a run
          crashes

ctxVars == <<bound, currentRun>>
opVars  == <<ops, opsLock>>
rtVars  == <<runtime, nextGen>>
vars    == <<convs, runs, replay, ops, opsLock, runtime, nextGen, bound, currentRun, task, sup, crashes>>

Tasks   == Runs
NoOp    == [tok |-> NoTask, kind |-> "none", cancel |-> FALSE]
NoEntry == [state |-> "absent", gen |-> 0]

\* A request: what it is, where it is, and what it has read on the way.
Request(kind, c, pc, wasBusy, target, gen, end) ==
  [kind |-> kind, conv |-> c, pc |-> pc, wasBusy |-> wasBusy, target |-> target,
   gen |-> gen, end |-> end]
Idle          == Request("none", NoConv, "idle", FALSE, NoTask, 0, "done")
Answered(q, end) == Request(q.kind, NoConv, end, FALSE, NoTask, 0, "done")

NoSup   == [pc |-> "none", gen |-> 0]

\* The OperationKind a request reserves.
OpKind(kind) == IF kind = "send" THEN "prompt" ELSE IF kind = "bind" THEN "refresh" ELSE kind

Ends     == {"done", "refused", "failed", "gone"}
\* The program counters at which a task owns the lease on its conversation.
LeasePcs == {"starting", "resume", "reload", "refresh", "orphan", "create", "lease", "message", "worker",
             "completing", "release", "reply", "close_run", "close_local",
             "delete_local", "ext_create", "ext_active", "ext_cas"}
Pcs      == {"idle", "reserve", "mark", "marked", "claim", "rollback", "spawn"}
              \cup LeasePcs \cup Ends

Operations == [tok : Tasks \cup {NoTask}, cancel : BOOLEAN,
               kind : {"none", "prompt", "set", "close", "delete", "refresh", "external"}]
Requests   == [kind : AllKinds \cup {"none"}, conv : Convs \cup {NoConv}, pc : Pcs,
               wasBusy : BOOLEAN, target : Tasks \cup {NoTask}, gen : Nat, end : Ends]

HubTypeOK ==
  /\ ops \in [Convs -> Operations]
  /\ opsLock \in Tasks \cup {NoTask}
  /\ runtime \in [Convs -> [state : {"absent", "live", "cancelling"}, gen : Nat]]
  /\ nextGen \in Nat
  /\ bound \in SUBSET Convs
  /\ currentRun \in [Convs -> Runs \cup {NoTask}]
  /\ task \in [Tasks -> Requests]
  /\ sup \in [Runs -> [pc : {"none", "sleeping", "expire", "expired", "settle", "done"}, gen : Nat]]
  /\ crashes \in 0..MaxCrashes

TypeOK == StoreTypeOK /\ HubTypeOK

Init ==
  /\ convs \in [Convs -> {FreshRow(o, TRUE) : o \in {"hub_created", "imported_list"}}]
  /\ runs = [r \in Runs |-> AbsentRun] /\ replay = [c \in Convs |-> "none"]
  /\ ops = [c \in Convs |-> NoOp] /\ opsLock = NoTask
  /\ runtime = [c \in Convs |-> NoEntry] /\ nextGen = 1
  /\ bound = {} /\ currentRun = [c \in Convs |-> NoTask]
  /\ task = [t \in Tasks |-> Idle] /\ sup = [r \in Runs |-> NoSup]
  /\ crashes = 0
-----------------------------------------------------------------------------
At(t, pc)      == task[t].pc = pc
\* The request has been answered; only what it was and how it ended is kept.
Finish(t, end) == task' = [task EXCEPT ![t] = Answered(task[t], end)]
Advance(t, pc, gen, end) ==
  task' = [task EXCEPT ![t] = Request(task[t].kind, task[t].conv, pc, task[t].wasBusy,
                                      task[t].target, gen, end)]
Goto(t, pc)    == Advance(t, pc, task[t].gen, task[t].end)
\* Give the lease back, then answer with "end".
Leave(t, end)  == Advance(t, "release", task[t].gen, end)
SupGoto(r, pc, gen) == sup' = [sup EXCEPT ![r] = [pc |-> pc, gen |-> gen]]
Fails(pc)      == pc \in StoreFaults
LockFree       == opsLock = NoTask

\* RuntimeCache::insert, with a new generation.
InsertLive(c) ==
  /\ nextGen' = nextGen + 1
  /\ runtime' = [runtime EXCEPT ![c] = [state |-> "live", gen |-> nextGen + 1]]

\* RuntimeCache::transition's condition and its effect.
CanTransition(c, from, gen) == runtime[c].state = from /\ runtime[c].gen <= gen
Transition(c, from, to, gen) ==
  runtime' = IF CanTransition(c, from, gen)
             THEN [runtime EXCEPT ![c] = [state |-> to, gen |-> runtime[c].gen]] ELSE runtime

\* HubCtx::unbind_session.
Unbind(c) ==
  /\ bound' = bound \ {c}
  /\ currentRun' = [currentRun EXCEPT ![c] = NoTask]
-----------------------------------------------------------------------------
(***************************************************************************)
(* Every request starts by reading its row, without any lock.              *)
(***************************************************************************)
\* assert_write_gate
WriteGate(c) == convs[c].phase = "open" /\ convs[c].interaction = "writable"

StartTask(t, kind, c, pc) ==
  /\ At(t, "idle") /\ kind \in Kinds /\ Exists(c)
  /\ task' = [task EXCEPT ![t] = Request(kind, c, pc, kind = "close" /\ IsBusy(c),
                                         NoTask, 0, "done")]

\* send_prompt, set_param and set_mode up to reserve_operation.
BeginWrite(t, kind, c) ==
  /\ WriteGate(c)
  /\ StartTask(t, kind, c, "reserve")
  /\ UNCHANGED <<storeVars, opVars, rtVars, ctxVars, sup, crashes>>

\* close_conversation and delete_conversation up to reserve_operation.
BeginRemove(t, kind, c) ==
  /\ StartTask(t, kind, c, "reserve")
  /\ UNCHANGED <<storeVars, opVars, rtVars, ctxVars, sup, crashes>>

\* SessionIdentityLease: held by a bind request until its future is dropped.
\* A client that goes away during the refresh drops it while the worker runs
\* on; which requests lost it is not recorded, so where clients may go away no
\* refresh counts on it.
IdentityLeased(u, c) ==
  /\ task[u].kind = "bind" /\ task[u].conv = c
  /\ ClientAborts => task[u].pc \in {"reserve", "starting"}

\* create_conversation for a session that has a row: the identity lease, then
\* the promotion, which is committed before the operation is reserved.
BeginBind(t, c, writableMeta) ==
  /\ ~\E u \in Tasks : IdentityLeased(u, c)
  /\ StartTask(t, "bind", c, "reserve")
  /\ PromoteConversationBind(c, writableMeta)
  /\ UNCHANGED <<opVars, rtVars, ctxVars, sup, crashes>>

\* Mutant: the table is not consulted for the conversation.
ReservableByAgent(t) ==
  LET c == task[t].conv IN
  task[t].kind = "send" =>
    ~\E d \in Convs \ {c} : AgentOf[d] = AgentOf[c] /\ ops[d].kind = "prompt"

\* Mutant: prompts of one agent do not exclude one another.
ReservableByConv(t) == ops[task[t].conv] = NoOp

\* The two Conflict conditions of reserve_operation, and the one of
\* reserve_external_run.
Reservable(t) ==
  LET c == task[t].conv IN
  /\ ops[c] = NoOp
  /\ task[t].kind = "send" =>
       ~\E d \in Convs : AgentOf[d] = AgentOf[c] /\ ops[d].kind = "prompt"

\* reserve_operation and reserve_external_run.
Reserve(t) ==
  /\ At(t, "reserve") /\ LockFree
  /\ IF Reservable(t)
     THEN /\ ops' = [ops EXCEPT ![task[t].conv] =
                       [tok |-> t, kind |-> OpKind(task[t].kind), cancel |-> FALSE]]
          /\ Goto(t, IF task[t].kind = "external" THEN "ext_create" ELSE "starting")
     ELSE Finish(t, "refused") /\ UNCHANGED ops
  /\ UNCHANGED <<storeVars, opsLock, rtVars, ctxVars, sup, crashes>>

\* Drop of the OperationLease (release_operation compares the token).
Release(t) ==
  LET c == task[t].conv IN
  /\ At(t, "release") /\ LockFree
  /\ ops' = IF ops[c].tok = t THEN [ops EXCEPT ![c] = NoOp] ELSE ops
  /\ Finish(t, task[t].end)
  /\ UNCHANGED <<storeVars, opsLock, rtVars, ctxVars, sup, crashes>>

\* agent_handle, a capability check or the command queue fails.
StartFails(t) ==
  /\ At(t, "starting")
  /\ Leave(t, "failed")
  /\ UNCHANGED <<storeVars, opVars, rtVars, ctxVars, sup, crashes>>
-----------------------------------------------------------------------------
(***************************************************************************)
(* ensure_live_session and refresh_session_projection_owned.               *)
(***************************************************************************)
\* Where a task goes once its session is live.
AfterLive(t) == IF task[t].kind = "send" THEN "create" ELSE "reply"
LiveHit(c)   == runtime[c].state = "live" /\ c \in bound

UseLiveSession(t) ==
  /\ At(t, "starting") /\ task[t].kind \in {"send", "set"}
  /\ LiveHit(task[t].conv)
  /\ Goto(t, AfterLive(t))
  /\ UNCHANGED <<storeVars, opVars, rtVars, ctxVars, sup, crashes>>

\* begin_load_replay and the load or resume command; the command loop binds
\* before it asks.  A marker left behind makes begin_load_replay fail.
EnqueueRefresh(t, pc) ==
  LET c == task[t].conv IN
  \/ BeginLoadReplay(c) /\ bound' = bound \cup {c} /\ Goto(t, pc)
  \/ /\ replay[c] # "none" \/ Fails("begin")
     /\ Leave(t, "failed") /\ UNCHANGED <<storeVars, bound>>

\* An agent that can resume is asked to; the others, and every bind, load.
StartRefresh(t) ==
  LET c == task[t].conv IN
  /\ At(t, "starting") /\ task[t].kind \in {"send", "set", "bind"}
  /\ task[t].kind # "bind" => ~LiveHit(c)
  /\ runtime' = IF task[t].kind # "bind" /\ runtime[c].state = "live"
                THEN [runtime EXCEPT ![c] = NoEntry] ELSE runtime
  /\ EnqueueRefresh(t, "refresh") \/ (task[t].kind # "bind" /\ EnqueueRefresh(t, "resume"))
  /\ UNCHANGED <<opVars, nextGen, currentRun, sup, crashes>>

\* A failed resume is followed by a load.
ReloadSession(t) ==
  /\ At(t, "reload")
  /\ EnqueueRefresh(t, "refresh")
  /\ UNCHANGED <<opVars, rtVars, currentRun, sup, crashes>>

\* The agent answered and the replay was committed: bind and publish.
RefreshOk(t) ==
  LET c == task[t].conv IN
  /\ At(t, "refresh") \/ At(t, "resume")
  /\ CommitLoadReplay(c)
  /\ InsertLive(c)
  /\ bound' = bound \cup {c}
  /\ IF task[t].kind = "bind" THEN Leave(t, "done") ELSE Goto(t, AfterLive(t))
  /\ UNCHANGED <<opVars, currentRun, sup, crashes>>

\* Mutant: a refused load is not rolled back.
ForgetRollback(c) == UNCHANGED storeVars

\* rollback_load_replay as the worker sees it; an error is ignored or answered.
TryRollback(c) ==
  \/ RollbackLoadReplay(c)
  \/ (replay[c] = "none" \/ Fails("refresh")) /\ UNCHANGED storeVars

\* The agent refused, or answered for another session (nothing is unbound),
\* or the commit failed (nothing is rolled back), or the final bind failed.
\* Only a resume has a second attempt.
RefreshFails(t) ==
  LET c == task[t].conv IN
  /\ At(t, "refresh") \/ At(t, "resume") \/ At(t, "orphan")
  /\ \/ TryRollback(c) /\ Unbind(c)
     \/ TryRollback(c) /\ UNCHANGED ctxVars
     \/ Fails("refresh") /\ UNCHANGED <<storeVars, ctxVars>>
     \/ CommitLoadReplay(c) /\ bound' = bound \ {c} /\ UNCHANGED currentRun
  /\ Leave(t, "failed") \/ (At(t, "resume") /\ Goto(t, "reload"))
  /\ UNCHANGED <<opVars, rtVars, sup, crashes>>

\* The worker of a torn-down send or set ends; nobody publishes the session.
OrphanOk(t) ==
  /\ At(t, "orphan")
  /\ CommitLoadReplay(task[t].conv)
  /\ Leave(t, "gone")
  /\ UNCHANGED <<opVars, rtVars, ctxVars, sup, crashes>>
-----------------------------------------------------------------------------
(***************************************************************************)
(* send_prompt after the session is live; no await until the worker runs.  *)
(***************************************************************************)
\* create_run; refused or failed, the lease is dropped.
SendCreateRun(t) ==
  LET c == task[t].conv IN
  /\ At(t, "create")
  /\ \/ CreateRun(t, c) /\ Goto(t, "lease")
     \/ /\ RefusesRun(c) \/ Fails("create")
        /\ Leave(t, "failed") /\ UNCHANGED storeVars
  /\ UNCHANGED <<opVars, rtVars, ctxVars, sup, crashes>>

\* RunLease::acquire and set_current_run.
AcquireRunLease(t) ==
  LET c == task[t].conv IN
  /\ At(t, "lease")
  /\ InsertLive(c)
  /\ currentRun' = [currentRun EXCEPT ![c] = t]
  /\ Advance(t, "message", nextGen + 1, "done")
  /\ UNCHANGED <<storeVars, opVars, bound, sup, crashes>>

\* finalize_run_cas as its callers see it: hit, miss, or (faulty store) Err.
TryFinalize(r, c, status, stop, pc) ==
  \/ FinalizeRunCas(r, c, status, stop)
  \/ ~CasHits(r, c) /\ UNCHANGED storeVars
  \/ Fails(pc) /\ UNCHANGED storeVars

\* store_prompt_message, then the command is sent and the worker spawned; on
\* an error the run is finalised here, outside the operations mutex.
StorePrompt(t) ==
  LET c == task[t].conv IN
  /\ At(t, "message")
  /\ \/ Goto(t, "worker") /\ UNCHANGED <<storeVars, currentRun>>
     \/ /\ Fails("message")
        /\ currentRun' = [currentRun EXCEPT ![c] = NoTask]
        /\ TryFinalize(t, c, "failed", "null", "message")
        /\ Advance(t, "completing", task[t].gen, "failed")
  /\ UNCHANGED <<opVars, rtVars, bound, sup, crashes>>

Endings == {[status |-> "completed", stop |-> "agent"], [status |-> "cancelled", stop |-> "agent"],
            [status |-> "failed", stop |-> "null"]}

\* The worker gets the agent's answer, whatever it is, or loses the agent; it
\* finalises under the operations mutex.
WorkerFinalize(t) ==
  /\ At(t, "worker") /\ LockFree
  /\ \E e \in Endings : TryFinalize(t, task[t].conv, e.status, e.stop, "worker")
  /\ Goto(t, "completing")
  /\ UNCHANGED <<opVars, rtVars, ctxVars, sup, crashes>>

\* Mutant: the RunLease is forgotten instead of completed.
CompleteWithoutLease(t) ==
  /\ At(t, "completing")
  /\ currentRun' = [currentRun EXCEPT ![task[t].conv] = NoTask]
  /\ Leave(t, task[t].end)
  /\ UNCHANGED <<storeVars, opVars, rtVars, bound, sup, crashes>>

\* Mutant: clear_current_run is forgotten.
CompleteKeepingRun(t) ==
  /\ At(t, "completing")
  /\ Transition(task[t].conv, "cancelling", "live", task[t].gen)
  /\ Leave(t, task[t].end)
  /\ UNCHANGED <<storeVars, opVars, nextGen, ctxVars, sup, crashes>>

\* clear_current_run, then RunLease::complete (its Drop has the same effect).
CompleteRun(t) ==
  LET c == task[t].conv IN
  /\ At(t, "completing")
  /\ currentRun' = [currentRun EXCEPT ![c] = NoTask]
  /\ Transition(c, "cancelling", "live", task[t].gen)
  /\ Leave(t, task[t].end)
  /\ UNCHANGED <<storeVars, opVars, nextGen, bound, sup, crashes>>
-----------------------------------------------------------------------------
(***************************************************************************)
(* cancel and its supervisor.                                              *)
(***************************************************************************)
\* The snapshot, taken under the operations mutex; without an uncancelled
\* prompt the answer is not_busy or requested = false.
BeginCancel(t, c) ==
  /\ LockFree
  /\ ops[c].kind = "prompt" /\ ~ops[c].cancel
  /\ At(t, "idle") /\ "cancel" \in Kinds
  /\ task' = [task EXCEPT ![t] = Request("cancel", c, "mark", FALSE, ops[c].tok, 0, "done")]
  /\ UNCHANGED <<storeVars, opVars, rtVars, ctxVars, sup, crashes>>

\* The operation is still the one of the snapshot and not yet cancelled.
SnapshotHolds(t) ==
  LET op == ops[task[t].conv]
  IN op.tok = task[t].target /\ op.kind = "prompt" /\ ~op.cancel

\* The mutex is taken again: recheck, then the store's compare-and-set.  A
\* stale snapshot, a miss and a store error all end the request.
CancelMark(t) ==
  LET r == task[t].target IN
  /\ At(t, "mark") /\ LockFree
  /\ \/ /\ SnapshotHolds(t)
        /\ RequestRunCancelCas(r, task[t].conv)
        /\ opsLock' = t /\ Goto(t, "marked")
     \/ /\ ~SnapshotHolds(t) \/ runs[r].status # "running" \/ Fails("mark")
              \/ convs[task[t].conv].busy # "running"
        /\ Finish(t, "done") /\ UNCHANGED <<storeVars, opsLock>>
  /\ UNCHANGED <<ops, rtVars, ctxVars, sup, crashes>>

\* RuntimeCache::get
CancelReadRuntime(t) ==
  LET c == task[t].conv IN
  /\ At(t, "marked")
  /\ Advance(t, IF runtime[c].state = "absent" THEN "rollback" ELSE "claim",
             runtime[c].gen, "done")
  /\ UNCHANGED <<storeVars, opVars, rtVars, ctxVars, sup, crashes>>

\* RuntimeCache::transition(Live, Cancelling); on success cancel_requested is
\* set and the mutex released.
CancelClaim(t) ==
  LET c == task[t].conv IN
  /\ At(t, "claim")
  /\ Transition(c, "live", "cancelling", task[t].gen)
  /\ IF CanTransition(c, "live", task[t].gen)
     THEN /\ ops' = [ops EXCEPT ![c].cancel = TRUE]
          /\ opsLock' = NoTask /\ Goto(t, "spawn")
     ELSE Goto(t, "rollback") /\ UNCHANGED opVars
  /\ UNCHANGED <<storeVars, nextGen, ctxVars, sup, crashes>>

\* Mutant: the rollback of the store mark is forgotten.
RollbackNothing(t) ==
  /\ At(t, "rollback")
  /\ opsLock' = NoTask /\ Finish(t, "refused")
  /\ UNCHANGED <<storeVars, ops, rtVars, ctxVars, sup, crashes>>

\* Mutant: the error return leaks the guard of the operations mutex.
RollbackKeepingLock(t) ==
  LET r == task[t].target  c == task[t].conv IN
  /\ At(t, "rollback")
  /\ RollbackRunCancelCas(r, c) /\ Finish(t, "refused")
  /\ UNCHANGED <<opVars, rtVars, ctxVars, sup, crashes>>

\* The runtime could not be claimed: undo the mark, answer Conflict.
CancelRollback(t) ==
  LET r == task[t].target  c == task[t].conv IN
  /\ At(t, "rollback")
  /\ \/ RollbackRunCancelCas(r, c)
     \/ /\ runs[r].status # "cancelling" \/ convs[c].busy # "cancelling" \/ Fails("rollback")
        /\ UNCHANGED storeVars
  /\ opsLock' = NoTask /\ Finish(t, "refused")
  /\ UNCHANGED <<ops, rtVars, ctxVars, sup, crashes>>

\* After the await on the handle table: spawn_cancel_notify_and_escalate.
CancelSpawn(t) ==
  /\ At(t, "spawn")
  /\ SupGoto(task[t].target, "sleeping", 0)
  /\ Finish(t, "done")
  /\ UNCHANGED <<storeVars, opVars, rtVars, ctxVars, crashes>>

\* Mutant: the supervisor gives up although the run is still cancelling.
SupervisorGivesUp(r) ==
  /\ sup[r].pc = "sleeping"
  /\ SupGoto(r, "done", 0)
  /\ UNCHANGED <<storeVars, opVars, rtVars, ctxVars, task, crashes>>

\* The budget has expired; only a run that is still cancelling is forced.
SupervisorCheck(r) ==
  /\ sup[r].pc = "sleeping"
  /\ \/ SupGoto(r, IF runs[r].status = "cancelling" THEN "expire" ELSE "done", 0)
     \/ Fails("sleeping") /\ SupGoto(r, "done", 0)
  /\ UNCHANGED <<storeVars, opVars, rtVars, ctxVars, task, crashes>>

\* finalize_run_cas(Cancelled); the stop reason tells whether the agent could
\* be notified.
SupervisorExpire(r) ==
  /\ sup[r].pc = "expire"
  /\ \/ /\ \E stop \in {"hub_cancel_budget", "hub_cancel_notify_failed"} :
             FinalizeRunCas(r, runs[r].conv, "cancelled", stop)
        /\ SupGoto(r, "expired", 0)
     \/ /\ ~CasHits(r, runs[r].conv) \/ Fails("expire")
        /\ SupGoto(r, "done", 0) /\ UNCHANGED storeVars
  /\ UNCHANGED <<opVars, rtVars, ctxVars, task, crashes>>

\* Then RuntimeCache::get ...
SupervisorReadRuntime(r) ==
  LET e == runtime[runs[r].conv] IN
  /\ sup[r].pc = "expired"
  /\ SupGoto(r, IF e.state = "absent" THEN "done" ELSE "settle", e.gen)
  /\ UNCHANGED <<storeVars, opVars, rtVars, ctxVars, task, crashes>>

\* ... and RuntimeCache::transition(Cancelling, Live) with what it read.
SupervisorSettle(r) ==
  /\ sup[r].pc = "settle"
  /\ Transition(runs[r].conv, "cancelling", "live", sup[r].gen)
  /\ SupGoto(r, "done", 0)
  /\ UNCHANGED <<storeVars, opVars, nextGen, ctxVars, task, crashes>>
-----------------------------------------------------------------------------
(***************************************************************************)
(* The agent's answer to close, delete, set_param and set_mode.            *)
(***************************************************************************)
\* The command is enqueued; from here on a worker owns the lease.
EnqueueRemove(t) ==
  /\ At(t, "starting") /\ task[t].kind \in {"close", "delete"}
  /\ Goto(t, "reply")
  /\ UNCHANGED <<storeVars, opVars, rtVars, ctxVars, sup, crashes>>

\* finish_local of delete_conversation: --local-only, or an agent that cannot
\* delete sessions.
DeleteLocally(t) ==
  LET c == task[t].conv IN
  /\ At(t, "starting") /\ task[t].kind = "delete"
  /\ Unbind(c)
  /\ runtime' = [runtime EXCEPT ![c] = NoEntry]
  /\ Goto(t, "delete_local")
  /\ UNCHANGED <<storeVars, opVars, nextGen, sup, crashes>>

\* The agent agreed, or answered "unsupported".  Only an agreed close goes on
\* to the run it interrupts.
RemoveAgreed(t) ==
  LET c == task[t].conv IN
  /\ At(t, "reply") /\ task[t].kind \in {"close", "delete"}
  /\ Unbind(c)
  /\ runtime' = [runtime EXCEPT ![c] = NoEntry]
  /\ \/ task[t].kind = "delete" /\ Goto(t, "delete_local")
     \/ task[t].kind = "close" /\ task[t].wasBusy /\ Goto(t, "close_run")
     \/ task[t].kind = "close" /\ Goto(t, "close_local")  \* not busy, or unsupported
  /\ UNCHANGED <<storeVars, opVars, nextGen, sup, crashes>>

\* set_param or set_mode answered, or a close or delete refused or lost.
ReplyEnds(t) ==
  /\ At(t, "reply")
  /\ Leave(t, IF task[t].kind = "set" THEN "done" ELSE "failed")
  /\ UNCHANGED <<storeVars, opVars, rtVars, ctxVars, sup, crashes>>

\* active_run_id and finalize_run_cas(Failed, "closed"); an error is only
\* logged.
CloseRun(t) ==
  LET c == task[t].conv IN
  /\ At(t, "close_run")
  /\ \/ \E r \in ActiveRuns(c) : FinalizeRunCas(r, c, "failed", "closed")
     \/ (ActiveRuns(c) = {} \/ Fails("close_run")) /\ UNCHANGED storeVars
  /\ Goto(t, "close_local")
  /\ UNCHANGED <<opVars, rtVars, ctxVars, sup, crashes>>

CloseLocal(t) ==
  /\ At(t, "close_local")
  /\ \/ CloseConversationLocal(task[t].conv, task[t].wasBusy) /\ Leave(t, "done")
     \/ Fails("close_local") /\ Leave(t, "failed") /\ UNCHANGED storeVars
  /\ UNCHANGED <<opVars, rtVars, ctxVars, sup, crashes>>

DeleteLocal(t) ==
  LET c == task[t].conv IN
  /\ At(t, "delete_local")
  /\ \/ DeleteConversation(c) /\ Leave(t, "done")
     \/ /\ ActiveRuns(c) # {} \/ IsBusy(c) \/ Fails("delete_local")
        /\ Leave(t, "failed") /\ UNCHANGED storeVars
  /\ UNCHANGED <<opVars, rtVars, ctxVars, sup, crashes>>
-----------------------------------------------------------------------------
(***************************************************************************)
(* Runs a client owns (hub/conv/create_run and finalize_run).              *)
(***************************************************************************)
BeginExternal(t, c) ==
  /\ StartTask(t, "external", c, "reserve")
  /\ UNCHANGED <<storeVars, opVars, rtVars, ctxVars, sup, crashes>>

ExtCreateRun(t) ==
  LET c == task[t].conv IN
  /\ At(t, "ext_create")
  /\ \/ CreateRun(t, c) /\ Goto(t, "ext_active")
     \/ /\ RefusesRun(c) \/ Fails("ext_create")
        /\ Leave(t, "failed") /\ UNCHANGED storeVars
  /\ UNCHANGED <<opVars, rtVars, ctxVars, sup, crashes>>

\* finalize_run: the token is checked under the mutex, which is then dropped.
ExtCheckOwner(t) ==
  /\ At(t, "ext_active") /\ LockFree
  /\ ops[task[t].conv].tok = t
  /\ Goto(t, "ext_cas")
  /\ UNCHANGED <<storeVars, opVars, rtVars, ctxVars, sup, crashes>>

\* Mutant: the lease is released whatever the new status.
ExtFinalizeReleases(t) ==
  /\ At(t, "ext_cas")
  /\ \E s \in TerminalStatuses \cup {"cancelling"} :
       FinalizeRunCas(t, task[t].conv, s, "agent") /\ Leave(t, "done")
  /\ UNCHANGED <<opVars, rtVars, ctxVars, sup, crashes>>

\* Then the compare-and-set; a run set to cancelling keeps its lease, and so
\* does one whose update missed or failed.
ExtFinalize(t) ==
  LET c == task[t].conv IN
  /\ At(t, "ext_cas")
  /\ \/ \E s \in TerminalStatuses : FinalizeRunCas(t, c, s, "agent") /\ Leave(t, "done")
     \/ FinalizeRunCas(t, c, "cancelling", "agent") /\ Goto(t, "ext_active")
     \/ (~CasHits(t, c) \/ Fails("ext_cas")) /\ Goto(t, "ext_active") /\ UNCHANGED storeVars
  /\ UNCHANGED <<opVars, rtVars, ctxVars, sup, crashes>>
-----------------------------------------------------------------------------
(***************************************************************************)
(* The surroundings: discovery, lost agents, lost clients, crashes.        *)
(***************************************************************************)
\* list_agent_sessions: one upsert under the session identity lease, but
\* without an operation lease.
Discover(c, writableMeta) ==
  /\ ~\E u \in Tasks : IdentityLeased(u, c)
  /\ UpsertAgentSessionDiscover(c, writableMeta)
  /\ UNCHANGED <<opVars, rtVars, ctxVars, task, sup, crashes>>

\* revoke_connection / configure_agent: every binding of the agent goes.  The
\* answers still awaited are covered by the failing branches above.
ConnectionLost(a) ==
  LET lost == {c \in Convs : AgentOf[c] = a} IN
  /\ bound \cap lost # {}
  /\ bound' = bound \ lost
  /\ currentRun' = [c \in Convs |-> IF c \in lost THEN NoTask ELSE currentRun[c]]
  /\ UNCHANGED <<storeVars, opVars, rtVars, task, sup, crashes>>

\* handle_client_io aborts the requests of a broken client at an await.  A
\* spawned worker goes on and keeps the lease.
AbortRequest(t) ==
  /\ ClientAborts
  /\ \/ At(t, "starting") /\ Leave(t, "gone")
     \/ At(t, "create") /\ Leave(t, "gone")
     \/ At(t, "reload") /\ Leave(t, "gone")
     \/ At(t, "resume") /\ Goto(t, "orphan")
     \/ At(t, "refresh") /\ task[t].kind # "bind" /\ Goto(t, "orphan")
     \/ At(t, "spawn") /\ Finish(t, "gone")
  /\ UNCHANGED <<storeVars, opVars, rtVars, ctxVars, sup, crashes>>

\* The process dies; the next daemon recovers the store before it listens.
CrashRestart ==
  /\ crashes < MaxCrashes /\ crashes' = crashes + 1
  /\ RecoverAtStart
  /\ ops' = [c \in Convs |-> NoOp] /\ opsLock' = NoTask
  /\ runtime' = [c \in Convs |-> NoEntry] /\ nextGen' = 1
  /\ bound' = {} /\ currentRun' = [c \in Convs |-> NoTask]
  /\ task' = [t \in Tasks |-> IF task[t].pc \in Ends \cup {"idle"} THEN task[t]
                              ELSE Answered(task[t], "gone")]
  /\ sup' = [r \in Runs |-> NoSup]
-----------------------------------------------------------------------------
\* Steps of a request or worker that wait for nothing but the daemon itself.
HubStep(t) ==
  \/ Reserve(t) \/ Release(t)
  \/ SendCreateRun(t) \/ AcquireRunLease(t) \/ StorePrompt(t) \/ CompleteRun(t)
  \/ CancelMark(t) \/ CancelReadRuntime(t) \/ CancelClaim(t) \/ CancelRollback(t)
  \/ CancelSpawn(t)
  \/ CloseRun(t) \/ CloseLocal(t) \/ DeleteLocal(t)
  \/ ExtCreateRun(t) \/ ExtFinalize(t)

\* Steps that wait for the agent.
AgentStep(t) ==
  \/ StartFails(t) \/ UseLiveSession(t) \/ StartRefresh(t) \/ ReloadSession(t)
  \/ RefreshOk(t) \/ RefreshFails(t) \/ OrphanOk(t)
  \/ WorkerFinalize(t)
  \/ EnqueueRemove(t) \/ DeleteLocally(t) \/ RemoveAgreed(t) \/ ReplyEnds(t)

SupervisorStep(r) ==
  SupervisorCheck(r) \/ SupervisorExpire(r) \/ SupervisorReadRuntime(r) \/ SupervisorSettle(r)

ClientStep(t) ==
  \/ \E c \in Convs :
       \/ \E k \in {"send", "set"} : BeginWrite(t, k, c)
       \/ \E k \in {"close", "delete"} : BeginRemove(t, k, c)
       \/ \E m \in BOOLEAN : BeginBind(t, c, m)
       \/ BeginCancel(t, c)
       \/ BeginExternal(t, c)
  \/ ExtCheckOwner(t)
  \/ AbortRequest(t)

Next ==
  \/ \E t \in Tasks : ClientStep(t) \/ HubStep(t) \/ AgentStep(t) \/ SupervisorStep(t)
  \/ \E c \in Convs, m \in BOOLEAN : Discover(c, m)
  \/ \E a \in Agents : ConnectionLost(a)
  \/ CrashRestart

Spec == Init /\ [][Next]_vars

\* The runtime (tokio) keeps polling ready tasks and timers fire: the hub's own
\* steps are weakly fair.  Nothing is assumed of agents and clients.
HubFairness  == \A t \in Tasks : WF_vars(HubStep(t)) /\ WF_vars(SupervisorStep(t))
HubFairSpec  == Spec /\ HubFairness
\* Agents that answer every command, or exit.
AgentFairSpec == HubFairSpec /\ \A t \in Tasks : WF_vars(AgentStep(t))
-----------------------------------------------------------------------------
(***************************************************************************)
(* Safety.                                                                 *)
(***************************************************************************)

\* Whoever is between reserve_operation and the drop of the lease is the owner
\* the table names, so two operations never work on one conversation.
LeaseExclusive ==
  \A t \in Tasks : task[t].pc \in LeasePcs => ops[task[t].conv].tok = t

\* One agent never has two prompt turns in flight, not even in different
\* conversations, and not even when the supervisor has already ended the run
\* of a turn the agent still works on.
OneTurnPerAgent ==
  \A t, u \in {x \in Tasks : task[x].kind = "send" /\ task[x].pc \in LeasePcs} :
    AgentOf[task[t].conv] = AgentOf[task[u].conv] => t = u

\* Every run in flight is owned by the operation holding its conversation's
\* lease, so somebody will finalise it.  (The store must not fail.)
ActiveRunIsOwned ==
  \A c \in Convs : \A r \in ActiveRuns(c) : ops[c].tok = r

\* The busy column is set exactly while a run is in flight, whatever closes,
\* binds, discoveries and recoveries run in between.  (The store must not fail.)
BusyIffActive == \A c \in Convs : IsBusy(c) <=> ActiveRuns(c) # {}

\* Outside cancel's critical section the cancel_requested flag and the stored
\* run agree: a flagged run is cancelling or has ended, a cancelling prompt is
\* flagged.  A rollback never undoes a cancellation that was acknowledged.
CancelFlagMatchesStore ==
  LockFree => \A c \in Convs : ops[c].kind = "prompt" =>
    LET status == runs[ops[c].tok].status
    IN /\ ops[c].cancel => status \in TerminalStatuses \cup {"cancelling"}
       /\ status = "cancelling" => ops[c].cancel

\* An acknowledged cancellation of a run still in flight has a supervisor, or
\* the request that will spawn it.
CancelSupervised ==
  \A c \in Convs : ops[c].cancel /\ runs[ops[c].tok].status = "cancelling" =>
    \/ sup[ops[c].tok].pc \in {"sleeping", "expire"}
    \/ \E t \in Tasks : At(t, "spawn") /\ task[t].target = ops[c].tok

\* A conversation without an operation is never left in the runtime state
\* Cancelling, where every later cancel would fail to claim it.
RuntimeNotStuck == \A c \in Convs : ops[c] = NoOp => runtime[c].state # "cancelling"

\* The durable marker of a replay refresh has a worker that will commit it or
\* roll it back; a marker left behind would fail every later refresh of the
\* conversation until the daemon restarts.  (The store must not fail.)
MarkerOwned ==
  \A c \in Convs : replay[c] # "none" =>
    \E t \in Tasks : task[t].conv = c /\ task[t].pc \in {"resume", "refresh", "orphan"}

\* Agent updates are attributed to the run of the operation in progress.
CurrentRunOwned == \A c \in Convs : currentRun[c] # NoTask => ops[c].tok = currentRun[c]

\* Whatever is in flight in the store has somebody who will end it: an active
\* run a worker, a supervisor or an external owner, the durable marker of a
\* replay refresh the request that commits it or rolls it back.
WorkOwned ==
  TypeOK /\ ActiveRunIsOwned /\ MarkerOwned

\* The hub's memory and the store agree: a conversation is busy exactly when
\* it has a run in flight, and the cancel mark of an operation says what the
\* row of its run says (hub/prompt.rs cancel, store/lifecycle.rs).
HubMatchesStore ==
  BusyIffActive /\ CancelFlagMatchesStore

\* The status column is, between any two transactions of the running hub, the
\* synthetic status of (phase, busy, last_outcome), as the storage schema has
\* it: the rollback of a refresh (store/replay.rs:439) restores no status that
\* was overtaken.  The code breaks this: a close that a set_param has not seen
\* and a bind that promotes the row before it waits for the operation do.
StatusMirrored == \A c \in Convs : Mirrors(convs[c])

\* A cancellation leaves nothing half done: while its run is in flight it has
\* a supervisor, and once the operation is over the runtime does not keep the
\* state Cancelling, in which no later cancel could claim the session.
CancelTidy ==
  CancelSupervised /\ RuntimeNotStuck
-----------------------------------------------------------------------------
(***************************************************************************)
(* What all this implements.                                               *)
(***************************************************************************)
\* The holder of a conversation is the operation in the table, and the turn of
\* a request is its run row.
Turn == [t \in Tasks |-> runs[t].status]
T    == INSTANCE Turns WITH slot <- ops, turn <- Turn

\* The lease table in memory and the run rows on disk, written by prompts,
\* cancels, supervisors, closes, external owners and recovery at their own
\* times, act together as one holder and one turn: no run is begun, marked,
\* unmarked or ended but the holder's, none is let go of in flight, and an
\* acknowledged cancellation is not undone (hub/prompt.rs, hub/state.rs,
\* store/lifecycle.rs).  (The store must not fail.)
ImplementsTurns == T!TurnsSpec
-----------------------------------------------------------------------------
(***************************************************************************)
(* Liveness.                                                               *)
(***************************************************************************)

\* An acknowledged cancellation ends the run even if the agent never answers.
CancelResolves ==
  \A r \in Runs : (\E c \in Convs : ops[c].tok = r /\ ops[c].cancel)
                    ~> runs[r].status \in TerminalStatuses

\* With agents that answer, every request is answered and its lease returned:
\* no order of requests, cancellations and supervisors blocks them all.
RequestsEnd == \A t \in Tasks : task[t].pc # "idle" ~> task[t].pc \in Ends
=============================================================================
