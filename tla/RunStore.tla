------------------------------ MODULE RunStore ------------------------------
(***************************************************************************)
(* The conversations and runs tables of the projection store and the       *)
(* markers of replay refreshes (crates/hub/src/store/lifecycle.rs and      *)
(* replay.rs).  Every action is one SQLite transaction on the single       *)
(* connection, so it is atomic; StoreSpec lets any caller issue any        *)
(* transaction at any moment, which is what the store itself must survive. *)
(* Titles, directories, timestamps and messages are left out; session      *)
(* metadata is reduced to the one verdict the rows depend on: whether      *)
(* recompute_interaction makes a bound row writable.                       *)
(***************************************************************************)
EXTENDS Naturals

CONSTANTS Convs,    \* conversation ids (one per agent session: UNIQUE key)
          Runs,     \* run ids, each used for at most one run (fresh UUIDs)
          NoConv    \* the conv_id of a run row that does not exist yet

ASSUME NoConvAssumption == NoConv \notin Convs

VARIABLES convs,    \* [Convs -> conversation row]
          runs,     \* [Runs -> run row]
          replay    \* [Convs -> the status in the before-image of the replay
                    \*  refresh in progress, or "none"]

storeVars == <<convs, runs, replay>>
-----------------------------------------------------------------------------
Phases     == {"open", "closed", "deleted"}
BusyStates == {"none", "running", "cancelling"}
Outcomes   == {"none", "completed", "cancelled", "failed"}
Statuses   == {"idle", "running", "cancelling", "closed", "deleted"} \cup (Outcomes \ {"none"})
Origins    == {"hub_created", "bound", "imported_list"}

ActiveStatuses   == {"running", "cancelling"}
TerminalStatuses == {"completed", "cancelled", "failed"}
StopReasons == {"null", "agent", "closed", "hub_cancel_budget",
                "hub_cancel_notify_failed", "daemon_restarted"}

ConvRows == [origin : Origins \cup {"absent"}, interaction : {"writable", "read_only"},
             phase : Phases, busy : BusyStates, outcome : Outcomes, status : Statuses]
RunRows  == [status : ActiveStatuses \cup TerminalStatuses \cup {"absent"},
             conv : Convs \cup {NoConv}, stop : StopReasons]

StoreTypeOK == /\ convs \in [Convs -> ConvRows]
               /\ runs  \in [Runs -> RunRows]
               /\ replay \in [Convs -> Statuses \cup {"none"}]

\* Mutant: a conversation without an outcome is not mapped to idle.
OutcomeAsIs(outcome) == outcome

OutcomeStatus(outcome) == IF outcome = "none" THEN "idle" ELSE outcome

\* synthetic_status: deleted, then busy, then closed, then the last outcome.
MirrorStatus(phase, busy, outcome) ==
  IF phase = "deleted" THEN "deleted"
  ELSE IF busy # "none" THEN busy
  ELSE IF phase = "closed" THEN "closed"
  ELSE OutcomeStatus(outcome)

\* recompute_interaction; writableMeta is the verdict of the session metadata.
RecomputeInteraction(origin, writableMeta) ==
  IF origin = "hub_created" \/ (origin = "bound" /\ writableMeta)
  THEN "writable" ELSE "read_only"

FreshRow(origin, writableMeta) ==
  [origin |-> origin, interaction |-> RecomputeInteraction(origin, writableMeta),
   phase |-> "open", busy |-> "none", outcome |-> "none",
   status |-> MirrorStatus("open", "none", "none")]

AbsentRow == FreshRow("absent", FALSE)
AbsentRun == [status |-> "absent", conv |-> NoConv, stop |-> "null"]

\* The conversation and run rows as the UPDATE statements leave them.
Lifecycle(row, phase, busy, outcome, status) ==
  [origin |-> row.origin, interaction |-> row.interaction,
   phase |-> phase, busy |-> busy, outcome |-> outcome, status |-> status]
RunRow(c, status, stop) == [status |-> status, conv |-> c, stop |-> stop]

Exists(c)     == convs[c].origin # "absent"
IsBusy(c)     == convs[c].busy # "none"
ActiveRuns(c) == {r \in Runs : runs[r].conv = c /\ runs[r].status \in ActiveStatuses}
-----------------------------------------------------------------------------
(***************************************************************************)
(* A database an earlier daemon left with unused conversations.            *)
(***************************************************************************)
StoreInit ==
  /\ convs \in [Convs -> {AbsentRow} \cup {FreshRow(o, TRUE) : o \in Origins}
                                     \cup {FreshRow(o, FALSE) : o \in Origins}]
  /\ runs = [r \in Runs |-> AbsentRun]
  /\ replay = [c \in Convs |-> "none"]

\* create_conversation_with_options: INSERT under UNIQUE(agent, session).
CreateConversation(c, origin, writableMeta) ==
  /\ ~Exists(c)
  /\ convs' = [convs EXCEPT ![c] = FreshRow(origin, writableMeta)]
  /\ UNCHANGED <<runs, replay>>
-----------------------------------------------------------------------------
\* Mutant: only the busy column is consulted.
RefusesBusyOnly(c) == IsBusy(c)

\* create_run answers conversation_busy.
RefusesRun(c) == ActiveRuns(c) # {} \/ IsBusy(c)

\* create_run.  The last outcome is unchanged and the phase forced open.
CreateRun(r, c) ==
  /\ Exists(c)
  /\ runs[r].status = "absent"
  /\ ~RefusesRun(c)
  /\ runs'  = [runs EXCEPT ![r] = RunRow(c, "running", "null")]
  /\ convs' = [convs EXCEPT ![c] =
                 Lifecycle(convs[c], "open", "running", convs[c].outcome, "running")]
  /\ UNCHANGED replay

\* Mutant: the CAS accepts a run in any status.
CasMissesNothing(r, c) == runs[r].conv = c

\* The compare of finalize_run_cas; FALSE is the Ok(false) answer.
CasHits(r, c) == runs[r].conv = c /\ runs[r].status \in ActiveStatuses

\* finalize_run_cas with a hit: a terminal status or cancelling.
FinalizeRunCas(r, c, status, stop) ==
  /\ CasHits(r, c)
  /\ runs'  = [runs EXCEPT ![r] = RunRow(c, status, stop)]
  /\ convs' = [convs EXCEPT ![c] =
                 IF status = "cancelling"
                 THEN Lifecycle(convs[c], "open", "cancelling", convs[c].outcome, "cancelling")
                 ELSE Lifecycle(convs[c], "open", "none", status, status)]
  /\ UNCHANGED replay

\* Mutant: the conversation row is not updated with the run.
TransitionRunOnly(r, c, from, to) ==
  /\ runs[r].conv = c /\ runs[r].status = from
  /\ runs' = [runs EXCEPT ![r] = RunRow(c, to, "null")]
  /\ UNCHANGED <<convs, replay>>

\* transition_run_cancel_state with a hit.  When the busy column is not "from"
\* the transaction is rolled back and the call is an error: no step.
TransitionRunCancelState(r, c, from, to) ==
  /\ runs[r].conv = c /\ runs[r].status = from
  /\ convs[c].busy = from
  /\ runs'  = [runs EXCEPT ![r] = RunRow(c, to, "null")]
  /\ convs' = [convs EXCEPT ![c] = Lifecycle(convs[c], "open", to, convs[c].outcome, to)]
  /\ UNCHANGED replay

RequestRunCancelCas(r, c)  == TransitionRunCancelState(r, c, "running", "cancelling")
RollbackRunCancelCas(r, c) == TransitionRunCancelState(r, c, "cancelling", "running")

-----------------------------------------------------------------------------
(***************************************************************************)
(* A replay refresh is a durable marker with a before-image of the row.    *)
(***************************************************************************)
\* begin_load_replay: the marker's key is the conversation, so a second
\* refresh of it is an error.
BeginLoadReplay(c) ==
  /\ Exists(c)
  /\ replay[c] = "none"
  /\ replay' = [replay EXCEPT ![c] = convs[c].status]
  /\ UNCHANGED <<convs, runs>>

\* commit_load_replay_with_static
CommitLoadReplay(c) ==
  /\ replay[c] # "none"
  /\ replay' = [replay EXCEPT ![c] = "none"]
  /\ UNCHANGED <<convs, runs>>

\* restore_load_replay_projection: the status column comes back, while phase,
\* busy and last_outcome are not part of the before-image.
RestoredRow(c) ==
  IF replay[c] = "none" THEN convs[c]
  ELSE Lifecycle(convs[c], convs[c].phase, convs[c].busy, convs[c].outcome, replay[c])

RollbackLoadReplay(c) ==
  /\ replay[c] # "none"
  /\ convs'  = [convs EXCEPT ![c] = RestoredRow(c)]
  /\ replay' = [replay EXCEPT ![c] = "none"]
  /\ UNCHANGED runs

\* recover_interrupted_runs, on one run row and on one conversation row.
RecoveredRun(run) ==
  IF run.status \in ActiveStatuses
  THEN RunRow(run.conv, "failed", IF run.stop = "null" THEN "daemon_restarted" ELSE run.stop)
  ELSE run

\* Mutant: recovery only looks at the runs table.
RowAsLeft(row) == row

RecoveredRow(row) ==
  IF row.busy \in ActiveStatuses \/ row.status \in ActiveStatuses
  THEN Lifecycle(row, "open", "none", "failed", "failed")
  ELSE row

\* serve: interrupted replays are rolled back, then interrupted runs failed,
\* before the daemon listens.  The two transactions are one step here: nothing
\* else runs between them, and a crash there is followed by both of them again,
\* the first of which then finds nothing to roll back.
RecoverAtStart ==
  /\ runs'   = [r \in Runs |-> RecoveredRun(runs[r])]
  /\ convs'  = [c \in Convs |-> RecoveredRow(RestoredRow(c))]
  /\ replay' = [c \in Convs |-> "none"]
-----------------------------------------------------------------------------
\* Mutant: the status column is left to the next writer.
CloseKeepingStatus(c, wasBusy) ==
  /\ Exists(c)
  /\ convs' = [convs EXCEPT ![c].phase = "closed", ![c].busy = "none"]
  /\ UNCHANGED <<runs, replay>>

\* close_conversation_local: no look at the runs table.
CloseConversationLocal(c, wasBusy) ==
  LET outcome == IF wasBusy THEN "failed" ELSE convs[c].outcome
  IN /\ Exists(c)
     /\ convs' = [convs EXCEPT ![c] = Lifecycle(convs[c], "closed", "none", outcome,
                                                MirrorStatus("closed", "none", outcome))]
     /\ UNCHANGED <<runs, replay>>

\* Mutant: only the busy column is consulted.
DeleteUnlessBusy(c) ==
  /\ Exists(c) /\ ~IsBusy(c)
  /\ convs' = [convs EXCEPT ![c] =
                 Lifecycle(convs[c], "deleted", "none", convs[c].outcome, "deleted")]
  /\ UNCHANGED <<runs, replay>>

\* delete_conversation (soft): Conflict while a run is active or busy is set.
DeleteConversation(c) ==
  /\ Exists(c)
  /\ ActiveRuns(c) = {} /\ ~IsBusy(c)
  /\ convs' = [convs EXCEPT ![c] =
                 Lifecycle(convs[c], "deleted", "none", convs[c].outcome, "deleted")]
  /\ UNCHANGED <<runs, replay>>

\* promote_conversation_bind: hub_created is kept, anything else becomes bound.
PromoteConversationBind(c, writableMeta) ==
  LET origin == IF convs[c].origin = "hub_created" THEN "hub_created" ELSE "bound"
  IN /\ Exists(c)
     /\ convs' = [convs EXCEPT ![c] =
                    [origin |-> origin, interaction |-> RecomputeInteraction(origin, writableMeta),
                     phase |-> "open", busy |-> convs[c].busy, outcome |-> convs[c].outcome,
                     status |-> MirrorStatus("open", convs[c].busy, convs[c].outcome)]]
     /\ UNCHANGED <<runs, replay>>

\* Mutant: every discovered row becomes a museum row again.
DiscoverDowngrades(c, writableMeta) ==
  /\ convs' = [convs EXCEPT ![c].origin = "imported_list", ![c].interaction = "read_only"]
  /\ UNCHANGED <<runs, replay>>

\* upsert_agent_session_discover: insert, revive a deleted row, or refresh one.
UpsertAgentSessionDiscover(c, writableMeta) ==
  /\ convs' = [convs EXCEPT ![c] =
                 IF ~Exists(c) \/ convs[c].phase = "deleted"
                 THEN FreshRow("imported_list", writableMeta)
                 ELSE [convs[c] EXCEPT !.interaction =
                         RecomputeInteraction(convs[c].origin, writableMeta)]]
  /\ UNCHANGED <<runs, replay>>

StoreNext ==
  \/ RecoverAtStart
  \/ \E c \in Convs :
       \/ \E o \in {"hub_created", "bound"}, m \in BOOLEAN : CreateConversation(c, o, m)
       \/ \E b \in BOOLEAN : CloseConversationLocal(c, b)
       \/ DeleteConversation(c)
       \/ BeginLoadReplay(c) \/ CommitLoadReplay(c) \/ RollbackLoadReplay(c)
       \/ \E m \in BOOLEAN : PromoteConversationBind(c, m)
       \/ \E m \in BOOLEAN : UpsertAgentSessionDiscover(c, m)
       \/ \E r \in Runs :
            \/ CreateRun(r, c)
            \/ RequestRunCancelCas(r, c)
            \/ RollbackRunCancelCas(r, c)
            \/ \E s \in TerminalStatuses \cup {"cancelling"}, p \in StopReasons :
                 FinalizeRunCas(r, c, s, p)

StoreSpec == StoreInit /\ [][StoreNext]_storeVars
-----------------------------------------------------------------------------
(***************************************************************************)
(* Properties the store keeps whatever its callers do.                     *)
(***************************************************************************)

\* At most one run of a conversation is running or cancelling: create_run's
\* two refusals are the only thing that stops a second one.
OneActiveRun == \A c \in Convs : \A r, q \in ActiveRuns(c) : r = q

\* The status column is the synthetic status of (phase, busy, last_outcome).
Mirrors(row) == row.status = MirrorStatus(row.phase, row.busy, row.outcome)

\* The legacy status column, written by hand in a dozen statements, stays the
\* synthetic status of (phase, busy, last_outcome): only the end of a replay
\* refresh, which restores an older status, can make it differ.
StatusKept ==
  [][\A c \in Convs : Mirrors(convs[c]) /\ ~Mirrors(convs'[c]) =>
       replay[c] # "none" /\ replay'[c] = "none"]_storeVars

\* A busy conversation has a run in exactly that state, so that something
\* exists whose finalisation clears the busy column.
BusyHasRun ==
  \A c \in Convs : IsBusy(c) => \E r \in ActiveRuns(c) : runs[r].status = convs[c].busy

\* A soft-deleted conversation has no run in flight, so no late finalisation
\* can reopen it (finalize_run_cas forces phase = open).
DeletedIsQuiet ==
  \A c \in Convs : convs[c].phase = "deleted" => ActiveRuns(c) = {} /\ ~IsBusy(c)

\* "completed" and "cancelled" are only ever reported for a conversation that
\* has a run with that ending.
OutcomeHasRun ==
  \A c \in Convs : convs[c].outcome \in {"completed", "cancelled"} =>
    \E r \in Runs : runs[r].conv = c /\ runs[r].status = convs[c].outcome

\* A run's ending is written once: no later finalisation, cancel request,
\* rollback or recovery changes the status or the stop reason.
TerminalRunsFrozen ==
  [][\A r \in Runs : runs[r].status \in TerminalStatuses => runs'[r] = runs[r]]_storeVars

\* Discovery never turns a hub-created or bound conversation into a read-only
\* museum row, except by reviving one that was deleted.
OriginNeverDowngraded ==
  [][\A c \in Convs : convs'[c].origin = "imported_list" =>
       convs[c].origin \in {"imported_list", "absent"} \/ convs[c].phase = "deleted"]_storeVars

\* After every transaction the rows agree with one another: a busy column is
\* backed by a run in flight whose finalisation will clear it, a soft-deleted
\* conversation is quiet, an outcome is that of a run, and every column holds
\* a value that the readers of the store can decode (store/lifecycle.rs).
StoreConsistent ==
  StoreTypeOK /\ BusyHasRun /\ DeletedIsQuiet /\ OutcomeHasRun
=============================================================================
