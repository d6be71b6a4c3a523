---------------------------- MODULE HubOpsProofs ----------------------------
(***************************************************************************)
(* The store keeps its rows consistent under every order of transactions;  *)
(* the operation leases exclude one another and the hub uses the store as  *)
(* its specification says, for every set of agents, conversations and      *)
(* requests, with or without store errors, aborted clients and crashes.    *)
(***************************************************************************)
EXTENDS HubOps, TLAPS

-----------------------------------------------------------------------------
(* The store, for every order of transactions (RunStore).                  *)
\* The inductive invariant: the parts hold each other up (BusyHasRun needs
\* that a run finalised away was the only active one, DeletedIsQuiet that
\* nothing becomes busy without becoming open).
StoreInv == /\ StoreTypeOK
            /\ OneActiveRun
            /\ BusyHasRun
            /\ DeletedIsQuiet

USE DEF Phases, BusyStates, Outcomes, Statuses, Origins, ActiveStatuses,
        TerminalStatuses, StopReasons, OutcomeStatus,
        Lifecycle, RunRow

\* The synthetic status of a row is always a legal status.
LEMMA MirrorType ==
  ASSUME NEW p \in Phases, NEW b \in BusyStates, NEW o \in Outcomes
  PROVE  MirrorStatus(p, b, o) \in Statuses
  BY DEF MirrorStatus

\* A freshly inserted row is well typed and mirrors its status.
LEMMA FreshRowFacts ==
  ASSUME NEW o \in Origins, NEW m \in BOOLEAN
  PROVE  /\ FreshRow(o, m) \in ConvRows
         /\ FreshRow(o, m).phase = "open" /\ FreshRow(o, m).busy = "none"
         /\ Mirrors(FreshRow(o, m))
  BY DEF FreshRow, ConvRows, Mirrors, MirrorStatus, RecomputeInteraction

\* The row that stands for a session the hub has not seen is well typed too.
LEMMA AbsentRowFacts ==
  /\ AbsentRow \in ConvRows
  /\ AbsentRow.phase = "open" /\ AbsentRow.busy = "none"
  BY DEF AbsentRow, FreshRow, ConvRows, MirrorStatus, RecomputeInteraction

\* A database without runs satisfies the invariant.
LEMMA InitInv == StoreInit => StoreInv
  <1> SUFFICES ASSUME StoreInit PROVE StoreInv
    OBVIOUS
  <1>1. \A c \in Convs : /\ convs[c] \in ConvRows
                         /\ convs[c].phase = "open" /\ convs[c].busy = "none"
    <2> TAKE c \in Convs
    <2>1. CASE convs[c] = AbsentRow
      BY <2>1, AbsentRowFacts
    <2>2. ASSUME NEW o \in Origins, NEW m \in BOOLEAN, convs[c] = FreshRow(o, m)
          PROVE  /\ convs[c] \in ConvRows
                 /\ convs[c].phase = "open" /\ convs[c].busy = "none"
      BY <2>2, FreshRowFacts
    <2>3. \/ convs[c] = AbsentRow
          \/ \E o \in Origins : convs[c] = FreshRow(o, TRUE) \/ convs[c] = FreshRow(o, FALSE)
      BY DEF StoreInit
    <2> QED
      BY <2>1, <2>2, <2>3
  <1>2. convs \in [Convs -> ConvRows]
    BY <1>1 DEF StoreInit
  <1>3. runs \in [Runs -> RunRows] /\ \A r \in Runs : runs[r].status = "absent"
    BY DEF StoreInit, AbsentRun, RunRows
  <1>4. replay \in [Convs -> Statuses \cup {"none"}]
    BY DEF StoreInit
  <1> QED
    BY <1>1, <1>2, <1>3, <1>4
    DEF StoreInv, StoreTypeOK, OneActiveRun, BusyHasRun, DeletedIsQuiet,
        ActiveRuns, IsBusy

\* create_run keeps the invariant: it is the only way to a new active run.
LEMMA CreateRunInv ==
  ASSUME StoreInv, NEW r \in Runs, NEW c \in Convs, CreateRun(r, c)
  PROVE  StoreInv'
  <1> USE DEF CreateRun, RefusesRun, ActiveRuns, IsBusy, Exists, StoreTypeOK, ConvRows, RunRows
  <1>1. StoreTypeOK'
    BY DEF StoreInv
  <1>2. OneActiveRun'
    BY DEF StoreInv, OneActiveRun
  <1>4. BusyHasRun'
    BY DEF StoreInv, BusyHasRun
  <1>5. DeletedIsQuiet'
    BY DEF StoreInv, DeletedIsQuiet
  <1> QED
    BY <1>1, <1>2, <1>4, <1>5 DEF StoreInv

\* finalize_run_cas keeps the invariant: it ends, or marks cancelling, the one
\* active run.
LEMMA FinalizeRunInv ==
  ASSUME StoreInv, NEW r \in Runs, NEW c \in Convs,
         NEW s \in TerminalStatuses \cup {"cancelling"}, NEW p \in StopReasons,
         FinalizeRunCas(r, c, s, p)
  PROVE  StoreInv'
  <1> USE DEF FinalizeRunCas, CasHits, ActiveRuns, IsBusy, StoreTypeOK, ConvRows, RunRows
  <1>1. StoreTypeOK'
    BY DEF StoreInv
  <1>2. OneActiveRun'
    BY DEF StoreInv, OneActiveRun
  <1>4. BusyHasRun'
    BY DEF StoreInv, BusyHasRun, OneActiveRun
  <1>5. DeletedIsQuiet'
    BY DEF StoreInv, DeletedIsQuiet
  <1> QED
    BY <1>1, <1>2, <1>4, <1>5 DEF StoreInv

\* The cancel request and its rollback keep the invariant.
LEMMA TransitionInv ==
  ASSUME StoreInv, NEW r \in Runs, NEW c \in Convs,
         NEW from \in ActiveStatuses, NEW to \in ActiveStatuses,
         TransitionRunCancelState(r, c, from, to)
  PROVE  StoreInv'
  <1> USE DEF TransitionRunCancelState, ActiveRuns, IsBusy, StoreTypeOK, ConvRows, RunRows
  <1>1. StoreTypeOK'
    BY DEF StoreInv
  <1>2. OneActiveRun'
    BY DEF StoreInv, OneActiveRun
  <1>4. BusyHasRun'
    BY DEF StoreInv, BusyHasRun, OneActiveRun
  <1>5. DeletedIsQuiet'
    BY DEF StoreInv, DeletedIsQuiet
  <1> QED
    BY <1>1, <1>2, <1>4, <1>5 DEF StoreInv

\* Restoring the status of a before-image changes nothing else.
LEMMA RestoredRowFacts ==
  ASSUME StoreTypeOK, NEW c \in Convs
  PROVE  /\ RestoredRow(c) \in ConvRows
         /\ RestoredRow(c).phase = convs[c].phase /\ RestoredRow(c).busy = convs[c].busy
  BY DEF RestoredRow, StoreTypeOK, ConvRows

\* Recovery leaves no active run, no busy conversation and no marker behind.
LEMMA RecoverInv ==
  ASSUME StoreInv, RecoverAtStart
  PROVE  /\ StoreInv'
         /\ \A c \in Convs : ActiveRuns(c)' = {} /\ ~IsBusy(c)'
  <1>1. \A r \in Runs : runs'[r] \in RunRows /\ runs'[r].status \notin ActiveStatuses
    BY DEF RecoverAtStart, RecoveredRun, RunRows, StoreInv, StoreTypeOK
  <1>2. ASSUME NEW c \in Convs
        PROVE  convs'[c] \in ConvRows /\ convs'[c].busy = "none"
    <2> DEFINE row == RestoredRow(c)
    <2>1. row \in ConvRows
      BY RestoredRowFacts DEF StoreInv
    <2>2. convs'[c] = RecoveredRow(row)
      BY DEF RecoverAtStart
    <2> HIDE DEF row
    <2> QED
      BY <2>1, <2>2 DEF RecoveredRow, ConvRows
  <1>3. StoreTypeOK'
    BY <1>1, <1>2 DEF RecoverAtStart, StoreTypeOK
  <1> QED
    BY <1>1, <1>2, <1>3
    DEF StoreInv, OneActiveRun, BusyHasRun, DeletedIsQuiet, ActiveRuns, IsBusy

\* Transactions that leave the runs table alone and the touched row either not
\* busy or as busy as it was, and only soft-delete quiet rows, keep the rest.
LEMMA RowOnlyInv ==
  ASSUME StoreInv, UNCHANGED runs, NEW c \in Convs, NEW row \in ConvRows,
         replay' \in [Convs -> Statuses \cup {"none"}],
         convs' = [convs EXCEPT ![c] = row],
         row.busy = "none" \/ row.busy = convs[c].busy,
         row.phase = "deleted" => ActiveRuns(c) = {} /\ row.busy = "none"
  PROVE  StoreInv'
  <1>1. StoreTypeOK'
    BY DEF StoreInv, StoreTypeOK
  <1>2. \A d \in Convs : ActiveRuns(d)' = ActiveRuns(d)
    BY DEF ActiveRuns
  <1>3. \A d \in Convs : convs'[d] = IF d = c THEN row ELSE convs[d]
    BY DEF StoreInv, StoreTypeOK
  <1> HIDE DEF Phases, BusyStates, Outcomes, Statuses
  <1>5. OneActiveRun'
    BY <1>2 DEF StoreInv, OneActiveRun
  <1>6. BusyHasRun'
    BY <1>2, <1>3 DEF StoreInv, BusyHasRun, IsBusy
  <1>7. DeletedIsQuiet'
    BY <1>2, <1>3 DEF StoreInv, DeletedIsQuiet, IsBusy
  <1> QED
    BY <1>1, <1>5, <1>6, <1>7 DEF StoreInv

\* The transactions on a single conversation row.
LEMMA RowActionsInv ==
  ASSUME StoreInv, NEW c \in Convs,
         \/ \E o \in {"hub_created", "bound"}, m \in BOOLEAN : CreateConversation(c, o, m)
         \/ \E b \in BOOLEAN : CloseConversationLocal(c, b)
         \/ DeleteConversation(c)
         \/ \E m \in BOOLEAN : PromoteConversationBind(c, m)
         \/ \E m \in BOOLEAN : UpsertAgentSessionDiscover(c, m)
         \/ RollbackLoadReplay(c)
  PROVE  StoreInv'
  <1>0. /\ convs[c] \in ConvRows
        /\ replay \in [Convs -> Statuses \cup {"none"}]
        /\ convs[c].phase = "deleted" => ActiveRuns(c) = {} /\ convs[c].busy = "none"
    BY DEF StoreInv, StoreTypeOK, DeletedIsQuiet, IsBusy
  <1>1. ASSUME NEW o \in {"hub_created", "bound"}, NEW m \in BOOLEAN, CreateConversation(c, o, m)
        PROVE  StoreInv'
    <2>1. /\ FreshRow(o, m) \in ConvRows
          /\ FreshRow(o, m).phase = "open" /\ FreshRow(o, m).busy = "none"
      BY FreshRowFacts
    <2>2. convs' = [convs EXCEPT ![c] = FreshRow(o, m)] /\ UNCHANGED <<runs, replay>>
      BY <1>1 DEF CreateConversation
    <2> QED
      BY <1>0, <2>1, <2>2, RowOnlyInv
  <1>2. ASSUME NEW b \in BOOLEAN, CloseConversationLocal(c, b)
        PROVE  StoreInv'
    <2> DEFINE o == IF b THEN "failed" ELSE convs[c].outcome
               row == Lifecycle(convs[c], "closed", "none", o, MirrorStatus("closed", "none", o))
    <2>1. row \in ConvRows /\ row.phase = "closed" /\ row.busy = "none"
      BY <1>0, MirrorType DEF ConvRows
    <2>2. convs' = [convs EXCEPT ![c] = row] /\ UNCHANGED <<runs, replay>>
      BY <1>2 DEF CloseConversationLocal
    <2> QED
      BY <1>0, <2>1, <2>2, RowOnlyInv
  <1>3. ASSUME DeleteConversation(c)
        PROVE  StoreInv'
    <2> DEFINE row == Lifecycle(convs[c], "deleted", "none", convs[c].outcome, "deleted")
    <2>1. row \in ConvRows /\ row.phase = "deleted" /\ row.busy = "none"
      BY <1>0 DEF ConvRows, MirrorStatus
    <2>2. convs' = [convs EXCEPT ![c] = row] /\ UNCHANGED <<runs, replay>> /\ ActiveRuns(c) = {}
      BY <1>3 DEF DeleteConversation
    <2> QED
      BY <1>0, <2>1, <2>2, RowOnlyInv
  <1>4. ASSUME NEW m \in BOOLEAN, PromoteConversationBind(c, m)
        PROVE  StoreInv'
    <2> DEFINE o == IF convs[c].origin = "hub_created" THEN "hub_created" ELSE "bound"
               row == [origin |-> o, interaction |-> RecomputeInteraction(o, m),
                       phase |-> "open", busy |-> convs[c].busy, outcome |-> convs[c].outcome,
                       status |-> MirrorStatus("open", convs[c].busy, convs[c].outcome)]
    <2>1. row \in ConvRows /\ row.phase = "open" /\ row.busy = convs[c].busy
      BY <1>0, MirrorType DEF ConvRows, RecomputeInteraction
    <2>2. convs' = [convs EXCEPT ![c] = row] /\ UNCHANGED <<runs, replay>>
      BY <1>4 DEF PromoteConversationBind
    <2> QED
      BY <1>0, <2>1, <2>2, RowOnlyInv
  <1>5. ASSUME NEW m \in BOOLEAN, UpsertAgentSessionDiscover(c, m)
        PROVE  StoreInv'
    <2>1. CASE ~Exists(c) \/ convs[c].phase = "deleted"
      BY <1>0, <1>5, <2>1, RowOnlyInv, FreshRowFacts DEF UpsertAgentSessionDiscover
    <2>2. CASE Exists(c) /\ convs[c].phase # "deleted"
      <3> DEFINE row == [convs[c] EXCEPT !.interaction = RecomputeInteraction(convs[c].origin, m)]
      <3>1. row \in ConvRows /\ row.phase = convs[c].phase /\ row.busy = convs[c].busy
        BY <1>0 DEF ConvRows, RecomputeInteraction
      <3>2. convs' = [convs EXCEPT ![c] = row] /\ UNCHANGED <<runs, replay>>
        BY <1>5, <2>2 DEF UpsertAgentSessionDiscover
      <3> QED
        BY <1>0, <2>2, <3>1, <3>2, RowOnlyInv
    <2> QED
      BY <2>1, <2>2
  <1>6. ASSUME RollbackLoadReplay(c)
        PROVE  StoreInv'
    <2>1. /\ RestoredRow(c) \in ConvRows
          /\ RestoredRow(c).phase = convs[c].phase /\ RestoredRow(c).busy = convs[c].busy
      BY RestoredRowFacts DEF StoreInv
    <2>2. convs' = [convs EXCEPT ![c] = RestoredRow(c)] /\ UNCHANGED runs
          /\ replay' \in [Convs -> Statuses \cup {"none"}]
      BY <1>0, <1>6 DEF RollbackLoadReplay
    <2> QED
      BY <1>0, <2>1, <2>2, RowOnlyInv
  <1> QED
    BY <1>1, <1>2, <1>3, <1>4, <1>5, <1>6

\* Beginning and committing a refresh only touch its marker.
LEMMA MarkerInv ==
  ASSUME StoreInv, NEW c \in Convs, BeginLoadReplay(c) \/ CommitLoadReplay(c)
  PROVE  StoreInv'
  <1>1. UNCHANGED <<convs, runs>> /\ replay' \in [Convs -> Statuses \cup {"none"}]
    BY DEF StoreInv, StoreTypeOK, ConvRows, BeginLoadReplay, CommitLoadReplay
  <1> QED
    BY <1>1 DEF StoreInv, StoreTypeOK, OneActiveRun, BusyHasRun, DeletedIsQuiet, ActiveRuns, IsBusy

\* Every transaction keeps the invariant.
LEMMA StoreInductive == StoreInv /\ [StoreNext]_storeVars => StoreInv'
  <1> SUFFICES ASSUME StoreInv, [StoreNext]_storeVars PROVE StoreInv'
    OBVIOUS
  <1>1. CASE RecoverAtStart
    BY <1>1, RecoverInv
  <1>2. ASSUME NEW r \in Runs, NEW c \in Convs,
               RequestRunCancelCas(r, c) \/ RollbackRunCancelCas(r, c)
        PROVE  StoreInv'
    BY <1>2, TransitionInv DEF RequestRunCancelCas, RollbackRunCancelCas
  <1>3. CASE UNCHANGED storeVars
    BY <1>3 DEF storeVars, StoreInv, StoreTypeOK, OneActiveRun, BusyHasRun, DeletedIsQuiet,
                 ActiveRuns, IsBusy
  <1> QED
    BY <1>1, <1>2, <1>3, CreateRunInv, FinalizeRunInv, RowActionsInv, MarkerInv
    DEF StoreNext

\* In every reachable state of the store rows are well typed, a conversation has
\* at most one run in flight, its busy column names the state of a run, and a
\* deleted one is quiet.
THEOREM StoreSafety == StoreSpec => [](StoreTypeOK /\ OneActiveRun /\ BusyHasRun /\ DeletedIsQuiet)
  <1>1. StoreInv => StoreTypeOK /\ OneActiveRun /\ BusyHasRun /\ DeletedIsQuiet
    BY DEF StoreInv
  <1> QED
    BY InitInv, StoreInductive, <1>1, PTL DEF StoreSpec

\* No transaction rewrites the ending of a run: finalisation, cancel request and
\* rollback are compare-and-set, and recovery skips ended runs.
LEMMA EndingStep ==
  StoreInv /\ [StoreNext]_storeVars =>
    [\A r \in Runs : runs[r].status \in TerminalStatuses => runs'[r] = runs[r]]_storeVars
  <1> SUFFICES ASSUME StoreInv, StoreNext, NEW r \in Runs, runs[r].status \in TerminalStatuses
               PROVE  runs'[r] = runs[r]
    OBVIOUS
  <1>1. runs \in [Runs -> RunRows]
    BY DEF StoreInv, StoreTypeOK
  <1>2. CASE RecoverAtStart
    BY <1>1, <1>2 DEF RecoverAtStart, RecoveredRun
  <1>3. ASSUME NEW q \in Runs, NEW c \in Convs, CreateRun(q, c)
        PROVE  runs'[r] = runs[r]
    BY <1>1, <1>3 DEF CreateRun
  <1>4. ASSUME NEW q \in Runs, NEW c \in Convs,
               RequestRunCancelCas(q, c) \/ RollbackRunCancelCas(q, c)
        PROVE  runs'[r] = runs[r]
    BY <1>1, <1>4 DEF RequestRunCancelCas, RollbackRunCancelCas, TransitionRunCancelState
  <1>5. ASSUME NEW q \in Runs, NEW c \in Convs,
               NEW s \in TerminalStatuses \cup {"cancelling"}, NEW p \in StopReasons,
               FinalizeRunCas(q, c, s, p)
        PROVE  runs'[r] = runs[r]
    BY <1>1, <1>5 DEF FinalizeRunCas, CasHits
  <1>6. CASE UNCHANGED runs
    BY <1>6
  <1> QED
    BY <1>2, <1>3, <1>4, <1>5, <1>6
    DEF StoreNext, CreateConversation, CloseConversationLocal, DeleteConversation,
        PromoteConversationBind, UpsertAgentSessionDiscover,
        BeginLoadReplay, CommitLoadReplay, RollbackLoadReplay

\* So an ending, once written, is what every later reader finds.
THEOREM EndingsAreFinal == StoreSpec => TerminalRunsFrozen
  BY InitInv, StoreInductive, EndingStep, PTL DEF StoreSpec, TerminalRunsFrozen

\* The outcome a transaction leaves in a row is the one it found, no claim of
\* success, or the ending it has just given to a run of the conversation.
LEMMA OutcomeStep ==
  ASSUME StoreInv, StoreNext, NEW d \in Convs, convs'[d].outcome \in {"completed", "cancelled"}
  PROVE  \/ convs'[d].outcome = convs[d].outcome
         \/ \E r \in Runs : runs'[r].conv = d /\ runs'[r].status = convs'[d].outcome
  <1>0. convs \in [Convs -> ConvRows] /\ runs \in [Runs -> RunRows]
    BY DEF StoreInv, StoreTypeOK
  <1>1. CASE RecoverAtStart
    BY <1>0, <1>1 DEF RecoverAtStart, RecoveredRow, RestoredRow
  <1>2. ASSUME NEW r \in Runs, NEW c \in Convs, NEW s \in TerminalStatuses \cup {"cancelling"},
               NEW p \in StopReasons, FinalizeRunCas(r, c, s, p)
        PROVE  \/ convs'[d].outcome = convs[d].outcome
               \/ runs'[r].conv = d /\ runs'[r].status = convs'[d].outcome
    BY <1>0, <1>2 DEF FinalizeRunCas
  <1>3. ASSUME NEW r \in Runs, NEW c \in Convs,
               CreateRun(r, c) \/ RequestRunCancelCas(r, c) \/ RollbackRunCancelCas(r, c)
        PROVE  convs'[d].outcome = convs[d].outcome
    BY <1>0, <1>3 DEF CreateRun, RequestRunCancelCas, RollbackRunCancelCas,
                      TransitionRunCancelState
  <1>4. ASSUME NEW c \in Convs,
               \/ \E o \in {"hub_created", "bound"}, m \in BOOLEAN : CreateConversation(c, o, m)
               \/ \E b \in BOOLEAN : CloseConversationLocal(c, b)
               \/ DeleteConversation(c)
               \/ BeginLoadReplay(c) \/ CommitLoadReplay(c) \/ RollbackLoadReplay(c)
               \/ \E m \in BOOLEAN : PromoteConversationBind(c, m)
               \/ \E m \in BOOLEAN : UpsertAgentSessionDiscover(c, m)
        PROVE  convs'[d].outcome = convs[d].outcome
    <2>1. CASE \/ \E o \in {"hub_created", "bound"}, m \in BOOLEAN : CreateConversation(c, o, m)
               \/ \E m \in BOOLEAN : UpsertAgentSessionDiscover(c, m)
      BY <1>0, <2>1 DEF CreateConversation, UpsertAgentSessionDiscover, FreshRow, ConvRows
    <2>2. CASE \E b \in BOOLEAN : CloseConversationLocal(c, b)
      BY <1>0, <2>2 DEF CloseConversationLocal
    <2>3. CASE DeleteConversation(c) \/ \E m \in BOOLEAN : PromoteConversationBind(c, m)
      BY <1>0, <2>3 DEF DeleteConversation, PromoteConversationBind
    <2>4. CASE BeginLoadReplay(c) \/ CommitLoadReplay(c) \/ RollbackLoadReplay(c)
      BY <1>0, <2>4 DEF BeginLoadReplay, CommitLoadReplay, RollbackLoadReplay, RestoredRow
    <2> QED
      BY <1>4, <2>1, <2>2, <2>3, <2>4
  <1> QED
    BY <1>1, <1>2, <1>3, <1>4 DEF StoreNext

\* A conversation is reported completed or cancelled only if a run of it ended
\* that way, and the rows agree with one another after every transaction: the
\* endings of runs are final, so an outcome never loses its run.
THEOREM StoreRowsConsistent == StoreSpec => []StoreConsistent
  <1>1. StoreInit => OutcomeHasRun
    <2> SUFFICES ASSUME StoreInit, NEW c \in Convs PROVE convs[c].outcome = "none"
      BY DEF OutcomeHasRun
    <2>1. \/ convs[c] = AbsentRow
          \/ \E o \in Origins : convs[c] = FreshRow(o, TRUE) \/ convs[c] = FreshRow(o, FALSE)
      BY DEF StoreInit
    <2> QED
      BY <2>1 DEF AbsentRow, FreshRow
  <1>2. StoreInv /\ OutcomeHasRun /\ [StoreNext]_storeVars => OutcomeHasRun'
    <2> SUFFICES ASSUME StoreInv, OutcomeHasRun, [StoreNext]_storeVars, NEW c \in Convs,
                        convs'[c].outcome \in {"completed", "cancelled"}
                 PROVE  \E r \in Runs : runs'[r].conv = c /\ runs'[r].status = convs'[c].outcome
      BY DEF OutcomeHasRun
    <2>1. CASE UNCHANGED storeVars
      BY <2>1 DEF storeVars, OutcomeHasRun
    <2>2. CASE StoreNext /\ convs'[c].outcome = convs[c].outcome
      <3>1. PICK r \in Runs : runs[r].conv = c /\ runs[r].status = convs[c].outcome
        BY <2>2 DEF OutcomeHasRun
      <3>2. UNCHANGED runs \/ runs'[r] = runs[r]
        BY <2>2, <3>1, EndingStep DEF storeVars
      <3> QED
        BY <2>2, <3>1, <3>2
    <2> QED
      BY <2>1, <2>2, OutcomeStep
  <1>3. StoreInv /\ OutcomeHasRun => StoreConsistent
    BY DEF StoreInv, StoreConsistent
  <1> QED
    BY InitInv, StoreInductive, <1>1, <1>2, <1>3, PTL DEF StoreSpec

\* Discovery never makes a hub-created or bound conversation read-only again,
\* unless it revives a deleted row (upsert_agent_session_discover).
THEOREM DiscoveryKeepsOrigin == StoreSpec => OriginNeverDowngraded
  <1>1. StoreInv /\ [StoreNext]_storeVars =>
          [\A c \in Convs : convs'[c].origin = "imported_list" =>
             convs[c].origin \in {"imported_list", "absent"} \/ convs[c].phase = "deleted"]_storeVars
    <2> SUFFICES ASSUME StoreInv, StoreNext, NEW d \in Convs, convs'[d].origin = "imported_list"
                 PROVE  convs[d].origin \in {"imported_list", "absent"} \/ convs[d].phase = "deleted"
      OBVIOUS
    <2>0. convs \in [Convs -> ConvRows]
      BY DEF StoreInv, StoreTypeOK
    <2>1. CASE RecoverAtStart
      BY <2>0, <2>1 DEF RecoverAtStart, RecoveredRow, RestoredRow
    <2>2. ASSUME NEW r \in Runs, NEW c \in Convs,
                 \/ CreateRun(r, c)
                 \/ RequestRunCancelCas(r, c) \/ RollbackRunCancelCas(r, c)
                 \/ \E s \in TerminalStatuses \cup {"cancelling"}, p \in StopReasons :
                      FinalizeRunCas(r, c, s, p)
          PROVE  convs'[d].origin = convs[d].origin
      BY <2>0, <2>2 DEF CreateRun, RequestRunCancelCas, RollbackRunCancelCas,
         TransitionRunCancelState, FinalizeRunCas
    <2>3. ASSUME NEW c \in Convs,
                 \/ \E b \in BOOLEAN : CloseConversationLocal(c, b)
                 \/ DeleteConversation(c)
                 \/ BeginLoadReplay(c) \/ CommitLoadReplay(c) \/ RollbackLoadReplay(c)
          PROVE  convs'[d].origin = convs[d].origin
      BY <2>0, <2>3 DEF CloseConversationLocal, DeleteConversation, BeginLoadReplay,
         CommitLoadReplay, RollbackLoadReplay, RestoredRow
    <2>4. ASSUME NEW c \in Convs, NEW m \in BOOLEAN,
                 (\E o \in {"hub_created", "bound"} : CreateConversation(c, o, m))
                 \/ PromoteConversationBind(c, m)
          PROVE  convs'[d].origin = convs[d].origin \/ convs'[d].origin # "imported_list"
      BY <2>0, <2>4 DEF CreateConversation, PromoteConversationBind, FreshRow
    <2>5. ASSUME NEW c \in Convs, NEW m \in BOOLEAN, UpsertAgentSessionDiscover(c, m)
          PROVE  \/ convs[d].origin \in {"imported_list", "absent"}
                 \/ convs[d].phase = "deleted"
      BY <2>0, <2>5 DEF UpsertAgentSessionDiscover, FreshRow, Exists, ConvRows
    <2> QED
      BY <2>1, <2>2, <2>3, <2>4, <2>5 DEF StoreNext
  <1> QED
    BY InitInv, StoreInductive, <1>1, PTL DEF StoreSpec, OriginNeverDowngraded

\* A transaction that replaces one row by a mirroring one, or keeps the columns
\* the status depends on, keeps every row mirroring.
LEMMA RowMirrors ==
  ASSUME StoreTypeOK, NEW c \in Convs, NEW row, convs' = [convs EXCEPT ![c] = row], Mirrors(row),
         NEW d \in Convs, Mirrors(convs[d])
  PROVE  Mirrors(convs'[d])
  BY DEF StoreTypeOK

\* The status column stays the synthetic status of the lifecycle columns in
\* every transaction but the end of a replay refresh.
THEOREM StatusOnlyByReplay == StoreSpec => StatusKept
  <1>1. StoreInv /\ [StoreNext]_storeVars =>
          [\A c \in Convs : Mirrors(convs[c]) /\ ~Mirrors(convs'[c]) =>
             replay[c] # "none" /\ replay'[c] = "none"]_storeVars
    <2> SUFFICES ASSUME StoreInv, StoreNext, NEW d \in Convs, Mirrors(convs[d]),
                        replay[d] = "none" \/ replay'[d] # "none"
                 PROVE  Mirrors(convs'[d])
      OBVIOUS
    <2>0. StoreTypeOK /\ convs[d] \in ConvRows
      BY DEF StoreInv, StoreTypeOK
    <2>1. CASE RecoverAtStart
      <3>1. replay[d] = "none" /\ convs'[d] = RecoveredRow(convs[d])
        BY <2>1 DEF RecoverAtStart, RestoredRow
      <3> QED
        BY <2>0, <3>1 DEF RecoveredRow, Mirrors, MirrorStatus, ConvRows
    <2>2. ASSUME NEW c \in Convs, NEW o \in {"hub_created", "bound"}, NEW m \in BOOLEAN,
                 CreateConversation(c, o, m)
          PROVE  Mirrors(convs'[d])
      BY <2>0, <2>2, FreshRowFacts, RowMirrors DEF CreateConversation
    <2>3. ASSUME NEW c \in Convs, NEW b \in BOOLEAN, CloseConversationLocal(c, b)
          PROVE  Mirrors(convs'[d])
      <3> DEFINE o == IF b THEN "failed" ELSE convs[c].outcome
                 row == Lifecycle(convs[c], "closed", "none", o, MirrorStatus("closed", "none", o))
      <3>1. Mirrors(row)
        BY DEF Mirrors
      <3>2. convs' = [convs EXCEPT ![c] = row]
        BY <2>3 DEF CloseConversationLocal
      <3> HIDE DEF row
      <3> QED
        BY <2>0, <3>1, <3>2, RowMirrors
    <2>4. ASSUME NEW c \in Convs, DeleteConversation(c)
          PROVE  Mirrors(convs'[d])
      <3> DEFINE row == Lifecycle(convs[c], "deleted", "none", convs[c].outcome, "deleted")
      <3>1. Mirrors(row)
        BY DEF Mirrors, MirrorStatus
      <3>2. convs' = [convs EXCEPT ![c] = row]
        BY <2>4 DEF DeleteConversation
      <3> HIDE DEF row
      <3> QED
        BY <2>0, <3>1, <3>2, RowMirrors
    <2>5. ASSUME NEW c \in Convs, NEW m \in BOOLEAN, PromoteConversationBind(c, m)
          PROVE  Mirrors(convs'[d])
      <3> DEFINE o == IF convs[c].origin = "hub_created" THEN "hub_created" ELSE "bound"
                 row == [origin |-> o, interaction |-> RecomputeInteraction(o, m),
                         phase |-> "open", busy |-> convs[c].busy, outcome |-> convs[c].outcome,
                         status |-> MirrorStatus("open", convs[c].busy, convs[c].outcome)]
      <3>1. Mirrors(row)
        BY DEF Mirrors
      <3>2. convs' = [convs EXCEPT ![c] = row]
        BY <2>5 DEF PromoteConversationBind
      <3> HIDE DEF row
      <3> QED
        BY <2>0, <3>1, <3>2, RowMirrors
    <2>6. ASSUME NEW c \in Convs, NEW m \in BOOLEAN, UpsertAgentSessionDiscover(c, m)
          PROVE  Mirrors(convs'[d])
      <3>1. CASE ~Exists(c) \/ convs[c].phase = "deleted"
        BY <2>0, <2>6, <3>1, FreshRowFacts, RowMirrors DEF UpsertAgentSessionDiscover
      <3>2. CASE Exists(c) /\ convs[c].phase # "deleted"
        BY <2>0, <2>6, <3>2 DEF UpsertAgentSessionDiscover, StoreTypeOK, ConvRows, Mirrors
      <3> QED
        BY <3>1, <3>2
    <2>7. ASSUME NEW r \in Runs, NEW c \in Convs,
                 \/ CreateRun(r, c)
                 \/ RequestRunCancelCas(r, c) \/ RollbackRunCancelCas(r, c)
                 \/ \E s \in TerminalStatuses \cup {"cancelling"}, p \in StopReasons :
                      FinalizeRunCas(r, c, s, p)
          PROVE  Mirrors(convs'[d])
      BY <2>0, <2>7 DEF CreateRun, RequestRunCancelCas, RollbackRunCancelCas,
         TransitionRunCancelState, FinalizeRunCas, StoreTypeOK, ConvRows, Mirrors, MirrorStatus
    <2>8. ASSUME NEW c \in Convs, BeginLoadReplay(c) \/ CommitLoadReplay(c)
          PROVE  Mirrors(convs'[d])
      BY <2>8 DEF BeginLoadReplay, CommitLoadReplay
    <2>9. ASSUME NEW c \in Convs, RollbackLoadReplay(c)
          PROVE  Mirrors(convs'[d])
      BY <2>0, <2>9 DEF RollbackLoadReplay, StoreTypeOK
    <2> QED
      BY <2>1, <2>2, <2>3, <2>4, <2>5, <2>6, <2>7, <2>8, <2>9 DEF StoreNext
  <1> QED
    BY InitInv, StoreInductive, <1>1, PTL DEF StoreSpec, StatusKept

HIDE DEF Phases, BusyStates, Outcomes, Statuses, Origins, ActiveStatuses,
         TerminalStatuses, StopReasons, OutcomeStatus,
         Lifecycle, RunRow

-----------------------------------------------------------------------------
(* The leases and the requests that hold them (HubOps).                    *)
\* A request that has been read and not been answered names a conversation; one
\* that reserves is not a cancel, one that cancels names the prompt it cancels.
RequestsPlaced ==
  \A t \in Tasks :
    /\ task[t].pc \notin Ends \cup {"idle"} => task[t].conv \in Convs
    /\ task[t].pc \in LeasePcs \cup {"reserve"} => task[t].kind \in AllKinds \ {"cancel"}
    /\ task[t].pc \in {"mark", "marked", "claim", "rollback", "spawn"} => task[t].target \in Tasks

\* The owner of a lease holds it for its own kind of operation.
LeaseHeld ==
  \A t \in Tasks : task[t].pc \in LeasePcs =>
    ops[task[t].conv].tok = t /\ ops[task[t].conv].kind = OpKind(task[t].kind)

\* A slot that is in use has an owner.
SlotsOwned == \A c \in Convs : ops[c].kind # "none" => ops[c].tok \in Tasks

\* The table has one prompt per agent.
OnePromptSlot ==
  \A c, d \in Convs : ops[c].kind = "prompt" /\ ops[d].kind = "prompt"
                        /\ AgentOf[c] = AgentOf[d] => c = d

\* A run row names a conversation.
RunsPlaced == \A r \in Runs : runs[r].status # "absent" => runs[r].conv \in Convs

\* A run that is being cancelled or supervised has a row.
SupervisedRunsExist ==
  /\ \A t \in Tasks : task[t].pc \in {"marked", "claim", "rollback", "spawn"} =>
       runs[task[t].target].status # "absent"
  /\ \A r \in Runs : sup[r].pc # "none" => runs[r].status # "absent"

\* The inductive invariant of the lease protocol: the store's own invariant, the
\* types, and the parts above.
LeaseInv == /\ StoreInv /\ RunsPlaced
            /\ HubTypeOK
            /\ RequestsPlaced
            /\ LeaseHeld
            /\ SlotsOwned
            /\ OnePromptSlot
            /\ SupervisedRunsExist

\* What a step that only moves one request has to keep.
LeasePart == /\ ops \in [Convs -> Operations]
             /\ task \in [Tasks -> Requests]
             /\ RequestsPlaced /\ LeaseHeld /\ SlotsOwned /\ OnePromptSlot

CancelPcs == {"mark", "marked", "claim", "rollback", "spawn"}

\* The owner of a lease moves on and stays its owner.
LEMMA OwnerMoves ==
  ASSUME LeasePart, NEW t \in Tasks, task[t].pc \in LeasePcs, NEW pc \in LeasePcs,
         NEW gen \in Nat, NEW end \in Ends, Advance(t, pc, gen, end), UNCHANGED ops
  PROVE  LeasePart'
  <1> USE DEF Advance, Request, Requests, LeasePart
  <1>1. task' \in [Tasks -> Requests]
    BY DEF Pcs
  <1>2. RequestsPlaced'
    BY DEF RequestsPlaced, LeasePcs, Ends
  <1>3. LeaseHeld'
    BY DEF LeaseHeld
  <1> QED
    BY <1>1, <1>2, <1>3 DEF SlotsOwned, OnePromptSlot

\* A cancel request moves on; it never holds a lease.
LEMMA CancelMoves ==
  ASSUME LeasePart, NEW t \in Tasks, task[t].pc \in CancelPcs, NEW pc \in CancelPcs,
         NEW gen \in Nat, NEW end \in Ends, Advance(t, pc, gen, end), UNCHANGED ops
  PROVE  LeasePart'
  <1> USE DEF Advance, Request, Requests, LeasePart, CancelPcs, LeasePcs
  <1>1. task' \in [Tasks -> Requests]
    BY DEF Pcs
  <1>2. RequestsPlaced'
    BY DEF RequestsPlaced, Ends
  <1>3. LeaseHeld'
    BY DEF LeaseHeld
  <1> QED
    BY <1>1, <1>2, <1>3 DEF SlotsOwned, OnePromptSlot

\* A request that is answered no longer claims anything.
LEMMA FinishMoves ==
  ASSUME LeasePart, NEW t \in Tasks, NEW end \in Ends, Finish(t, end), UNCHANGED ops
  PROVE  LeasePart'
  <1> USE DEF Finish, Answered, Request, Requests, LeasePart, LeasePcs, Ends
  <1>1. task' \in [Tasks -> Requests]
    BY DEF Pcs
  <1>2. RequestsPlaced'
    BY DEF RequestsPlaced
  <1>3. LeaseHeld'
    BY DEF LeaseHeld
  <1> QED
    BY <1>1, <1>2, <1>3 DEF SlotsOwned, OnePromptSlot

\* The rows the hub starts with are rows the store may start with.
LEMMA InitIsStoreInit == Init => StoreInit
  <1> SUFFICES ASSUME Init PROVE StoreInit
    OBVIOUS
  <1> DEFINE Hub == {FreshRow(o, TRUE) : o \in {"hub_created", "imported_list"}}
             All == {AbsentRow} \cup {FreshRow(o, TRUE) : o \in Origins}
                                \cup {FreshRow(o, FALSE) : o \in Origins}
  <1>1. Hub \subseteq All
    BY DEF Origins
  <1> HIDE DEF Hub, All
  <1>2. convs \in [Convs -> All]
    <2>1. convs \in [Convs -> Hub]
      BY DEF Init, Hub
    <2> QED
      BY <1>1, <2>1
  <1> QED
    BY <1>2 DEF Init, StoreInit, All

\* The initial state.
LEMMA LeaseInit == Init => LeaseInv
  <1> SUFFICES ASSUME Init PROVE LeaseInv
    OBVIOUS
  <1>1. StoreInv
    BY InitIsStoreInit, InitInv
  <1>2. HubTypeOK
    BY HubAssumption
    DEF Init, HubTypeOK, Operations, Requests, NoOp, NoEntry, NoSup, Idle, Request, Pcs, Ends
  <1>3. RunsPlaced /\ RequestsPlaced /\ LeaseHeld
    BY DEF Init, RunsPlaced, RequestsPlaced, LeaseHeld, AbsentRun, Idle, Request, LeasePcs, Ends, Tasks
  <1>4. SlotsOwned /\ OnePromptSlot /\ SupervisedRunsExist
    BY DEF Init, SlotsOwned, OnePromptSlot, NoOp, SupervisedRunsExist, Idle, Request, NoSup
  <1> QED
    BY <1>1, <1>2, <1>3, <1>4 DEF LeaseInv

\* Steps of clients: a new request holds nothing yet, an aborted one releases.
LEMMA ClientLease ==
  ASSUME LeaseInv, NEW t \in Tasks, ClientStep(t)
  PROVE  LeasePart'
  <1>0. LeasePart
    BY DEF LeaseInv, HubTypeOK, LeasePart
  <1>1. ASSUME NEW kind \in AllKinds \ {"cancel"}, NEW c \in Convs,
               StartTask(t, kind, c, "reserve"), UNCHANGED ops
        PROVE  LeasePart'
    <2> USE DEF StartTask, Request, Requests, LeasePart, LeasePcs, At
    <2>1. task' \in [Tasks -> Requests]
      BY <1>0, <1>1 DEF Pcs, Ends
    <2>2. RequestsPlaced'
      BY <1>0, <1>1 DEF RequestsPlaced, Ends
    <2>3. LeaseHeld'
      BY <1>0, <1>1 DEF LeaseHeld
    <2> QED
      BY <1>0, <1>1, <2>1, <2>2, <2>3 DEF SlotsOwned, OnePromptSlot
  <1>2. ASSUME NEW c \in Convs, BeginCancel(t, c)
        PROVE  LeasePart'
    <2> USE DEF BeginCancel, Request, Requests, LeasePart, LeasePcs, At, opVars
    <2>1. ops[c].tok \in Tasks
      BY <1>0, <1>2 DEF SlotsOwned, NoOp
    <2>2. task' \in [Tasks -> Requests]
      BY <1>0, <1>2, <2>1 DEF Pcs, Ends, AllKinds
    <2>3. RequestsPlaced'
      BY <1>0, <1>2, <2>1 DEF RequestsPlaced, Ends
    <2>4. LeaseHeld'
      BY <1>0, <1>2 DEF LeaseHeld
    <2> QED
      BY <1>0, <1>2, <2>2, <2>3, <2>4 DEF SlotsOwned, OnePromptSlot
  <1>3. CASE ExtCheckOwner(t)
    BY <1>0, <1>3, OwnerMoves
    DEF ExtCheckOwner, Goto, At, LeasePart, Requests, LeasePcs, opVars
  <1>4. CASE AbortRequest(t)
    <2>1. CASE At(t, "spawn") /\ Finish(t, "gone")
      BY <1>0, <1>4, <2>1, FinishMoves DEF AbortRequest, opVars, Ends
    <2>2. CASE (At(t, "refresh") \/ At(t, "resume")) /\ Goto(t, "orphan")
      BY <1>0, <1>4, <2>2, OwnerMoves
      DEF AbortRequest, Goto, At, LeasePart, Requests, LeasePcs, opVars
    <2>3. CASE (At(t, "starting") \/ At(t, "reload") \/ At(t, "create")) /\ Leave(t, "gone")
      BY <1>0, <1>4, <2>3, OwnerMoves
      DEF AbortRequest, Leave, At, LeasePart, Requests, LeasePcs, Ends, opVars
    <2> QED
      BY <1>4, <2>1, <2>2, <2>3 DEF AbortRequest
  <1> QED
    BY <1>1, <1>2, <1>3, <1>4
    DEF ClientStep, BeginWrite, BeginRemove, BeginBind, BeginExternal, opVars, AllKinds

\* reserve_operation: the new owner enters an empty slot, and a prompt only when
\* no other slot of its agent holds one.
LEMMA ReserveLease ==
  ASSUME LeaseInv, NEW t \in Tasks, Reserve(t)
  PROVE  LeasePart'
  <1>0. LeasePart
    BY DEF LeaseInv, HubTypeOK, LeasePart
  <1>1. CASE ~Reservable(t)
    BY <1>0, <1>1, FinishMoves DEF Reserve, Ends
  <1>2. CASE Reservable(t)
    <2> DEFINE c  == task[t].conv
               pc == IF task[t].kind = "external" THEN "ext_create" ELSE "starting"
               op == [tok |-> t, kind |-> OpKind(task[t].kind), cancel |-> FALSE]
    <2>1. /\ c \in Convs /\ task[t].kind \in AllKinds \ {"cancel"}
          /\ ops[c] = NoOp
          /\ task[t].kind = "send" =>
               \A d \in Convs : AgentOf[d] = AgentOf[c] => ops[d].kind # "prompt"
      BY <1>0, <1>2 DEF LeasePart, RequestsPlaced, Reserve, Reservable, At, Ends
    <2>2. ops' = [ops EXCEPT ![c] = op]
          /\ Advance(t, pc, task[t].gen, task[t].end) /\ pc \in LeasePcs \ {"reserve"}
      BY <1>2 DEF Reserve, Goto, LeasePcs
    <2>3. op \in Operations /\ op.tok = t /\ (op.kind = "prompt" <=> task[t].kind = "send")
          /\ op.kind = OpKind(task[t].kind) /\ op.kind # "none"
      BY <2>1 DEF Operations, OpKind, AllKinds
    <2>4. /\ task' \in [Tasks -> Requests]
          /\ task'[t].pc = pc /\ task'[t].conv = c /\ task'[t].kind = task[t].kind
          /\ \A u \in Tasks \ {t} : task'[u] = task[u]
      BY <1>0, <2>2 DEF LeasePart, Requests, Advance, Request, Pcs
    <2>5. ops' \in [Convs -> Operations] /\ ops'[c] = op
          /\ \A d \in Convs \ {c} : ops'[d] = ops[d]
      BY <1>0, <2>1, <2>2, <2>3 DEF LeasePart
    <2> HIDE DEF c, pc, op
    <2>6. RequestsPlaced'
      BY <1>0, <2>1, <2>2, <2>4 DEF LeasePart, RequestsPlaced, LeasePcs
    <2>7. LeaseHeld'
      <3> SUFFICES ASSUME NEW u \in Tasks, task'[u].pc \in LeasePcs
                   PROVE  ops'[task'[u].conv].tok = u
                          /\ ops'[task'[u].conv].kind = OpKind(task'[u].kind)
        BY DEF LeaseHeld
      <3>1. CASE u = t
        BY <2>3, <2>4, <2>5, <3>1
      <3>2. CASE u # t
        <4>1. task[u].conv \in Convs /\ task[u].conv # c /\ ops[task[u].conv].tok = u
              /\ ops[task[u].conv].kind = OpKind(task[u].kind)
          BY <1>0, <2>1, <2>4, <3>2, HubAssumption
          DEF LeasePart, LeaseHeld, RequestsPlaced, NoOp, LeasePcs, Ends, Tasks
        <4> QED
          BY <2>4, <2>5, <3>2, <4>1
      <3> QED
        BY <3>1, <3>2
    <2>8. SlotsOwned'
      BY <1>0, <2>3, <2>5 DEF LeasePart, SlotsOwned
    <2>9. OnePromptSlot'
      BY <1>0, <2>1, <2>3, <2>5 DEF LeasePart, OnePromptSlot
    <2> QED
      BY <2>4, <2>5, <2>6, <2>7, <2>8, <2>9 DEF LeasePart
  <1> QED
    BY <1>1, <1>2

\* Drop of the lease: only the slot the request owns is emptied.
LEMMA ReleaseLease ==
  ASSUME LeaseInv, NEW t \in Tasks, Release(t)
  PROVE  LeasePart'
  <1> DEFINE c == task[t].conv
  <1>0. LeasePart /\ task[t].end \in Ends
    BY DEF LeaseInv, HubTypeOK, LeasePart, Requests
  <1>1. c \in Convs /\ ops[c].tok = t
    BY <1>0 DEF LeasePart, LeaseHeld, RequestsPlaced, Release, At, LeasePcs, Ends
  <1>2. /\ task' \in [Tasks -> Requests] /\ task'[t].pc = task[t].end
        /\ \A u \in Tasks \ {t} : task'[u] = task[u]
    BY <1>0 DEF LeasePart, Release, Finish, Answered, Request, Requests, Pcs, Ends
  <1>3. /\ ops' \in [Convs -> Operations] /\ ops'[c] = NoOp
        /\ \A d \in Convs \ {c} : ops'[d] = ops[d]
    BY <1>0, <1>1 DEF LeasePart, Release, Operations, NoOp
  <1> HIDE DEF c
  <1>4. RequestsPlaced'
    BY <1>0, <1>2 DEF LeasePart, RequestsPlaced, Ends, LeasePcs
  <1>5. LeaseHeld'
    BY <1>0, <1>1, <1>2, <1>3 DEF LeasePart, LeaseHeld, RequestsPlaced, Ends, LeasePcs
  <1>6. SlotsOwned' /\ OnePromptSlot'
    BY <1>0, <1>3 DEF LeasePart, SlotsOwned, OnePromptSlot, NoOp
  <1> QED
    BY <1>2, <1>3, <1>4, <1>5, <1>6 DEF LeasePart

\* Every other step of a request, a worker or a supervisor keeps the leases: the
\* owner stays the owner, a cancel holds none, an answered request claims none.
LEMMA RequestLease ==
  ASSUME LeaseInv, NEW t \in Tasks, HubStep(t) \/ AgentStep(t) \/ SupervisorStep(t)
  PROVE  LeasePart'
  <1>0. LeasePart /\ task[t].end \in Ends /\ task[t].gen \in Nat
    BY DEF LeaseInv, HubTypeOK, LeasePart, Requests
  <1>1. ASSUME task[t].pc \in LeasePcs, UNCHANGED ops,
               \/ \E pc \in LeasePcs : Goto(t, pc)
               \/ \E end \in Ends : Leave(t, end)
        PROVE  LeasePart'
    BY <1>0, <1>1, OwnerMoves DEF Goto, Leave, LeasePcs
  <1>2. ASSUME UNCHANGED <<ops, task>>
        PROVE  LeasePart'
    BY <1>0, <1>2 DEF LeasePart, RequestsPlaced, LeaseHeld, SlotsOwned, OnePromptSlot
  <1> USE DEF At, opVars
  <1>3. CASE Reserve(t)
    BY <1>3, ReserveLease
  <1>4. CASE Release(t)
    BY <1>4, ReleaseLease
  <1>5. CASE SendCreateRun(t)
    BY <1>1, <1>5 DEF SendCreateRun, LeasePcs, Ends
  <1>6. CASE AcquireRunLease(t)
    BY <1>0, <1>6, OwnerMoves DEF AcquireRunLease, InsertLive, LeaseInv, HubTypeOK, LeasePcs, Ends
  <1>7. CASE StorePrompt(t)
    <2>1. CASE Goto(t, "worker")
      BY <1>1, <1>7, <2>1 DEF StorePrompt, LeasePcs
    <2>2. CASE Advance(t, "completing", task[t].gen, "failed")
      BY <1>0, <1>7, <2>2, OwnerMoves DEF StorePrompt, LeasePcs, Ends
    <2> QED
      BY <1>7, <2>1, <2>2 DEF StorePrompt
  <1>8. CASE CompleteRun(t)
    BY <1>0, <1>1, <1>8 DEF CompleteRun, LeasePcs
  <1>9. CASE CancelMark(t) \/ CancelReadRuntime(t) \/ CancelSpawn(t) \/ CancelRollback(t)
    <2>1. CASE CancelMark(t)
      BY <1>0, <2>1, CancelMoves, FinishMoves DEF CancelMark, Goto, CancelPcs, Ends
    <2>2. CASE CancelReadRuntime(t)
      <3>1. task[t].conv \in Convs /\ runtime[task[t].conv].gen \in Nat
        BY <1>0, <2>2
        DEF CancelReadRuntime, LeaseInv, HubTypeOK, LeasePart, RequestsPlaced, Ends
      <3> QED
        BY <1>0, <2>2, <3>1, CancelMoves DEF CancelReadRuntime, CancelPcs, Ends
    <2>3. CASE CancelSpawn(t)
      BY <1>0, <2>3, FinishMoves DEF CancelSpawn, Ends
    <2>4. CASE CancelRollback(t)
      BY <1>0, <2>4, FinishMoves DEF CancelRollback, Ends
    <2> QED
      BY <1>9, <2>1, <2>2, <2>3, <2>4
  <1>10. CASE CancelClaim(t)
    <2> DEFINE c == task[t].conv
    <2>1. CASE ~CanTransition(c, "live", task[t].gen)
      BY <1>0, <1>10, <2>1, CancelMoves DEF CancelClaim, Goto, CancelPcs
    <2>2. CASE CanTransition(c, "live", task[t].gen)
      <3>1. /\ ops' \in [Convs -> Operations]
            /\ \A d \in Convs : ops'[d].tok = ops[d].tok /\ ops'[d].kind = ops[d].kind
        <4> DEFINE op == [ops[c] EXCEPT !.cancel = TRUE]
        <4>1. ops' = [ops EXCEPT ![c] = op]
          BY <1>10, <2>2 DEF CancelClaim
        <4>2. c \in Convs
          BY <1>0, <1>10 DEF CancelClaim, LeasePart, RequestsPlaced, Ends
        <4>3. op \in Operations /\ op.tok = ops[c].tok /\ op.kind = ops[c].kind
          BY <1>0, <4>2 DEF LeasePart, Operations
        <4> HIDE DEF op
        <4> QED
          BY <1>0, <4>1, <4>2, <4>3 DEF LeasePart
      <3>2. /\ task' \in [Tasks -> Requests] /\ task'[t].pc = "spawn" /\ task'[t].conv = c
            /\ task'[t].target = task[t].target
            /\ \A u \in Tasks \ {t} : task'[u] = task[u]
        BY <1>0, <1>10, <2>2
        DEF CancelClaim, Goto, Advance, Request, Requests, LeasePart, Pcs
      <3>3. RequestsPlaced'
        BY <1>0, <1>10, <3>2 DEF CancelClaim, LeasePart, RequestsPlaced, LeasePcs, Ends
      <3>4. LeaseHeld'
        BY <1>0, <3>1, <3>2 DEF LeasePart, LeaseHeld, RequestsPlaced, LeasePcs, Ends
      <3>5. OnePromptSlot'
        BY <1>0, <3>1 DEF LeasePart, OnePromptSlot
      <3>6. SlotsOwned'
        BY <1>0, <3>1 DEF LeasePart, SlotsOwned
      <3> QED
        BY <3>1, <3>2, <3>3, <3>4, <3>5, <3>6 DEF LeasePart
    <2> QED
      BY <2>1, <2>2
  <1>11. CASE CloseRun(t) \/ CloseLocal(t) \/ DeleteLocal(t)
    BY <1>1, <1>11 DEF CloseRun, CloseLocal, DeleteLocal, LeasePcs, Ends
  <1>12. CASE ExtCreateRun(t) \/ ExtFinalize(t)
    BY <1>1, <1>12 DEF ExtCreateRun, ExtFinalize, LeasePcs, Ends
  <1>13. CASE StartFails(t) \/ UseLiveSession(t) \/ StartRefresh(t) \/ ReloadSession(t)
    BY <1>1, <1>13 DEF StartFails, UseLiveSession, StartRefresh, ReloadSession, EnqueueRefresh,
                       AfterLive, LeasePcs, Ends
  <1>14. CASE RefreshOk(t) \/ RefreshFails(t) \/ OrphanOk(t)
    BY <1>1, <1>14 DEF RefreshOk, RefreshFails, OrphanOk, AfterLive, LeasePcs, Ends
  <1>15. CASE WorkerFinalize(t)
    BY <1>1, <1>15 DEF WorkerFinalize, LeasePcs
  <1>16. CASE EnqueueRemove(t) \/ DeleteLocally(t) \/ RemoveAgreed(t) \/ ReplyEnds(t)
    BY <1>1, <1>16 DEF EnqueueRemove, DeleteLocally, RemoveAgreed, ReplyEnds, LeasePcs, Ends
  <1>17. CASE SupervisorStep(t)
    BY <1>2, <1>17 DEF SupervisorStep, SupervisorCheck, SupervisorExpire,
                       SupervisorReadRuntime, SupervisorSettle
  <1> QED
    BY <1>3, <1>4, <1>5, <1>6, <1>7, <1>8, <1>9, <1>10, <1>11, <1>12, <1>13, <1>14, <1>15,
       <1>16, <1>17
    DEF HubStep, AgentStep

\* A new daemon starts with an empty table and no request.
LEMMA CrashLease ==
  ASSUME LeaseInv, CrashRestart
  PROVE  LeasePart'
  <1>1. /\ ops' = [c \in Convs |-> NoOp]
        /\ \A t \in Tasks : task'[t] = IF task[t].pc \in Ends \cup {"idle"} THEN task[t]
                                       ELSE Answered(task[t], "gone")
        /\ task' \in [Tasks -> Requests]
    BY DEF CrashRestart, LeaseInv, HubTypeOK, Requests, Answered, Request, Pcs, Ends
  <1>2. \A t \in Tasks : task'[t].pc \in Ends \cup {"idle"}
    BY <1>1 DEF LeaseInv, HubTypeOK, Answered, Request, Ends
  <1>3. RequestsPlaced' /\ LeaseHeld'
    BY <1>2 DEF RequestsPlaced, LeaseHeld, LeasePcs, Ends
  <1>4. SlotsOwned' /\ OnePromptSlot'
    BY <1>1 DEF SlotsOwned, OnePromptSlot, NoOp
  <1>5. ops' \in [Convs -> Operations]
    BY <1>1 DEF Operations, NoOp
  <1> QED
    BY <1>1, <1>3, <1>4, <1>5 DEF LeasePart

\* The variables other than the table and the requests keep their types.
RestTypeOK ==
  /\ opsLock \in Tasks \cup {NoTask}
  /\ runtime \in [Convs -> [state : {"absent", "live", "cancelling"}, gen : Nat]]
  /\ nextGen \in Nat
  /\ bound \in SUBSET Convs
  /\ currentRun \in [Convs -> Runs \cup {NoTask}]
  /\ sup \in [Runs -> [pc : {"none", "sleeping", "expire", "expired", "settle", "done"}, gen : Nat]]
  /\ crashes \in 0..MaxCrashes

\* Every step keeps those types.
LEMMA RestTypes ==
  ASSUME LeaseInv, Next
  PROVE  RestTypeOK'
  <1> USE DEF At, rtVars, ctxVars, opVars, Tasks
  <1>0. RestTypeOK /\ LeasePart
    BY DEF LeaseInv, HubTypeOK, RestTypeOK, LeasePart
  <1>1. ASSUME NEW t \in Tasks, task[t].pc \notin Ends \cup {"idle"}
        PROVE  task[t].conv \in Convs /\ task[t].gen \in Nat
    BY <1>0, <1>1 DEF LeasePart, RequestsPlaced, Requests
  <1>2. ASSUME NEW c \in Convs, InsertLive(c)
        PROVE  /\ nextGen' \in Nat
               /\ runtime' \in [Convs -> [state : {"absent", "live", "cancelling"}, gen : Nat]]
    BY <1>0, <1>2 DEF InsertLive, RestTypeOK
  <1>3. ASSUME NEW c \in Convs, NEW from, NEW to \in {"live", "cancelling"}, NEW gen,
               Transition(c, from, to, gen)
        PROVE  runtime' \in [Convs -> [state : {"absent", "live", "cancelling"}, gen : Nat]]
    BY <1>0, <1>3 DEF Transition, RestTypeOK
  <1>4. ASSUME NEW c \in Convs, Unbind(c)
        PROVE  bound' \in SUBSET Convs /\ currentRun' \in [Convs -> Runs \cup {NoTask}]
    BY <1>0, <1>4 DEF Unbind, RestTypeOK
  <1>5. ASSUME NEW t \in Tasks, ClientStep(t)
        PROVE  RestTypeOK'
    BY <1>0, <1>5 DEF ClientStep, BeginWrite, BeginRemove, BeginBind, BeginCancel,
                      BeginExternal, ExtCheckOwner, AbortRequest, RestTypeOK
  <1>6. ASSUME NEW t \in Tasks, HubStep(t)
        PROVE  RestTypeOK'
    <2>1. CASE Reserve(t) \/ Release(t) \/ SendCreateRun(t) \/ CloseRun(t) \/ CloseLocal(t)
               \/ DeleteLocal(t) \/ ExtCreateRun(t) \/ ExtFinalize(t) \/ CancelReadRuntime(t)
      BY <1>0, <2>1 DEF Reserve, Release, SendCreateRun, CloseRun, CloseLocal, DeleteLocal,
                        ExtCreateRun, ExtFinalize, CancelReadRuntime, RestTypeOK
    <2>2. CASE AcquireRunLease(t)
      BY <1>0, <1>1, <1>2, <2>2 DEF AcquireRunLease, RestTypeOK, Ends
    <2>3. CASE StorePrompt(t)
      BY <1>0, <1>1, <2>3 DEF StorePrompt, RestTypeOK, Ends
    <2>4. CASE CompleteRun(t)
      BY <1>0, <1>1, <1>3, <2>4 DEF CompleteRun, RestTypeOK, Ends
    <2>5. CASE CancelMark(t) \/ CancelRollback(t)
      BY <1>0, <2>5 DEF CancelMark, CancelRollback, RestTypeOK
    <2>6. CASE CancelClaim(t)
      BY <1>0, <1>1, <1>3, <2>6 DEF CancelClaim, RestTypeOK, Ends
    <2>7. CASE CancelSpawn(t)
      <3>1. task[t].target \in Runs
        BY <1>0, <2>7 DEF CancelSpawn, LeasePart, RequestsPlaced
      <3> QED
        BY <1>0, <2>7, <3>1 DEF CancelSpawn, SupGoto, RestTypeOK
    <2> QED
      BY <1>6, <2>1, <2>2, <2>3, <2>4, <2>5, <2>6, <2>7 DEF HubStep
  <1>7. ASSUME NEW t \in Tasks, AgentStep(t)
        PROVE  RestTypeOK'
    <2>1. CASE StartFails(t) \/ UseLiveSession(t) \/ OrphanOk(t) \/ WorkerFinalize(t)
               \/ EnqueueRemove(t) \/ ReplyEnds(t)
      BY <1>0, <2>1 DEF StartFails, UseLiveSession, OrphanOk, WorkerFinalize, EnqueueRemove,
                        ReplyEnds, RestTypeOK
    <2>2. CASE StartRefresh(t)
      BY <1>0, <1>1, <2>2 DEF StartRefresh, EnqueueRefresh, RestTypeOK, NoEntry, Ends
    <2>6. CASE ReloadSession(t)
      BY <1>0, <1>1, <2>6 DEF ReloadSession, EnqueueRefresh, RestTypeOK, Ends
    <2>3. CASE RefreshOk(t)
      BY <1>0, <1>1, <1>2, <2>3 DEF RefreshOk, RestTypeOK, Ends
    <2>4. CASE RefreshFails(t)
      BY <1>0, <1>1, <1>4, <2>4 DEF RefreshFails, RestTypeOK, Ends
    <2>5. CASE DeleteLocally(t) \/ RemoveAgreed(t)
      BY <1>0, <1>1, <1>4, <2>5 DEF DeleteLocally, RemoveAgreed, RestTypeOK, NoEntry, Ends
    <2> QED
      BY <1>7, <2>1, <2>2, <2>3, <2>4, <2>5, <2>6 DEF AgentStep
  <1>8. ASSUME NEW r \in Tasks, SupervisorStep(r)
        PROVE  RestTypeOK'
    <2>1. CASE SupervisorCheck(r) \/ SupervisorExpire(r)
      BY <1>0, <2>1 DEF SupervisorCheck, SupervisorExpire, SupGoto, RestTypeOK
    <2>2. CASE SupervisorReadRuntime(r)
      <3>1. runs[r].conv \in Convs
        BY <2>2 DEF SupervisorReadRuntime, LeaseInv, RunsPlaced, SupervisedRunsExist
      <3> QED
        BY <1>0, <2>2, <3>1 DEF SupervisorReadRuntime, SupGoto, RestTypeOK
    <2>3. CASE SupervisorSettle(r)
      <3>1. runs[r].conv \in Convs
        BY <2>3 DEF SupervisorSettle, LeaseInv, RunsPlaced, SupervisedRunsExist
      <3> QED
        BY <1>0, <1>3, <2>3, <3>1 DEF SupervisorSettle, SupGoto, RestTypeOK
    <2> QED
      BY <1>8, <2>1, <2>2, <2>3 DEF SupervisorStep
  <1>9. ASSUME NEW c \in Convs, NEW m \in BOOLEAN, Discover(c, m)
        PROVE  RestTypeOK'
    BY <1>0, <1>9 DEF Discover, RestTypeOK
  <1>10. ASSUME NEW a \in Agents, ConnectionLost(a)
         PROVE  RestTypeOK'
    BY <1>0, <1>10 DEF ConnectionLost, RestTypeOK
  <1>11. CASE CrashRestart
    BY <1>0, <1>11, HubAssumption DEF CrashRestart, RestTypeOK, NoEntry, NoSup
  <1> QED
    BY <1>5, <1>6, <1>7, <1>8, <1>9, <1>10, <1>11 DEF Next

\* Every step of the hub is one transaction of the store, or none.
LEMMA StoreSteps ==
  ASSUME LeaseInv, [Next]_vars
  PROVE  [StoreNext]_storeVars
  <1> USE DEF At, Tasks
  <1>1. ASSUME NEW t \in Tasks, task[t].pc \notin Ends \cup {"idle"}
        PROVE  task[t].conv \in Convs
    BY <1>1 DEF LeaseInv, RequestsPlaced
  <1>2. ASSUME NEW t \in Tasks, task[t].pc \in CancelPcs
        PROVE  task[t].target \in Runs
    BY <1>2 DEF LeaseInv, RequestsPlaced, CancelPcs
  <1>3. ASSUME NEW r \in Runs, NEW c \in Convs, NEW s \in TerminalStatuses \cup {"cancelling"},
               NEW p \in StopReasons, FinalizeRunCas(r, c, s, p)
        PROVE  StoreNext
    BY <1>3 DEF StoreNext
  <1>4. ASSUME NEW r \in Runs, NEW c \in Convs, CreateRun(r, c)
        PROVE  StoreNext
    BY <1>4 DEF StoreNext
  <1>5. ASSUME NEW t \in Tasks, ClientStep(t)
        PROVE  StoreNext \/ UNCHANGED storeVars
    BY <1>5 DEF ClientStep, BeginWrite, BeginRemove, BeginBind, BeginCancel,
                BeginExternal, ExtCheckOwner, AbortRequest, StoreNext
  <1>6. ASSUME NEW t \in Tasks, HubStep(t)
        PROVE  StoreNext \/ UNCHANGED storeVars
    <2>1. CASE Reserve(t) \/ Release(t) \/ AcquireRunLease(t) \/ CompleteRun(t)
               \/ CancelReadRuntime(t) \/ CancelClaim(t) \/ CancelSpawn(t)
      BY <2>1 DEF Reserve, Release, AcquireRunLease, CompleteRun, CancelReadRuntime,
                  CancelClaim, CancelSpawn
    <2>2. CASE SendCreateRun(t) \/ ExtCreateRun(t)
      BY <1>1, <1>4, <2>2 DEF SendCreateRun, ExtCreateRun, Ends
    <2>3. CASE StorePrompt(t)
      BY <1>1, <1>3, <2>3 DEF StorePrompt, TryFinalize, Ends, TerminalStatuses, StopReasons
    <2>4. CASE CancelMark(t) \/ CancelRollback(t)
      BY <1>1, <1>2, <2>4 DEF CancelMark, CancelRollback, CancelPcs, StoreNext, Ends
    <2>5. CASE CloseRun(t)
      <3>1. ActiveRuns(task[t].conv) \subseteq Runs
        BY DEF ActiveRuns
      <3> QED
        BY <1>1, <1>3, <2>5, <3>1 DEF CloseRun, Ends, TerminalStatuses, StopReasons
    <2>6. CASE CloseLocal(t)
      <3>1. task[t].conv \in Convs /\ task[t].wasBusy \in BOOLEAN
        BY <1>1, <2>6 DEF CloseLocal, LeaseInv, HubTypeOK, Requests, Ends
      <3> QED
        BY <2>6, <3>1 DEF CloseLocal, StoreNext
    <2>7. CASE DeleteLocal(t)
      BY <1>1, <2>7 DEF DeleteLocal, StoreNext, Ends
    <2>8. CASE ExtFinalize(t)
      BY <1>1, <1>3, <2>8 DEF ExtFinalize, Ends, StopReasons
    <2> QED
      BY <1>6, <2>1, <2>2, <2>3, <2>4, <2>5, <2>6, <2>7, <2>8 DEF HubStep
  <1>7. ASSUME NEW t \in Tasks, AgentStep(t)
        PROVE  StoreNext \/ UNCHANGED storeVars
    <2>1. CASE WorkerFinalize(t)
      BY <1>1, <1>3, <2>1 DEF WorkerFinalize, TryFinalize, Endings, Ends, TerminalStatuses, StopReasons
    <2>2. ASSUME NEW pc, EnqueueRefresh(t, pc), task[t].conv \in Convs
          PROVE  StoreNext \/ UNCHANGED storeVars
      BY <2>2 DEF EnqueueRefresh, StoreNext
    <2>3. CASE StartRefresh(t) \/ ReloadSession(t)
      BY <1>1, <2>2, <2>3 DEF StartRefresh, ReloadSession, Ends
    <2>4. CASE RefreshOk(t) \/ OrphanOk(t)
      BY <1>1, <2>4 DEF RefreshOk, OrphanOk, StoreNext, Ends
    <2>5. CASE RefreshFails(t)
      BY <1>1, <2>5 DEF RefreshFails, TryRollback, StoreNext, Ends
    <2>6. CASE StartFails(t) \/ UseLiveSession(t) \/ EnqueueRemove(t) \/ DeleteLocally(t)
               \/ RemoveAgreed(t) \/ ReplyEnds(t)
      BY <2>6 DEF StartFails, UseLiveSession, EnqueueRemove, DeleteLocally, RemoveAgreed, ReplyEnds
    <2> QED
      BY <1>7, <2>1, <2>3, <2>4, <2>5, <2>6 DEF AgentStep
  <1>8. ASSUME NEW r \in Tasks, SupervisorStep(r)
        PROVE  StoreNext \/ UNCHANGED storeVars
    <2>1. CASE SupervisorExpire(r)
      <3>1. CasHits(r, runs[r].conv) => runs[r].conv \in Convs
        BY DEF CasHits, LeaseInv, RunsPlaced, ActiveStatuses
      <3> QED
        BY <1>3, <2>1, <3>1 DEF SupervisorExpire, FinalizeRunCas, TerminalStatuses, StopReasons
    <2>2. CASE ~SupervisorExpire(r)
      BY <1>8, <2>2 DEF SupervisorStep, SupervisorCheck, SupervisorReadRuntime, SupervisorSettle
    <2> QED
      BY <2>1, <2>2
  <1>9. ASSUME NEW c \in Convs, NEW m \in BOOLEAN, Discover(c, m)
        PROVE  StoreNext
    BY <1>9 DEF Discover, StoreNext
  <1>10. ASSUME NEW a \in Agents, ConnectionLost(a)
         PROVE  UNCHANGED storeVars
    BY <1>10 DEF ConnectionLost
  <1>11. CASE CrashRestart
    BY <1>11 DEF CrashRestart, StoreNext
  <1>12. CASE UNCHANGED vars
    BY <1>12 DEF vars, storeVars
  <1> QED
    BY <1>5, <1>6, <1>7, <1>8, <1>9, <1>10, <1>11, <1>12 DEF Next

\* No transaction removes a run row, and one that writes it names a conversation.
LEMMA RunsStay ==
  ASSUME LeaseInv, [StoreNext]_storeVars
  PROVE  /\ RunsPlaced'
         /\ \A r \in Runs : runs[r].status # "absent" => runs'[r].status # "absent"
  <1> USE DEF RunsPlaced, RunRow
  <1>0. RunsPlaced /\ runs \in [Runs -> RunRows]
    BY DEF LeaseInv, StoreInv, StoreTypeOK
  <1>1. CASE RecoverAtStart
    BY <1>0, <1>1 DEF RecoverAtStart, RecoveredRun, ActiveStatuses
  <1>2. ASSUME NEW r \in Runs, NEW c \in Convs, CreateRun(r, c)
        PROVE  /\ RunsPlaced'
               /\ \A q \in Runs : runs[q].status # "absent" => runs'[q].status # "absent"
    BY <1>0, <1>2 DEF CreateRun
  <1>3. ASSUME NEW r \in Runs, NEW c \in Convs,
               RequestRunCancelCas(r, c) \/ RollbackRunCancelCas(r, c)
        PROVE  /\ RunsPlaced'
               /\ \A q \in Runs : runs[q].status # "absent" => runs'[q].status # "absent"
    BY <1>0, <1>3 DEF RequestRunCancelCas, RollbackRunCancelCas, TransitionRunCancelState
  <1>4. ASSUME NEW r \in Runs, NEW c \in Convs,
               NEW s \in TerminalStatuses \cup {"cancelling"}, NEW p \in StopReasons,
               FinalizeRunCas(r, c, s, p)
        PROVE  /\ RunsPlaced'
               /\ \A q \in Runs : runs[q].status # "absent" => runs'[q].status # "absent"
    BY <1>0, <1>4 DEF FinalizeRunCas, TerminalStatuses
  <1>5. CASE UNCHANGED runs
    BY <1>0, <1>5
  <1> QED
    BY <1>1, <1>2, <1>3, <1>4, <1>5
    DEF StoreNext, storeVars, CreateConversation, CloseConversationLocal, DeleteConversation,
        PromoteConversationBind, UpsertAgentSessionDiscover,
        BeginLoadReplay, CommitLoadReplay, RollbackLoadReplay

\* A supervisor is only ever created for a run that has a row.
LEMMA SupervisedStep ==
  ASSUME LeaseInv, Next
  PROVE  SupervisedRunsExist'
  <1> DEFINE M == {"marked", "claim", "rollback", "spawn"}
             Entered(u) == task'[u].pc \in M => task[u].pc \in M /\ task'[u].target = task[u].target
             Quiet == /\ \A u \in Tasks : Entered(u)
                      /\ \A r \in Runs : sup'[r].pc # "none" => sup[r].pc # "none"
  <1> USE DEF At, Tasks
  <1>0. /\ task \in [Tasks -> Requests] /\ SupervisedRunsExist /\ RequestsPlaced
        /\ sup \in [Runs -> [pc : {"none", "sleeping", "expire", "expired", "settle", "done"}, gen : Nat]]
    BY DEF LeaseInv, HubTypeOK
  <1>1. \A r \in Runs : runs[r].status # "absent" => runs'[r].status # "absent"
    BY RunsStay, StoreSteps
  <1>2. ASSUME Quiet PROVE SupervisedRunsExist'
    BY <1>0, <1>1, <1>2 DEF SupervisedRunsExist, RequestsPlaced
  <1>3. ASSUME NEW t \in Tasks, UNCHANGED sup, NEW pc, NEW gen, NEW end,
               Advance(t, pc, gen, end), pc \in M => task[t].pc \in M
        PROVE  Quiet
    BY <1>0, <1>3 DEF Advance, Request
  <1>4. ASSUME NEW t \in Tasks, UNCHANGED sup, NEW end \in Ends, Finish(t, end)
        PROVE  Quiet
    BY <1>0, <1>4 DEF Finish, Answered, Request, Ends
  <1>5. ASSUME NEW t \in Tasks, ClientStep(t)
        PROVE  Quiet
    <2>1. CASE ExtCheckOwner(t) \/ AbortRequest(t)
      BY <1>3, <1>4, <2>1 DEF ExtCheckOwner, AbortRequest, Goto, Leave, Ends
    <2>2. CASE \E c \in Convs : BeginCancel(t, c)
      BY <1>0, <2>2 DEF BeginCancel, Request
    <2>3. ASSUME NEW kind, NEW c, StartTask(t, kind, c, "reserve"), UNCHANGED sup
          PROVE  Quiet
      BY <1>0, <2>3 DEF StartTask, Request
    <2> QED
      BY <1>5, <2>1, <2>2, <2>3 DEF ClientStep, BeginWrite, BeginRemove, BeginBind, BeginExternal
  <1>6. ASSUME NEW t \in Tasks, HubStep(t) \/ AgentStep(t), ~CancelMark(t), ~CancelSpawn(t)
        PROVE  Quiet
    <2> HIDE DEF Quiet
    <2>1. CASE HubStep(t)
      <3>1. CASE Reserve(t) \/ Release(t)
        <4>1. task[t].end \in Ends
          BY <1>0 DEF Requests
        <4> QED
          BY <1>3, <1>4, <3>1, <4>1 DEF Reserve, Release, Goto, Ends
      <3>2. CASE SendCreateRun(t) \/ AcquireRunLease(t) \/ StorePrompt(t) \/ CompleteRun(t)
        BY <1>3, <3>2 DEF SendCreateRun, AcquireRunLease, StorePrompt, CompleteRun, Goto, Leave
      <3>3. CASE CancelReadRuntime(t) \/ CancelClaim(t) \/ CancelRollback(t)
        BY <1>3, <1>4, <3>3 DEF CancelReadRuntime, CancelClaim, CancelRollback, Goto, Ends
      <3>4. CASE CloseRun(t) \/ CloseLocal(t) \/ DeleteLocal(t)
        BY <1>3, <3>4 DEF CloseRun, CloseLocal, DeleteLocal, Goto, Leave
      <3>5. CASE ExtCreateRun(t) \/ ExtFinalize(t)
        BY <1>3, <3>5 DEF ExtCreateRun, ExtFinalize, Goto, Leave
      <3> QED
        BY <1>6, <2>1, <3>1, <3>2, <3>3, <3>4, <3>5 DEF HubStep
    <2>2. CASE AgentStep(t)
      BY <1>3, <2>2
      DEF AgentStep, StartFails, UseLiveSession, StartRefresh, ReloadSession, EnqueueRefresh,
          RefreshOk, RefreshFails, OrphanOk, WorkerFinalize,
          EnqueueRemove, DeleteLocally, RemoveAgreed, ReplyEnds, AfterLive, Goto, Leave
    <2> QED
      BY <1>6, <2>1, <2>2
  <1>7. ASSUME NEW t \in Tasks, CancelMark(t)
        PROVE  SupervisedRunsExist'
    <2>1. CASE Finish(t, "done")
      BY <1>2, <1>4, <1>7, <2>1 DEF CancelMark, Ends
    <2>2. CASE RequestRunCancelCas(task[t].target, task[t].conv) /\ Goto(t, "marked")
      <3>1. task[t].target \in Runs /\ runs[task[t].target].status = "running"
        BY <1>0, <1>7, <2>2
        DEF CancelMark, RequestsPlaced, RequestRunCancelCas, TransitionRunCancelState
      <3>2. /\ task'[t].target = task[t].target
            /\ \A u \in Tasks \ {t} : task'[u] = task[u]
        BY <1>0, <2>2 DEF Goto, Advance, Request
      <3> QED
        BY <1>0, <1>1, <1>7, <3>1, <3>2 DEF CancelMark, SupervisedRunsExist, RequestsPlaced
    <2> QED
      BY <1>7, <2>1, <2>2 DEF CancelMark
  <1>8. ASSUME NEW t \in Tasks, CancelSpawn(t)
        PROVE  SupervisedRunsExist'
    <2>1. task[t].target \in Runs /\ runs[task[t].target].status # "absent"
      BY <1>0, <1>8 DEF CancelSpawn, SupervisedRunsExist, RequestsPlaced
    <2>2. \A u \in Tasks : Entered(u)
      BY <1>0, <1>8 DEF CancelSpawn, Finish, Answered, Request
    <2>3. \A r \in Runs : sup'[r].pc # "none" => sup[r].pc # "none" \/ r = task[t].target
      BY <1>0, <1>8 DEF CancelSpawn, SupGoto
    <2> QED
      BY <1>0, <1>1, <2>1, <2>2, <2>3 DEF SupervisedRunsExist, RequestsPlaced
  <1>9. ASSUME NEW r \in Tasks, SupervisorStep(r)
        PROVE  Quiet
    BY <1>0, <1>9 DEF SupervisorStep, SupervisorCheck, SupervisorExpire, SupervisorReadRuntime,
                      SupervisorSettle, SupGoto
  <1>10. CASE CrashRestart
    BY <1>0, <1>2, <1>10 DEF CrashRestart, NoSup, Answered, Request, Ends
  <1>11. CASE UNCHANGED <<task, sup>>
    BY <1>2, <1>11
  <1> HIDE DEF Quiet
  <1> QED
    BY <1>2, <1>5, <1>6, <1>7, <1>8, <1>9, <1>10, <1>11 DEF Next, Discover, ConnectionLost

\* Every step keeps the invariant.
LEMMA LeaseInductive == LeaseInv /\ [Next]_vars => LeaseInv'
  <1> SUFFICES ASSUME LeaseInv, [Next]_vars PROVE LeaseInv'
    OBVIOUS
  <1>1. StoreInv' /\ RunsPlaced'
    BY StoreSteps, StoreInductive, RunsStay DEF LeaseInv
  <1>2. CASE Next
    <2>1. LeasePart'
      <3>1. CASE UNCHANGED <<ops, task>>
        BY <3>1 DEF LeaseInv, HubTypeOK, LeasePart, RequestsPlaced, LeaseHeld, SlotsOwned,
                    OnePromptSlot
      <3> QED
        BY <1>2, <3>1, ClientLease, RequestLease, CrashLease
        DEF Next, Discover, ConnectionLost, opVars
    <2> QED
      BY <1>1, <1>2, <2>1, RestTypes, SupervisedStep
      DEF LeaseInv, HubTypeOK, LeasePart, RestTypeOK
  <1>3. CASE UNCHANGED vars
    BY <1>1, <1>3 DEF vars, LeaseInv, HubTypeOK, RequestsPlaced, LeaseHeld, SlotsOwned,
                      OnePromptSlot, SupervisedRunsExist
  <1> QED
    BY <1>2, <1>3

\* Whatever requests, workers, cancellations, supervisors, clients and crashes
\* do, in any order, with or without store errors: the state is well typed, and
\* whoever works on a conversation is the one the operations table names.
THEOREM LeasesExclude == Spec => [](TypeOK /\ LeaseExclusive)
  <1>1. LeaseInv => TypeOK /\ LeaseExclusive
    BY DEF LeaseInv, StoreInv, TypeOK, LeaseHeld, LeaseExclusive
  <1> QED
    BY LeaseInit, LeaseInductive, <1>1, PTL DEF Spec

\* For every assignment of conversations to agents, an agent never has two
\* prompt turns in flight.
THEOREM TurnsExclude == Spec => []OneTurnPerAgent
  <1>1. LeaseInv => OneTurnPerAgent
    <2> SUFFICES ASSUME LeaseInv, NEW t \in Tasks, NEW u \in Tasks,
                        task[t].kind = "send", task[t].pc \in LeasePcs,
                        task[u].kind = "send", task[u].pc \in LeasePcs,
                        AgentOf[task[t].conv] = AgentOf[task[u].conv]
                 PROVE  t = u
      BY DEF OneTurnPerAgent
    <2>1. task[t].conv \in Convs /\ task[u].conv \in Convs
      BY DEF LeaseInv, RequestsPlaced, LeasePcs, Ends
    <2>2. ops[task[t].conv].kind = "prompt" /\ ops[task[u].conv].kind = "prompt"
          /\ ops[task[t].conv].tok = t /\ ops[task[u].conv].tok = u
      BY DEF LeaseInv, LeaseHeld, OpKind
    <2>3. task[t].conv = task[u].conv
      BY <2>1, <2>2 DEF LeaseInv, OnePromptSlot
    <2> QED
      BY <2>2, <2>3
  <1> QED
    BY LeaseInit, LeaseInductive, <1>1, PTL DEF Spec

\* The tables change only by the store's transactions, so the promises of the
\* store hold in the hub.
LEMMA HubUsesStore == Spec => StoreSpec
  <1>1. LeaseInv /\ [Next]_vars => [StoreNext]_storeVars
    BY StoreSteps
  <1> QED
    BY LeaseInit, LeaseInductive, InitIsStoreInit, <1>1, PTL DEF Spec, StoreSpec

\* Hence what the store promises any caller holds in the running hub.
THEOREM HubStoreSafety ==
  Spec => [](OneActiveRun /\ BusyHasRun /\ DeletedIsQuiet)
  BY HubUsesStore, StoreSafety, PTL

\* And no hub operation, late agent answer or supervisor rewrites an ending.
THEOREM HubEndingsAreFinal == Spec => TerminalRunsFrozen
  BY HubUsesStore, EndingsAreFinal, PTL

-----------------------------------------------------------------------------
(***************************************************************************)
(* What the hub holds in memory and what the store holds agree: updates go *)
(* to the turn that has the lease, everything in flight has an owner, the  *)
(* busy columns and cancel marks are those of the operations in progress,  *)
(* and a cancellation leaves nothing half done.  Each invariant is shown   *)
(* from lemmas that say how one variable (a run row, a slot of the table,  *)
(* a cache entry, a request) can change in one step.                       *)
(***************************************************************************)

\* The table names a request that works on the conversation, or nobody.
SlotHeld ==
  \A c \in Convs : ops[c].tok # NoTask =>
    task[ops[c].tok].pc \in LeasePcs /\ task[ops[c].tok].conv = c

\* Updates are attributed to the request that runs the turn.
CurrentRunHeld ==
  \A c \in Convs : currentRun[c] # NoTask =>
    task[currentRun[c]].conv = c /\ task[currentRun[c]].pc \in {"message", "worker", "completing"}

\* A run in flight belongs to the request of its id, which has not finalised it.
FlightPcs == {"lease", "message", "worker", "ext_active", "ext_cas"}
RunInFlight ==
  \A r \in Runs : runs[r].status \in ActiveStatuses =>
    runs[r].conv = task[r].conv /\ task[r].pc \in FlightPcs

\* Only a run a client owns is at the steps of one.
ExternalPlaced ==
  \A t \in Tasks : task[t].pc \in {"ext_create", "ext_active", "ext_cas"} => task[t].kind = "external"

\* Conversation rows are soft-deleted: none disappears.
AllExist == \A c \in Convs : Exists(c)

\* Where cancel holds the operations mutex across several steps.
CriticalPcs == {"marked", "claim", "rollback"}

\* cancel_requested is set on prompts whose run is marked or has ended.
FlagOk ==
  \A c \in Convs : ops[c].cancel =>
    ops[c].kind = "prompt" /\ runs[ops[c].tok].status \in TerminalStatuses \cup {"cancelling"}

\* A run marked and not flagged is in the hands of the holder of the mutex.
MarkOk ==
  \A c \in Convs :
    ops[c].kind = "prompt" /\ runs[ops[c].tok].status = "cancelling" /\ ~ops[c].cancel =>
      opsLock # NoTask /\ task[opsLock].conv = c

\* A turn knows the newest generation of its session's cache entry.
GenBounds ==
  \A t \in Tasks : task[t].pc \in {"message", "worker", "completing"} =>
    runtime[task[t].conv].gen <= task[t].gen

\* The runtime state Cancelling has a turn that will take it back.
CancellingHeld ==
  \A c \in Convs : runtime[c].state = "cancelling" =>
    ops[c].tok # NoTask /\ task[ops[c].tok].pc \in {"lease", "message", "worker", "completing"}

\* Who owns what: the part of the invariant that needs no reliable store.
OwnPart == SlotHeld /\ CurrentRunHeld /\ ExternalPlaced
OwnInv  == LeaseInv /\ OwnPart

\* Where a prompt turn is under way, and the steps of an external run.
TurnPcs == {"message", "worker", "completing"}
ExtPcs  == {"ext_create", "ext_active", "ext_cas"}

\* The fields of a request after Advance.
LEMMA AdvanceFacts ==
  ASSUME task \in [Tasks -> Requests], NEW t \in Tasks, NEW pc, NEW gen, NEW end, Advance(t, pc, gen, end)
  PROVE  /\ task'[t].pc = pc /\ task'[t].gen = gen /\ task'[t].end = end
         /\ task'[t].conv = task[t].conv /\ task'[t].kind = task[t].kind
         /\ task'[t].target = task[t].target
         /\ \A u \in Tasks \ {t} : task'[u] = task[u]
  BY DEF Advance, Request

\* An answered request is at an end; the others stay where they are.
LEMMA FinishFacts ==
  ASSUME task \in [Tasks -> Requests], NEW t \in Tasks, NEW end \in Ends, Finish(t, end)
  PROVE  /\ task'[t].pc \in Ends
         /\ \A u \in Tasks \ {t} : task'[u] = task[u]
  BY DEF Finish, Answered, Request

\* What holds of the owner of a lease while it is one.
LEMMA OwnerFacts ==
  ASSUME LeaseInv, NEW t \in Tasks
  PROVE  /\ task \in [Tasks -> Requests]
         /\ task[t].end \in Ends /\ task[t].gen \in Nat
         /\ task[t].pc \notin Ends \cup {"idle"} => task[t].conv \in Convs
         /\ task[t].pc \in LeasePcs => ops[task[t].conv].tok = t
  BY DEF LeaseInv, HubTypeOK, RequestsPlaced, LeaseHeld, Requests

\* The owner of a lease moves within its operation: the slots, the attribution of
\* updates and the steps of external runs stay in order.
LEMMA OwnerFrame ==
  ASSUME OwnInv, NEW t \in Tasks, task[t].pc \in LeasePcs, NEW pc \in LeasePcs, NEW gen, NEW end,
         Advance(t, pc, gen, end), UNCHANGED ops,
         \A c \in Convs : currentRun'[c] \in {currentRun[c], NoTask},
         task[t].pc \in TurnPcs => pc \in TurnPcs \/ currentRun'[task[t].conv] = NoTask,
         pc \in ExtPcs => task[t].pc \in ExtPcs
  PROVE  OwnPart'
  <1>1. task \in [Tasks -> Requests] /\ task[t].conv \in Convs /\ OwnPart
        /\ currentRun \in [Convs -> Tasks \cup {NoTask}] /\ ops \in [Convs -> Operations]
    BY OwnerFacts DEF OwnInv, LeasePcs, Ends, LeaseInv, HubTypeOK, Tasks
  <1>2. /\ task'[t].pc = pc /\ task'[t].conv = task[t].conv /\ task'[t].kind = task[t].kind
        /\ \A u \in Tasks \ {t} : task'[u] = task[u]
    BY <1>1, AdvanceFacts
  <1>3. \A u \in Tasks : /\ task'[u].conv = task[u].conv
                         /\ task[u].pc \in LeasePcs => task'[u].pc \in LeasePcs
    BY <1>1, <1>2
  <1>4. SlotHeld'
    BY <1>1, <1>3 DEF OwnPart, SlotHeld, Operations
  <1>5. CurrentRunHeld'
    BY <1>1, <1>2 DEF OwnPart, CurrentRunHeld, TurnPcs
  <1>6. ExternalPlaced'
    BY <1>1, <1>2 DEF OwnPart, ExternalPlaced, ExtPcs
  <1> QED
    BY <1>4, <1>5, <1>6 DEF OwnPart

\* A request that owns no lease, before and after, disturbs nothing.
LEMMA VisitorFrame ==
  ASSUME OwnInv, NEW t \in Tasks, task[t].pc \notin LeasePcs, task'[t].pc \notin LeasePcs,
         \A u \in Tasks \ {t} : task'[u] = task[u],
         \A c \in Convs : ops'[c].tok = ops[c].tok,
         UNCHANGED currentRun
  PROVE  OwnPart'
  <1>1. OwnPart /\ currentRun \in [Convs -> Tasks \cup {NoTask}] /\ ops \in [Convs -> Operations]
    BY DEF OwnInv, LeaseInv, HubTypeOK, Tasks
  <1>2. SlotHeld'
    BY <1>1 DEF OwnPart, SlotHeld, Operations
  <1>3. CurrentRunHeld'
    BY <1>1 DEF OwnPart, CurrentRunHeld, LeasePcs
  <1>4. ExternalPlaced'
    BY <1>1 DEF OwnPart, ExternalPlaced, LeasePcs
  <1> QED
    BY <1>2, <1>3, <1>4 DEF OwnPart

\* The steps of the hub keep slots, attribution and external runs in order.
LEMMA OwnHub ==
  ASSUME OwnInv, NEW t \in Tasks, HubStep(t)
  PROVE  OwnPart'
  <1> USE DEF At, opVars, ctxVars
  <1>0. LeaseInv /\ OwnPart /\ task[t].end \in Ends /\ task \in [Tasks -> Requests]
        /\ currentRun \in [Convs -> Tasks \cup {NoTask}] /\ ops \in [Convs -> Operations]
    BY OwnerFacts DEF OwnInv, LeaseInv, HubTypeOK, Tasks
  <1>a. ASSUME task[t].pc \in LeasePcs \ TurnPcs, UNCHANGED <<ops, currentRun>>,
               \/ \E pc \in LeasePcs : Goto(t, pc) /\ (pc \in ExtPcs => task[t].pc \in ExtPcs)
               \/ \E end \in Ends : Leave(t, end)
        PROVE  OwnPart'
    BY <1>a, OwnerFrame DEF Goto, Leave, LeasePcs, ExtPcs
  <1>b. ASSUME task[t].pc \notin LeasePcs, UNCHANGED <<ops, currentRun>>,
               \/ \E pc, gen, end : pc \notin LeasePcs /\ Advance(t, pc, gen, end)
               \/ \E end \in Ends : Finish(t, end)
        PROVE  OwnPart'
    <2>1. task'[t].pc \notin LeasePcs /\ \A u \in Tasks \ {t} : task'[u] = task[u]
      BY <1>0, <1>b, AdvanceFacts, FinishFacts DEF LeasePcs, Ends
    <2> QED
      BY <1>b, <2>1, VisitorFrame
  <1>1. CASE Reserve(t)
    <2>1. CASE ~Reservable(t)
      BY <1>1, <1>b, <2>1 DEF Reserve, LeasePcs, Ends
    <2>2. CASE Reservable(t)
      <3> DEFINE c  == task[t].conv
                 pc == IF task[t].kind = "external" THEN "ext_create" ELSE "starting"
      <3>1. c \in Convs /\ ops[c] = NoOp
        BY <1>1, <2>2, OwnerFacts DEF OwnInv, Reserve, Reservable, Ends
      <3>2. /\ task'[t].pc = pc /\ task'[t].conv = c /\ task'[t].kind = task[t].kind
            /\ \A u \in Tasks \ {t} : task'[u] = task[u]
        BY <1>0, <1>1, <2>2, AdvanceFacts DEF Reserve, Goto
      <3>3. ops'[c].tok = t /\ \A d \in Convs \ {c} : ops'[d] = ops[d]
        BY <1>0, <1>1, <2>2, <3>1 DEF Reserve
      <3>4. task[t].pc = "reserve" /\ UNCHANGED currentRun /\ pc \in LeasePcs
        BY <1>1 DEF Reserve, LeasePcs
      <3>5. ExternalPlaced'
        BY <1>0, <3>2 DEF OwnPart, ExternalPlaced
      <3> HIDE DEF c, pc
      <3>6. SlotHeld'
        BY <1>0, <3>1, <3>2, <3>3, <3>4, HubAssumption
        DEF OwnPart, SlotHeld, Operations, LeasePcs, Tasks
      <3>7. CurrentRunHeld'
        BY <1>0, <3>2, <3>4 DEF OwnPart, CurrentRunHeld
      <3> QED
        BY <3>5, <3>6, <3>7 DEF OwnPart
    <2> QED
      BY <2>1, <2>2
  <1>2. CASE Release(t)
    <2> DEFINE c == task[t].conv
    <2>1. c \in Convs /\ ops[c].tok = t /\ UNCHANGED currentRun /\ task[t].pc = "release"
      BY <1>2, OwnerFacts DEF OwnInv, Release, LeasePcs, Ends
    <2>2. task'[t].pc \in Ends /\ \A u \in Tasks \ {t} : task'[u] = task[u]
      BY <1>0, <1>2, FinishFacts DEF Release
    <2>3. ops'[c] = NoOp /\ \A d \in Convs \ {c} : ops'[d] = ops[d]
      BY <1>0, <1>2, <2>1 DEF Release
    <2> HIDE DEF c
    <2>4. SlotHeld'
      <3>1. \A d \in Convs : ops[d].tok = t => d = c
        BY <1>0, <2>1, HubAssumption DEF OwnPart, SlotHeld, c, Tasks
      <3> QED
        BY <1>0, <2>1, <2>2, <2>3, <3>1 DEF OwnPart, SlotHeld, NoOp, Operations
    <2>5. CurrentRunHeld' /\ ExternalPlaced'
      BY <1>0, <2>1, <2>2 DEF OwnPart, CurrentRunHeld, ExternalPlaced, Ends
    <2> QED
      BY <2>4, <2>5 DEF OwnPart
  <1>3. CASE SendCreateRun(t)
    BY <1>3, <1>a DEF SendCreateRun, LeasePcs, TurnPcs, ExtPcs, Ends
  <1>4. CASE AcquireRunLease(t)
    <2> DEFINE c == task[t].conv
    <2>1. c \in Convs /\ task[t].pc = "lease" /\ UNCHANGED ops
      BY <1>4, OwnerFacts DEF OwnInv, AcquireRunLease, Ends
    <2>2. /\ task'[t].pc = "message" /\ task'[t].conv = c
          /\ \A u \in Tasks \ {t} : task'[u] = task[u]
      BY <1>0, <1>4, AdvanceFacts DEF AcquireRunLease
    <2>3. currentRun'[c] = t /\ \A d \in Convs \ {c} : currentRun'[d] = currentRun[d]
      BY <1>0, <1>4, <2>1 DEF AcquireRunLease
    <2>4. SlotHeld'
      BY <1>0, <2>1, <2>2 DEF OwnPart, SlotHeld, LeasePcs, Operations
    <2>5. ExternalPlaced'
      BY <1>0, <2>2 DEF OwnPart, ExternalPlaced
    <2> HIDE DEF c
    <2>6. CurrentRunHeld'
      BY <1>0, <2>1, <2>2, <2>3 DEF OwnPart, CurrentRunHeld
    <2> QED
      BY <2>4, <2>5, <2>6 DEF OwnPart
  <1>5. CASE StorePrompt(t)
    <2>1. task[t].conv \in Convs /\ task[t].pc = "message" /\ UNCHANGED ops
      BY <1>5, OwnerFacts DEF OwnInv, StorePrompt, Ends
    <2>2. CASE Goto(t, "worker") /\ UNCHANGED currentRun
      BY <2>1, <2>2, OwnerFrame DEF Goto, LeasePcs, TurnPcs, ExtPcs
    <2>3. CASE /\ Advance(t, "completing", task[t].gen, "failed")
               /\ currentRun' = [currentRun EXCEPT ![task[t].conv] = NoTask]
      <3>1. \A c \in Convs : currentRun'[c] \in {currentRun[c], NoTask}
        BY <1>0, <2>3
      <3> QED
        BY <2>1, <2>3, <3>1, OwnerFrame DEF LeasePcs, TurnPcs, ExtPcs
    <2> QED
      BY <1>5, <2>2, <2>3 DEF StorePrompt
  <1>6. CASE CompleteRun(t)
    <2>1. /\ task[t].conv \in Convs /\ task[t].pc = "completing" /\ UNCHANGED ops
          /\ currentRun' = [currentRun EXCEPT ![task[t].conv] = NoTask]
          /\ Advance(t, "release", task[t].gen, task[t].end)
      BY <1>6, OwnerFacts DEF OwnInv, CompleteRun, Leave, Ends
    <2>2. /\ currentRun'[task[t].conv] = NoTask
          /\ \A c \in Convs : currentRun'[c] \in {currentRun[c], NoTask}
      BY <1>0, <2>1
    <2> QED
      BY <2>1, <2>2, OwnerFrame DEF LeasePcs, TurnPcs, ExtPcs
  <1>7. CASE CancelMark(t) \/ CancelReadRuntime(t) \/ CancelRollback(t) \/ CancelSpawn(t)
    BY <1>7, <1>b DEF CancelMark, CancelReadRuntime, CancelRollback, CancelSpawn, Goto, LeasePcs, Ends
  <1>8. CASE CancelClaim(t)
    <2> DEFINE c == task[t].conv
               op == [ops[c] EXCEPT !.cancel = TRUE]
    <2>1. CASE ~CanTransition(c, "live", task[t].gen)
      BY <1>8, <1>b, <2>1 DEF CancelClaim, Goto, LeasePcs
    <2>2. CASE CanTransition(c, "live", task[t].gen)
      <3>1. c \in Convs /\ task[t].pc = "claim" /\ UNCHANGED currentRun
        BY <1>8, OwnerFacts DEF OwnInv, CancelClaim, Ends
      <3>2. task'[t].pc = "spawn" /\ \A u \in Tasks \ {t} : task'[u] = task[u]
        BY <1>0, <1>8, <2>2, AdvanceFacts DEF CancelClaim, Goto
      <3>3. ops' = [ops EXCEPT ![c] = op]
        BY <1>8, <2>2 DEF CancelClaim
      <3>4. \A d \in Convs : ops'[d].tok = ops[d].tok
        BY <1>0, <3>1, <3>3 DEF Operations
      <3> QED
        BY <3>1, <3>2, <3>4, VisitorFrame DEF LeasePcs
    <2> QED
      BY <2>1, <2>2
  <1>9. CASE CloseRun(t) \/ CloseLocal(t) \/ DeleteLocal(t)
    BY <1>9, <1>a DEF CloseRun, CloseLocal, DeleteLocal, LeasePcs, TurnPcs, ExtPcs, Ends
  <1>10. CASE ExtCreateRun(t) \/ ExtFinalize(t)
    BY <1>10, <1>a DEF ExtCreateRun, ExtFinalize, LeasePcs, TurnPcs, ExtPcs, Ends
  <1> QED
    BY <1>1, <1>2, <1>3, <1>4, <1>5, <1>6, <1>7, <1>8, <1>9, <1>10 DEF HubStep

\* So do the steps that wait for an agent,
LEMMA OwnAgent ==
  ASSUME OwnInv, NEW t \in Tasks, AgentStep(t)
  PROVE  OwnPart'
  <1> USE DEF At, opVars, ctxVars, LeasePcs, TurnPcs, ExtPcs, Ends
  <1>0. LeaseInv /\ currentRun \in [Convs -> Tasks \cup {NoTask}]
    BY DEF OwnInv, LeaseInv, HubTypeOK, Tasks
  <1>1. ASSUME task[t].pc \in LeasePcs \ TurnPcs, UNCHANGED ops,
               \/ \E pc \in LeasePcs \ ExtPcs : Goto(t, pc)
               \/ \E end \in Ends : Leave(t, end),
               \/ UNCHANGED currentRun
               \/ currentRun' = [currentRun EXCEPT ![task[t].conv] = NoTask]
        PROVE  OwnPart'
    <2>1. \A c \in Convs : currentRun'[c] \in {currentRun[c], NoTask}
      BY <1>0, <1>1
    <2> QED
      BY <1>1, <2>1, OwnerFrame DEF Goto, Leave
  <1>2. CASE WorkerFinalize(t)
    BY <1>2, OwnerFrame DEF WorkerFinalize, Goto
  <1>3. CASE StartFails(t) \/ UseLiveSession(t) \/ StartRefresh(t) \/ ReloadSession(t)
    BY <1>1, <1>3 DEF StartFails, UseLiveSession, StartRefresh, ReloadSession, EnqueueRefresh, AfterLive
  <1>4. CASE RefreshOk(t) \/ RefreshFails(t) \/ OrphanOk(t)
    BY <1>1, <1>4 DEF RefreshOk, RefreshFails, OrphanOk, AfterLive, Unbind
  <1>5. CASE EnqueueRemove(t) \/ DeleteLocally(t) \/ RemoveAgreed(t) \/ ReplyEnds(t)
    BY <1>1, <1>5 DEF EnqueueRemove, DeleteLocally, RemoveAgreed, ReplyEnds, Unbind
  <1> QED
    BY <1>2, <1>3, <1>4, <1>5 DEF AgentStep

\* and the requests of clients, their aborts included.
LEMMA OwnClient ==
  ASSUME OwnInv, NEW t \in Tasks, ClientStep(t)
  PROVE  OwnPart'
  <1> USE DEF At, opVars, ctxVars, LeasePcs, TurnPcs, ExtPcs, Ends
  <1>0. LeaseInv /\ task \in [Tasks -> Requests]
    BY OwnerFacts DEF OwnInv
  <1>1. CASE ExtCheckOwner(t)
    BY <1>1, OwnerFrame DEF ExtCheckOwner, Goto
  <1>2. CASE AbortRequest(t)
    <2>1. CASE At(t, "spawn") /\ Finish(t, "gone")
      BY <1>0, <1>2, <2>1, FinishFacts, VisitorFrame DEF AbortRequest
    <2>2. CASE (At(t, "refresh") \/ At(t, "resume")) /\ Goto(t, "orphan")
      BY <1>2, <2>2, OwnerFrame DEF AbortRequest, Goto
    <2>3. CASE (At(t, "starting") \/ At(t, "reload") \/ At(t, "create")) /\ Leave(t, "gone")
      BY <1>2, <2>3, OwnerFrame DEF AbortRequest, Leave
    <2> QED
      BY <1>2, <2>1, <2>2, <2>3 DEF AbortRequest
  <1>3. ASSUME NEW kind, NEW c \in Convs, StartTask(t, kind, c, "reserve"), UNCHANGED <<ops, currentRun>>
        PROVE  OwnPart'
    <2>1. /\ task[t].pc = "idle" /\ task'[t].pc = "reserve"
          /\ \A u \in Tasks \ {t} : task'[u] = task[u]
      BY <1>0, <1>3 DEF StartTask, Request
    <2> QED
      BY <1>3, <2>1, VisitorFrame
  <1>4. ASSUME NEW c \in Convs, BeginCancel(t, c)
        PROVE  OwnPart'
    <2>1. /\ task[t].pc = "idle" /\ task'[t].pc = "mark" /\ UNCHANGED <<ops, currentRun>>
          /\ \A u \in Tasks \ {t} : task'[u] = task[u]
      BY <1>0, <1>4 DEF BeginCancel, Request
    <2> QED
      BY <2>1, VisitorFrame
  <1> QED
    BY <1>1, <1>2, <1>3, <1>4 DEF ClientStep, BeginWrite, BeginRemove, BeginBind, BeginExternal

\* The ownership invariant is inductive.
LEMMA OwnInductive == OwnInv /\ [Next]_vars => OwnInv'
  <1> SUFFICES ASSUME OwnInv, [Next]_vars PROVE OwnPart'
    BY LeaseInductive DEF OwnInv
  <1> USE DEF OwnPart, SlotHeld, CurrentRunHeld, ExternalPlaced
  <1>0. OwnPart /\ currentRun \in [Convs -> Tasks \cup {NoTask}] /\ ops \in [Convs -> Operations]
    BY DEF OwnInv, LeaseInv, HubTypeOK, Tasks
  <1>1. CASE /\ UNCHANGED <<ops, task>>
             /\ \A c \in Convs : currentRun'[c] \in {currentRun[c], NoTask}
    BY <1>0, <1>1
  <1>2. ASSUME NEW a \in Agents, ConnectionLost(a)
        PROVE  OwnPart'
    BY <1>0, <1>1, <1>2 DEF ConnectionLost, opVars
  <1>3. CASE CrashRestart
    <2>1. /\ \A c \in Convs : ops'[c].tok = NoTask /\ currentRun'[c] = NoTask
          /\ \A t \in Tasks : task'[t].pc \in Ends \cup {"idle"}
      BY <1>0, <1>3 DEF CrashRestart, NoOp, Answered, Request, Ends
    <2> QED
      BY <2>1 DEF Ends
  <1>4. ASSUME NEW r \in Tasks, SupervisorStep(r)
        PROVE  OwnPart'
    BY <1>1, <1>4 DEF SupervisorStep, SupervisorCheck, SupervisorExpire, SupervisorReadRuntime,
                      SupervisorSettle, opVars, ctxVars
  <1>5. CASE UNCHANGED vars \/ \E c \in Convs, m \in BOOLEAN : Discover(c, m)
    BY <1>1, <1>5 DEF vars, Discover, opVars, ctxVars
  <1> HIDE DEF OwnPart
  <1> QED
    BY <1>2, <1>3, <1>4, <1>5, OwnHub, OwnAgent, OwnClient DEF Next

\* Agent updates are attributed to the run of the operation in progress, whatever
\* fails: set_current_run and clear_current_run are called by the turn that has
\* the lease (hub/prompt.rs), or the binding is dropped.
THEOREM UpdatesAttributed == Spec => []CurrentRunOwned
  <1>1. Init => OwnPart
    BY HubAssumption DEF Init, OwnPart, SlotHeld, CurrentRunHeld, ExternalPlaced, NoOp, Idle, Request
  <1>2. OwnInv => CurrentRunOwned
    <2> SUFFICES ASSUME OwnInv, NEW c \in Convs, currentRun[c] # NoTask
                 PROVE  ops[c].tok = currentRun[c]
      BY DEF CurrentRunOwned
    <2>1. currentRun[c] \in Tasks /\ task[currentRun[c]].conv = c
          /\ task[currentRun[c]].pc \in LeasePcs
      BY DEF OwnInv, LeaseInv, HubTypeOK, OwnPart, CurrentRunHeld, Tasks, LeasePcs
    <2> QED
      BY <2>1, OwnerFacts DEF OwnInv
  <1> QED
    BY LeaseInit, OwnInductive, <1>1, <1>2, PTL DEF Spec, OwnInv

-----------------------------------------------------------------------------
(* Runs. *)
USE DEF RunRow, ActiveStatuses, TerminalStatuses

\* How a run row changes in one step: its own request inserts it, somebody ends
\* it, a cancel request marks it or takes the mark back, or the client that
\* owns it marks it.
RunMoves(r) ==
  \/ /\ runs[r].status = "absent" /\ runs'[r].status = "running" /\ runs'[r].conv = task[r].conv
     /\ SendCreateRun(r) \/ ExtCreateRun(r)
  \/ /\ runs'[r].conv = runs[r].conv
     /\ \/ runs[r].status \in ActiveStatuses /\ runs'[r].status \in TerminalStatuses
        \/ /\ runs[r].status = "running" /\ runs'[r].status = "cancelling"
           /\ \E t \in Tasks : CancelMark(t) /\ task[t].target = r /\ opsLock' = t
                               /\ task[t].conv = runs[r].conv /\ SnapshotHolds(t)
        \/ /\ runs[r].status = "cancelling" /\ runs'[r].status = "running"
           /\ \E t \in Tasks : CancelRollback(t) /\ task[t].target = r
        \/ /\ runs[r].status \in ActiveStatuses /\ runs'[r].status = "cancelling"
           /\ ExtFinalize(r)

\* finalize_run_cas changes the row of one active run.
LEMMA FinalizeMoves ==
  ASSUME runs \in [Runs -> RunRows], NEW q \in Runs, NEW c, NEW s, NEW p,
         FinalizeRunCas(q, c, s, p), NEW r \in Runs, runs'[r] # runs[r]
  PROVE  /\ r = q /\ runs[r].status \in ActiveStatuses /\ runs[r].conv = c
         /\ runs'[r].status = s /\ runs'[r].conv = runs[r].conv
  BY DEF FinalizeRunCas, CasHits

\* Every change of a run row is one of RunMoves.
LEMMA RunRowMoves ==
  ASSUME LeaseInv, [Next]_vars, NEW r \in Runs
  PROVE  runs'[r] = runs[r] \/ RunMoves(r)
  <1> SUFFICES ASSUME runs'[r] # runs[r] PROVE RunMoves(r)
    OBVIOUS
  <1> USE DEF At, Tasks
  <1>0. runs \in [Runs -> RunRows]
    BY DEF LeaseInv, StoreInv, StoreTypeOK
  <1>a. ~UNCHANGED storeVars /\ ~UNCHANGED runs
    BY DEF storeVars
  <1>1. ASSUME NEW t \in Tasks, ClientStep(t)
        PROVE  FALSE
    BY <1>a, <1>1 DEF ClientStep, BeginWrite, BeginRemove, BeginBind, BeginCancel, BeginExternal,
                      ExtCheckOwner, AbortRequest, PromoteConversationBind
  <1>2. ASSUME NEW t \in Tasks, HubStep(t)
        PROVE  RunMoves(r)
    <2>1. CASE Reserve(t) \/ Release(t) \/ AcquireRunLease(t) \/ CompleteRun(t)
               \/ CancelReadRuntime(t) \/ CancelClaim(t) \/ CancelSpawn(t)
               \/ CloseLocal(t) \/ DeleteLocal(t)
      BY <1>a, <2>1 DEF Reserve, Release, AcquireRunLease, CompleteRun, CancelReadRuntime,
         CancelClaim, CancelSpawn, CloseLocal, DeleteLocal, CloseConversationLocal, DeleteConversation
    <2>2. CASE SendCreateRun(t) \/ ExtCreateRun(t)
      <3>1. CreateRun(t, task[t].conv)
        BY <1>a, <2>2 DEF SendCreateRun, ExtCreateRun
      <3>2. r = t /\ runs[t].status = "absent" /\ runs'[t].status = "running"
            /\ runs'[t].conv = task[t].conv
        BY <1>0, <3>1 DEF CreateRun
      <3> QED
        BY <2>2, <3>2 DEF RunMoves
    <2>3. CASE StorePrompt(t)
      <3>1. FinalizeRunCas(t, task[t].conv, "failed", "null")
        BY <1>a, <2>3 DEF StorePrompt, TryFinalize
      <3> QED
        BY <1>0, <3>1, FinalizeMoves DEF RunMoves
    <2>4. CASE CancelMark(t)
      <3>1. /\ RequestRunCancelCas(task[t].target, task[t].conv) /\ SnapshotHolds(t) /\ opsLock' = t
            /\ task[t].target \in Runs
        BY <1>a, <2>4 DEF CancelMark, LeaseInv, RequestsPlaced
      <3>2. /\ r = task[t].target /\ runs[r].status = "running" /\ runs'[r].status = "cancelling"
            /\ task[t].conv = runs[r].conv /\ runs'[r].conv = runs[r].conv
        BY <1>0, <3>1 DEF RequestRunCancelCas, TransitionRunCancelState
      <3> QED
        BY <2>4, <3>1, <3>2 DEF RunMoves
    <2>5. CASE CancelRollback(t)
      <3>1. RollbackRunCancelCas(task[t].target, task[t].conv) /\ task[t].target \in Runs
        BY <1>a, <2>5 DEF CancelRollback, LeaseInv, RequestsPlaced
      <3>2. /\ r = task[t].target /\ runs[r].status = "cancelling" /\ runs'[r].status = "running"
            /\ runs'[r].conv = runs[r].conv
        BY <1>0, <3>1 DEF RollbackRunCancelCas, TransitionRunCancelState
      <3> QED
        BY <2>5, <3>2 DEF RunMoves
    <2>6. CASE CloseRun(t)
      <3>1. PICK q \in Runs : FinalizeRunCas(q, task[t].conv, "failed", "closed")
        BY <1>a, <2>6 DEF CloseRun, ActiveRuns
      <3> QED
        BY <1>0, <3>1, FinalizeMoves DEF RunMoves
    <2>7. CASE ExtFinalize(t)
      <3>1. \/ \E s \in TerminalStatuses : FinalizeRunCas(t, task[t].conv, s, "agent")
            \/ FinalizeRunCas(t, task[t].conv, "cancelling", "agent")
        BY <1>a, <2>7 DEF ExtFinalize
      <3> QED
        BY <1>0, <2>7, <3>1, FinalizeMoves DEF RunMoves
    <2> QED
      BY <1>2, <2>1, <2>2, <2>3, <2>4, <2>5, <2>6, <2>7 DEF HubStep
  <1>3. ASSUME NEW t \in Tasks, AgentStep(t)
        PROVE  RunMoves(r)
    <2>1. CASE WorkerFinalize(t)
      <3>1. PICK e \in Endings : FinalizeRunCas(t, task[t].conv, e.status, e.stop)
        BY <1>a, <2>1 DEF WorkerFinalize, TryFinalize
      <3>2. e.status \in TerminalStatuses
        BY DEF Endings
      <3> QED
        BY <1>0, <3>1, <3>2, FinalizeMoves DEF RunMoves
    <2>2. CASE ~WorkerFinalize(t)
      BY <1>a, <1>3, <2>2 DEF AgentStep, StartFails, UseLiveSession, StartRefresh, ReloadSession,
         EnqueueRefresh, RefreshOk, RefreshFails, TryRollback, OrphanOk, EnqueueRemove,
         DeleteLocally, RemoveAgreed, ReplyEnds, BeginLoadReplay, CommitLoadReplay, RollbackLoadReplay
    <2> QED
      BY <2>1, <2>2
  <1>4. ASSUME NEW q \in Tasks, SupervisorStep(q)
        PROVE  RunMoves(r)
    <2>1. PICK stop : FinalizeRunCas(q, runs[q].conv, "cancelled", stop)
      BY <1>a, <1>4 DEF SupervisorStep, SupervisorCheck, SupervisorExpire, SupervisorReadRuntime,
                        SupervisorSettle
    <2> QED
      BY <1>0, <2>1, FinalizeMoves DEF RunMoves
  <1>5. CASE CrashRestart
    <2>1. runs[r].status \in ActiveStatuses /\ runs'[r].status = "failed" /\ runs'[r].conv = runs[r].conv
      BY <1>0, <1>5 DEF CrashRestart, RecoverAtStart, RecoveredRun
    <2> QED
      BY <2>1 DEF RunMoves
  <1>6. CASE \/ \E c \in Convs, m \in BOOLEAN : Discover(c, m)
             \/ \E a \in Agents : ConnectionLost(a)
             \/ UNCHANGED vars
    BY <1>a, <1>6 DEF Discover, UpsertAgentSessionDiscover, ConnectionLost, vars
  <1> QED
    BY <1>1, <1>2, <1>3, <1>4, <1>5, <1>6 DEF Next

\* A step of a request moves no other request.
LEMMA OneMoves ==
  ASSUME LeaseInv, NEW t \in Tasks, ClientStep(t) \/ HubStep(t) \/ AgentStep(t)
  PROVE  \A u \in Tasks \ {t} : task'[u] = task[u]
  <1> DEFINE Moved == \A u \in Tasks \ {t} : task'[u] = task[u]
  <1>0. task \in [Tasks -> Requests] /\ task[t].end \in Ends
    BY OwnerFacts
  <1>1. ASSUME NEW pc, NEW gen, NEW end, Advance(t, pc, gen, end) PROVE Moved
    BY <1>0, <1>1, AdvanceFacts
  <1>2. ASSUME NEW end, Finish(t, end) PROVE Moved
    BY <1>0, <1>2 DEF Finish
  <1>3. ASSUME NEW kind, NEW c, NEW pc, StartTask(t, kind, c, pc) PROVE Moved
    BY <1>0, <1>3 DEF StartTask
  <1>4. ASSUME NEW c, BeginCancel(t, c) PROVE Moved
    BY <1>0, <1>4 DEF BeginCancel
  <1> USE DEF Goto, Leave
  <1>5. CASE ClientStep(t)
    BY <1>1, <1>2, <1>3, <1>4, <1>5
    DEF ClientStep, BeginWrite, BeginRemove, BeginBind, BeginExternal, ExtCheckOwner, AbortRequest
  <1>6. CASE HubStep(t)
    <2>1. CASE Reserve(t) \/ Release(t) \/ SendCreateRun(t) \/ AcquireRunLease(t)
               \/ StorePrompt(t) \/ CompleteRun(t)
      BY <1>1, <1>2, <2>1 DEF Reserve, Release, SendCreateRun, AcquireRunLease, StorePrompt, CompleteRun
    <2>2. CASE \/ CancelMark(t) \/ CancelReadRuntime(t) \/ CancelClaim(t) \/ CancelRollback(t)
               \/ CancelSpawn(t)
      BY <1>1, <1>2, <2>2 DEF CancelMark, CancelReadRuntime, CancelClaim, CancelRollback, CancelSpawn
    <2>3. CASE CloseRun(t) \/ CloseLocal(t) \/ DeleteLocal(t) \/ ExtCreateRun(t) \/ ExtFinalize(t)
      BY <1>1, <2>3 DEF CloseRun, CloseLocal, DeleteLocal, ExtCreateRun, ExtFinalize
    <2> QED
      BY <1>6, <2>1, <2>2, <2>3 DEF HubStep
  <1>7. CASE AgentStep(t)
    BY <1>1, <1>7
    DEF AgentStep, StartFails, UseLiveSession, StartRefresh, ReloadSession, EnqueueRefresh,
        RefreshOk, RefreshFails, OrphanOk, WorkerFinalize, EnqueueRemove, DeleteLocally,
        RemoveAgreed, ReplyEnds
  <1> QED
    BY <1>5, <1>6, <1>7

\* A request moves by its own steps, or the daemon dies.
LEMMA MovesItself ==
  ASSUME LeaseInv, [Next]_vars, NEW u \in Tasks, task'[u] # task[u]
  PROVE  CrashRestart \/ ClientStep(u) \/ HubStep(u) \/ AgentStep(u)
  <1>1. UNCHANGED task \/ CrashRestart \/ \E t \in Tasks : ClientStep(t) \/ HubStep(t) \/ AgentStep(t)
    BY DEF Next, SupervisorStep, SupervisorCheck, SupervisorExpire, SupervisorReadRuntime,
           SupervisorSettle, Discover, ConnectionLost, vars
  <1> QED
    BY <1>1, OneMoves

\* The store answers the calls that end a run and a refresh.
StoreReliable == StoreFaults \cap {"message", "worker", "refresh", "rollback"} = {}

\* While its run is in flight a request stays where it will end it: it leaves
\* only when finalize_run_cas has hit, or has missed because the run had ended.
LEMMA FlightMoves ==
  ASSUME StoreReliable, LeaseInv, [Next]_vars, NEW r \in Runs,
         task[r].pc \in FlightPcs, runs[r].conv = task[r].conv, runs'[r].status \in ActiveStatuses
  PROVE  task'[r].conv = task[r].conv /\ task'[r].pc \in FlightPcs
  <1> SUFFICES ASSUME task'[r] # task[r] PROVE task'[r].conv = task[r].conv /\ task'[r].pc \in FlightPcs
    OBVIOUS
  <1> USE DEF At, Tasks, FlightPcs, Ends
  <1>0. task \in [Tasks -> Requests] /\ runs \in [Runs -> RunRows]
    BY OwnerFacts DEF LeaseInv, StoreInv, StoreTypeOK
  <1>1. ASSUME NEW pc \in FlightPcs, NEW gen, NEW end, Advance(r, pc, gen, end)
        PROVE  task'[r].conv = task[r].conv /\ task'[r].pc \in FlightPcs
    BY <1>0, <1>1, AdvanceFacts
  <1>2. ASSUME NEW s, NEW p, NEW pc \in {"message", "worker"}, s \in TerminalStatuses,
               TryFinalize(r, task[r].conv, s, p, pc)
        PROVE  FALSE
    <2>1. \/ FinalizeRunCas(r, task[r].conv, s, p)
          \/ ~CasHits(r, task[r].conv) /\ UNCHANGED storeVars
      BY <1>2 DEF TryFinalize, Fails, StoreReliable
    <2>2. CASE FinalizeRunCas(r, task[r].conv, s, p)
      BY <1>0, <1>2, <2>2 DEF FinalizeRunCas
    <2>3. CASE ~CasHits(r, task[r].conv) /\ UNCHANGED storeVars
      BY <2>3 DEF CasHits, storeVars
    <2> QED
      BY <2>1, <2>2, <2>3
  <1>3. CASE CrashRestart
    BY <1>0, <1>3 DEF CrashRestart, RecoverAtStart, RecoveredRun, RunRows
  <1>4. CASE ClientStep(r)
    BY <1>1, <1>4 DEF ClientStep, BeginWrite, BeginRemove, BeginBind, BeginCancel, BeginExternal,
                      StartTask, ExtCheckOwner, AbortRequest, Goto
  <1>5. CASE HubStep(r)
    <2>1. AcquireRunLease(r) \/ StorePrompt(r) \/ ExtFinalize(r)
      BY <1>5 DEF HubStep, Reserve, Release, SendCreateRun, CompleteRun, CancelMark,
         CancelReadRuntime, CancelClaim, CancelRollback, CancelSpawn, CloseRun, CloseLocal,
         DeleteLocal, ExtCreateRun
    <2>2. CASE AcquireRunLease(r)
      BY <1>1, <2>2 DEF AcquireRunLease
    <2>3. CASE StorePrompt(r)
      BY <1>1, <1>2, <2>3 DEF StorePrompt, Goto
    <2>4. CASE ExtFinalize(r)
      <3>1. ASSUME NEW s \in TerminalStatuses, FinalizeRunCas(r, task[r].conv, s, "agent")
            PROVE  FALSE
        BY <1>0, <3>1 DEF FinalizeRunCas
      <3> QED
        BY <1>1, <2>4, <3>1 DEF ExtFinalize, Goto
    <2> QED
      BY <2>1, <2>2, <2>3, <2>4
  <1>6. CASE AgentStep(r)
    <2>1. WorkerFinalize(r)
      BY <1>6 DEF AgentStep, StartFails, UseLiveSession, StartRefresh, ReloadSession,
         RefreshOk, RefreshFails, OrphanOk, EnqueueRemove, DeleteLocally, RemoveAgreed, ReplyEnds
    <2>2. PICK e \in Endings : TryFinalize(r, task[r].conv, e.status, e.stop, "worker")
      BY <2>1 DEF WorkerFinalize
    <2>3. e.status \in TerminalStatuses
      BY DEF Endings
    <2> QED
      BY <1>2, <2>2, <2>3
  <1> QED
    BY <1>3, <1>4, <1>5, <1>6, MovesItself

\* A run in flight stays with the request of its id.
LEMMA FlightInductive ==
  ASSUME StoreReliable
  PROVE  LeaseInv /\ RunInFlight /\ [Next]_vars => RunInFlight'
  <1> SUFFICES ASSUME LeaseInv, RunInFlight, [Next]_vars, NEW r \in Runs,
                      runs'[r].status \in ActiveStatuses
               PROVE  runs'[r].conv = task'[r].conv /\ task'[r].pc \in FlightPcs
    BY DEF RunInFlight
  <1>1. CASE runs[r].status \in ActiveStatuses
    <2>1. runs[r].conv = task[r].conv /\ task[r].pc \in FlightPcs
      BY <1>1 DEF RunInFlight
    <2>2. runs'[r].conv = runs[r].conv
      BY <1>1, RunRowMoves DEF RunMoves
    <2> QED
      BY <2>1, <2>2, FlightMoves
  <1>2. CASE runs[r].status \notin ActiveStatuses
    <2>1. /\ runs[r].status = "absent" /\ runs'[r].conv = task[r].conv
          /\ SendCreateRun(r) \/ ExtCreateRun(r)
      BY <1>2, RunRowMoves DEF RunMoves
    <2>2. ~UNCHANGED storeVars
      BY <1>2 DEF storeVars
    <2>3. Goto(r, "lease") \/ Goto(r, "ext_active")
      BY <2>1, <2>2 DEF SendCreateRun, ExtCreateRun
    <2> QED
      BY <2>1, <2>3, OwnerFacts, AdvanceFacts DEF Goto, FlightPcs, Tasks
  <1> QED
    BY <1>1, <1>2

\* The marker of a refresh is written by the request that goes on to refresh.
LEMMA MarkerBegins ==
  ASSUME LeaseInv, [Next]_vars, NEW c \in Convs, replay[c] = "none", replay'[c] # "none"
  PROVE  \E t \in Tasks : task[t].conv = c /\ (Goto(t, "refresh") \/ Goto(t, "resume"))
  <1> USE DEF At
  <1>0. replay \in [Convs -> Statuses \cup {"none"}]
    BY DEF LeaseInv, StoreInv, StoreTypeOK
  <1>a. ~UNCHANGED storeVars /\ ~UNCHANGED replay
    BY DEF storeVars
  <1>b. ASSUME NEW d, CommitLoadReplay(d) \/ RollbackLoadReplay(d) PROVE FALSE
    BY <1>0, <1>b DEF CommitLoadReplay, RollbackLoadReplay
  <1>1. ASSUME NEW t \in Tasks, ClientStep(t)
        PROVE  FALSE
    BY <1>a, <1>1 DEF ClientStep, BeginWrite, BeginRemove, BeginBind, BeginCancel, BeginExternal,
                      ExtCheckOwner, AbortRequest, PromoteConversationBind
  <1>2. ASSUME NEW t \in Tasks, HubStep(t)
        PROVE  FALSE
    BY <1>a, <1>2 DEF HubStep, Reserve, Release, AcquireRunLease, CompleteRun, CancelReadRuntime,
       CancelClaim, CancelSpawn, CloseLocal, DeleteLocal, CloseConversationLocal, DeleteConversation,
       SendCreateRun, ExtCreateRun, CreateRun, StorePrompt, TryFinalize, FinalizeRunCas, CloseRun,
       CancelMark, CancelRollback, RequestRunCancelCas, RollbackRunCancelCas,
       TransitionRunCancelState, ExtFinalize
  <1>3. ASSUME NEW t \in Tasks, AgentStep(t)
        PROVE  task[t].conv = c /\ (Goto(t, "refresh") \/ Goto(t, "resume"))
    <2>1. CASE WorkerFinalize(t)
      BY <1>a, <2>1 DEF WorkerFinalize, TryFinalize, FinalizeRunCas
    <2>2. CASE RefreshOk(t) \/ RefreshFails(t) \/ OrphanOk(t)
      BY <1>a, <1>b, <2>2 DEF RefreshOk, RefreshFails, TryRollback, OrphanOk
    <2>3. CASE StartFails(t) \/ UseLiveSession(t) \/ EnqueueRemove(t) \/ DeleteLocally(t)
               \/ RemoveAgreed(t) \/ ReplyEnds(t)
      BY <1>a, <2>3 DEF StartFails, UseLiveSession, EnqueueRemove, DeleteLocally, RemoveAgreed, ReplyEnds
    <2>4. ASSUME NEW pc, EnqueueRefresh(t, pc)
          PROVE  task[t].conv = c /\ Goto(t, pc)
      BY <1>0, <1>a, <2>4 DEF EnqueueRefresh, BeginLoadReplay
    <2> QED
      BY <1>3, <2>1, <2>2, <2>3, <2>4 DEF AgentStep, StartRefresh, ReloadSession
  <1>4. ASSUME NEW q \in Tasks, SupervisorStep(q)
        PROVE  FALSE
    BY <1>a, <1>4 DEF SupervisorStep, SupervisorCheck, SupervisorExpire, SupervisorReadRuntime,
                      SupervisorSettle, FinalizeRunCas
  <1>5. CASE CrashRestart
    BY <1>5 DEF CrashRestart, RecoverAtStart
  <1>6. CASE \/ \E d \in Convs, m \in BOOLEAN : Discover(d, m)
             \/ \E a \in Agents : ConnectionLost(a)
             \/ UNCHANGED vars
    BY <1>a, <1>6 DEF Discover, UpsertAgentSessionDiscover, ConnectionLost, vars
  <1> QED
    BY <1>1, <1>2, <1>3, <1>4, <1>5, <1>6 DEF Next

\* Where a request answers for the marker of its refresh.
MarkerPcs == {"resume", "refresh", "orphan"}

\* It is removed before that request goes on.
LEMMA MarkerInductive ==
  ASSUME StoreReliable
  PROVE  LeaseInv /\ MarkerOwned /\ [Next]_vars => MarkerOwned'
  <1> SUFFICES ASSUME LeaseInv, MarkerOwned, [Next]_vars, NEW c \in Convs, replay'[c] # "none"
               PROVE  \E t \in Tasks : task'[t].conv = c /\ task'[t].pc \in MarkerPcs
    BY DEF MarkerOwned, MarkerPcs
  <1>0. task \in [Tasks -> Requests] /\ replay \in [Convs -> Statuses \cup {"none"}]
    BY DEF LeaseInv, HubTypeOK, StoreInv, StoreTypeOK
  <1>1. CASE replay[c] = "none"
    <2>1. PICK t \in Tasks : task[t].conv = c /\ (Goto(t, "refresh") \/ Goto(t, "resume"))
      BY <1>1, MarkerBegins
    <2> QED
      BY <1>0, <2>1, AdvanceFacts DEF Goto, MarkerPcs
  <1>2. CASE replay[c] # "none"
    <2>1. PICK t \in Tasks : task[t].conv = c /\ task[t].pc \in MarkerPcs
      BY <1>2 DEF MarkerOwned, MarkerPcs
    <2> SUFFICES ASSUME task'[t] # task[t] PROVE task'[t].conv = c /\ task'[t].pc \in MarkerPcs
      BY <2>1
    <2> USE DEF At, MarkerPcs
    <2>2. CASE CrashRestart
      BY <2>2 DEF CrashRestart, RecoverAtStart
    <2>3. CASE ClientStep(t)
      <3>1. Goto(t, "orphan")
        BY <2>1, <2>3 DEF ClientStep, BeginWrite, BeginRemove, BeginBind, BeginCancel, BeginExternal,
                      StartTask, ExtCheckOwner, AbortRequest
      <3> QED
        BY <1>0, <2>1, <3>1, AdvanceFacts DEF Goto
    <2>4. CASE HubStep(t)
      BY <2>1, <2>4 DEF HubStep, Reserve, Release, AcquireRunLease, CompleteRun, CancelReadRuntime,
         CancelClaim, CancelSpawn, CloseLocal, DeleteLocal, SendCreateRun, ExtCreateRun,
         StorePrompt, CloseRun, CancelMark, CancelRollback, ExtFinalize
    <2>5. CASE AgentStep(t)
      <3>1. RefreshOk(t) \/ RefreshFails(t) \/ OrphanOk(t)
        BY <2>1, <2>5 DEF AgentStep, StartFails, UseLiveSession, StartRefresh, ReloadSession,
           WorkerFinalize, EnqueueRemove, DeleteLocally, RemoveAgreed, ReplyEnds
      <3>2. ~Fails("refresh")
        BY DEF StoreReliable, Fails
      <3>3. CommitLoadReplay(c) \/ RollbackLoadReplay(c)
        BY <1>2, <2>1, <3>1, <3>2 DEF RefreshOk, RefreshFails, TryRollback, OrphanOk
      <3> QED
        BY <1>0, <3>3 DEF CommitLoadReplay, RollbackLoadReplay
    <2> QED
      BY <2>2, <2>3, <2>4, <2>5, MovesItself
  <1> QED
    BY <1>1, <1>2

\* A run in flight is the operation of its conversation.
LEMMA FlightIsOwned == LeaseInv /\ RunInFlight => ActiveRunIsOwned
  <1> SUFFICES ASSUME LeaseInv, RunInFlight, NEW c \in Convs, NEW r \in ActiveRuns(c)
               PROVE  ops[c].tok = r
    BY DEF ActiveRunIsOwned
  <1>1. r \in Runs /\ runs[r].conv = c /\ runs[r].status \in ActiveStatuses
    BY DEF ActiveRuns
  <1>2. task[r].conv = c /\ task[r].pc \in LeasePcs
    BY <1>1 DEF RunInFlight, FlightPcs, LeasePcs
  <1> QED
    BY <1>1, <1>2, OwnerFacts DEF Tasks

\* If the store answers, every run in flight is that of the operation that has
\* its conversation, which will end it, and every refresh marker that of a
\* request that will remove it; whatever clients, agents and crashes do.
THEOREM WorkHasOwners ==
  ASSUME StoreReliable
  PROVE  Spec => []WorkOwned
  <1>1. Init => RunInFlight /\ MarkerOwned
    BY DEF Init, RunInFlight, MarkerOwned, AbsentRun
  <1>2. LeaseInv /\ RunInFlight /\ MarkerOwned => WorkOwned
    BY FlightIsOwned DEF WorkOwned, TypeOK, LeaseInv, StoreInv
  <1>3. LeaseInv /\ RunInFlight /\ MarkerOwned /\ [Next]_vars => (LeaseInv /\ RunInFlight /\ MarkerOwned)'
    BY LeaseInductive, FlightInductive, MarkerInductive
  <1> QED
    BY LeaseInit, <1>1, <1>2, <1>3, PTL DEF Spec

-----------------------------------------------------------------------------
(* The busy column. *)

\* No conversation row disappears.
LEMMA ExistInductive == LeaseInv /\ AllExist /\ [Next]_vars => AllExist'
  <1> SUFFICES ASSUME LeaseInv, AllExist, [StoreNext]_storeVars, NEW d \in Convs PROVE Exists(d)'
    BY StoreSteps DEF AllExist
  <1> USE DEF AllExist, Exists, Lifecycle
  <1>0. convs \in [Convs -> ConvRows]
    BY DEF LeaseInv, StoreInv, StoreTypeOK
  <1>1. CASE RecoverAtStart
    BY <1>0, <1>1 DEF RecoverAtStart, RecoveredRow, RestoredRow
  <1>2. ASSUME NEW r \in Runs, NEW c \in Convs,
               \/ CreateRun(r, c)
               \/ RequestRunCancelCas(r, c) \/ RollbackRunCancelCas(r, c)
               \/ \E s \in TerminalStatuses \cup {"cancelling"}, p \in StopReasons :
                    FinalizeRunCas(r, c, s, p)
        PROVE  Exists(d)'
    BY <1>0, <1>2 DEF CreateRun, RequestRunCancelCas, RollbackRunCancelCas,
       TransitionRunCancelState, FinalizeRunCas
  <1>3. ASSUME NEW c \in Convs,
               \/ \E b \in BOOLEAN : CloseConversationLocal(c, b)
               \/ DeleteConversation(c)
               \/ BeginLoadReplay(c) \/ CommitLoadReplay(c) \/ RollbackLoadReplay(c)
        PROVE  Exists(d)'
    BY <1>0, <1>3 DEF CloseConversationLocal, DeleteConversation, BeginLoadReplay,
       CommitLoadReplay, RollbackLoadReplay, RestoredRow
  <1>4. ASSUME NEW c \in Convs, NEW m \in BOOLEAN,
               \/ \E o \in {"hub_created", "bound"} : CreateConversation(c, o, m)
               \/ PromoteConversationBind(c, m) \/ UpsertAgentSessionDiscover(c, m)
        PROVE  Exists(d)'
    BY <1>0, <1>4 DEF CreateConversation, PromoteConversationBind, UpsertAgentSessionDiscover,
       FreshRow, ConvRows
  <1>5. CASE UNCHANGED storeVars
    BY <1>5 DEF storeVars
  <1> QED
    BY <1>1, <1>2, <1>3, <1>4, <1>5 DEF StoreNext

\* finalize_run_cas clears the busy column of the run it ends.
LEMMA FinalizeClears ==
  ASSUME LeaseInv, NEW q \in Runs, NEW d, NEW s \in TerminalStatuses \cup {"cancelling"}, NEW p,
         FinalizeRunCas(q, d, s, p), NEW c \in Convs,
         convs[c].busy # "none", convs'[c].busy = "none"
  PROVE  runs[q].conv = c /\ runs[q].status \in ActiveStatuses /\ runs'[q].status \in TerminalStatuses
  <1>1. convs \in [Convs -> ConvRows] /\ runs \in [Runs -> RunRows]
    BY DEF LeaseInv, StoreInv, StoreTypeOK
  <1> QED
    BY <1>1 DEF FinalizeRunCas, CasHits, Lifecycle

\* The busy column is cleared together with the end of a run of the
\* conversation, or by a close.
LEMMA BusyCleared ==
  ASSUME LeaseInv, AllExist, [Next]_vars, NEW c \in Convs,
         convs[c].busy # "none", convs'[c].busy = "none"
  PROVE  \/ \E q \in Runs : runs[q].conv = c /\ runs[q].status \in ActiveStatuses
                            /\ runs'[q].status \in TerminalStatuses
         \/ \E t \in Tasks : At(t, "close_local") /\ task[t].conv = c
         \/ CrashRestart
  <1> DEFINE Ended == \E q \in Runs : runs[q].conv = c /\ runs[q].status \in ActiveStatuses
                                       /\ runs'[q].status \in TerminalStatuses
  <1> USE DEF Tasks, Lifecycle
  <1>0. convs \in [Convs -> ConvRows] /\ DeletedIsQuiet
    BY DEF LeaseInv, StoreInv, StoreTypeOK
  <1>a. ~UNCHANGED storeVars /\ ~UNCHANGED convs
    BY DEF storeVars
  <1>f. ASSUME NEW q \in Runs, NEW d, NEW s \in TerminalStatuses \cup {"cancelling"}, NEW p,
               FinalizeRunCas(q, d, s, p)
        PROVE  Ended
    BY <1>f, FinalizeClears
  <1>g. ASSUME NEW d, BeginLoadReplay(d) \/ CommitLoadReplay(d) \/ RollbackLoadReplay(d) PROVE FALSE
    BY <1>0, <1>g DEF BeginLoadReplay, CommitLoadReplay, RollbackLoadReplay, RestoredRow
  <1>1. ASSUME NEW t \in Tasks, ClientStep(t)
        PROVE  FALSE
    <2>1. ASSUME NEW d, NEW m, PromoteConversationBind(d, m) PROVE FALSE
      BY <1>0, <2>1 DEF PromoteConversationBind
    <2> QED
      BY <1>a, <1>1, <2>1 DEF ClientStep, BeginWrite, BeginRemove, BeginBind, BeginCancel, BeginExternal,
                      ExtCheckOwner, AbortRequest
  <1> HIDE DEF Ended
  <1>2. ASSUME NEW t \in Tasks, HubStep(t)
        PROVE  Ended \/ (At(t, "close_local") /\ task[t].conv = c)
    <2>1. CASE Reserve(t) \/ Release(t) \/ AcquireRunLease(t) \/ CompleteRun(t)
               \/ CancelReadRuntime(t) \/ CancelClaim(t) \/ CancelSpawn(t)
      BY <1>a, <2>1 DEF Reserve, Release, AcquireRunLease, CompleteRun, CancelReadRuntime,
         CancelClaim, CancelSpawn
    <2>2. CASE SendCreateRun(t) \/ ExtCreateRun(t)
      <3>1. CreateRun(t, task[t].conv)
        BY <1>a, <2>2 DEF SendCreateRun, ExtCreateRun
      <3> QED
        BY <1>0, <3>1 DEF CreateRun
    <2>3. CASE StorePrompt(t)
      BY <1>a, <1>f, <2>3 DEF StorePrompt, TryFinalize
    <2>4. CASE CancelMark(t) \/ CancelRollback(t)
      <3>1. ASSUME NEW r, NEW d, NEW from \in ActiveStatuses, NEW to \in ActiveStatuses,
                   TransitionRunCancelState(r, d, from, to)
            PROVE  FALSE
        BY <1>0, <3>1 DEF TransitionRunCancelState
      <3> QED
        BY <1>a, <2>4, <3>1 DEF CancelMark, CancelRollback, RequestRunCancelCas, RollbackRunCancelCas
    <2>5. CASE CloseRun(t)
      BY <1>a, <1>f, <2>5 DEF CloseRun, ActiveRuns
    <2>6. CASE CloseLocal(t)
      <3>1. CloseConversationLocal(task[t].conv, task[t].wasBusy) /\ At(t, "close_local")
        BY <1>a, <2>6 DEF CloseLocal
      <3> QED
        BY <1>0, <3>1 DEF CloseConversationLocal
    <2>7. CASE DeleteLocal(t)
      <3>1. DeleteConversation(task[t].conv)
        BY <1>a, <2>7 DEF DeleteLocal
      <3> QED
        BY <1>0, <3>1 DEF DeleteConversation, IsBusy
    <2>8. CASE ExtFinalize(t)
      BY <1>a, <1>f, <2>8 DEF ExtFinalize
    <2> QED
      BY <1>2, <2>1, <2>2, <2>3, <2>4, <2>5, <2>6, <2>7, <2>8 DEF HubStep
  <1>3. ASSUME NEW t \in Tasks, AgentStep(t)
        PROVE  Ended
    <2>1. CASE WorkerFinalize(t)
      <3>1. PICK e \in Endings : FinalizeRunCas(t, task[t].conv, e.status, e.stop)
        BY <1>a, <2>1 DEF WorkerFinalize, TryFinalize
      <3>2. e.status \in TerminalStatuses
        BY DEF Endings
      <3> QED
        BY <1>f, <3>1, <3>2
    <2>2. CASE ~WorkerFinalize(t)
      BY <1>a, <1>g, <1>3, <2>2 DEF AgentStep, StartFails, UseLiveSession, StartRefresh, ReloadSession,
         EnqueueRefresh, RefreshOk, RefreshFails, TryRollback, OrphanOk, EnqueueRemove,
         DeleteLocally, RemoveAgreed, ReplyEnds
    <2> QED
      BY <2>1, <2>2
  <1>4. ASSUME NEW q \in Tasks, SupervisorStep(q)
        PROVE  Ended
    <2>1. PICK stop : FinalizeRunCas(q, runs[q].conv, "cancelled", stop)
      BY <1>a, <1>4 DEF SupervisorStep, SupervisorCheck, SupervisorExpire, SupervisorReadRuntime,
                        SupervisorSettle
    <2> QED
      BY <1>f, <2>1
  <1>5. ASSUME NEW d \in Convs, NEW m \in BOOLEAN, Discover(d, m)
        PROVE  FALSE
    BY <1>0, <1>5 DEF Discover, UpsertAgentSessionDiscover, AllExist, DeletedIsQuiet, IsBusy
  <1>6. CASE (\E a \in Agents : ConnectionLost(a)) \/ UNCHANGED vars
    BY <1>a, <1>6 DEF ConnectionLost, vars
  <1> QED
    BY <1>1, <1>2, <1>3, <1>4, <1>5, <1>6 DEF Next, Ended

\* A conversation with a run in flight is busy.
ActiveIsBusy == \A r \in Runs : runs[r].status \in ActiveStatuses => convs[runs[r].conv].busy # "none"

\* create_run sets the busy column with the run; nothing clears it before the run
\* has ended.
LEMMA BusyInductive ==
  LeaseInv /\ LeaseInv' /\ RunInFlight /\ RunInFlight' /\ AllExist /\ ActiveIsBusy /\ [Next]_vars
    => ActiveIsBusy'
  <1> SUFFICES ASSUME LeaseInv, LeaseInv', RunInFlight, AllExist, ActiveIsBusy, [Next]_vars,
                      NEW r \in Runs, runs'[r].status \in ActiveStatuses
               PROVE  convs'[runs'[r].conv].busy # "none"
    BY DEF ActiveIsBusy
  <1> DEFINE c == runs'[r].conv
  <1>0. /\ convs \in [Convs -> ConvRows] /\ runs \in [Runs -> RunRows] /\ c \in Convs /\ OneActiveRun
    BY DEF LeaseInv, StoreInv, StoreTypeOK, RunsPlaced
  <1>1. CASE runs[r].status \in ActiveStatuses
    <2>1. runs[r].conv = c /\ convs[c].busy # "none" /\ task[r].conv = c /\ task[r].pc \in FlightPcs
      BY <1>1, RunRowMoves DEF RunMoves, RunInFlight, ActiveIsBusy
    <2>2. ops[c].tok = r
      BY <2>1, OwnerFacts DEF FlightPcs, LeasePcs, Tasks
    <2>3. ASSUME NEW q \in Runs, runs[q].conv = c, runs[q].status \in ActiveStatuses,
                 runs'[q].status \in TerminalStatuses
          PROVE  FALSE
      <3>1. q = r
        BY <1>0, <1>1, <2>1, <2>3 DEF OneActiveRun, ActiveRuns
      <3> QED
        BY <2>3, <3>1
    <2>4. ASSUME NEW t \in Tasks, At(t, "close_local"), task[t].conv = c
          PROVE  FALSE
      <3>1. t = r
        BY <2>2, <2>4, OwnerFacts DEF At, LeasePcs
      <3> QED
        BY <2>1, <2>4, <3>1 DEF At, FlightPcs
    <2>5. ~CrashRestart
      BY <1>0 DEF CrashRestart, RecoverAtStart, RecoveredRun, RunRows
    <2> QED
      BY <1>0, <2>1, <2>3, <2>4, <2>5, BusyCleared
  <1>2. CASE runs[r].status \notin ActiveStatuses
    <2>1. c = task[r].conv /\ (SendCreateRun(r) \/ ExtCreateRun(r)) /\ ~UNCHANGED storeVars
      BY <1>2, RunRowMoves DEF RunMoves, storeVars
    <2>2. CreateRun(r, c)
      BY <2>1 DEF SendCreateRun, ExtCreateRun
    <2> QED
      BY <1>0, <2>2 DEF CreateRun, Lifecycle
  <1> QED
    BY <1>1, <1>2

\* With the store's own invariant, busy says that a run is in flight.
LEMMA BusyFacts == LeaseInv /\ ActiveIsBusy => BusyIffActive
  <1> SUFFICES ASSUME LeaseInv, ActiveIsBusy, NEW c \in Convs PROVE IsBusy(c) <=> ActiveRuns(c) # {}
    BY DEF BusyIffActive
  <1>1. IsBusy(c) => ActiveRuns(c) # {}
    BY DEF LeaseInv, StoreInv, BusyHasRun
  <1>2. ActiveRuns(c) # {} => IsBusy(c)
    BY DEF ActiveIsBusy, ActiveRuns, IsBusy
  <1> QED
    BY <1>1, <1>2

-----------------------------------------------------------------------------
(* cancel's critical section. *)

\* How the operations table and its mutex change in one step.
LEMMA TableMoves ==
  ASSUME LeaseInv, [Next]_vars
  PROVE  \/ UNCHANGED <<ops, opsLock>>
         \/ \E t \in Tasks :
              \/ (Reserve(t) \/ Release(t)) /\ LockFree /\ UNCHANGED opsLock
              \/ CancelMark(t) /\ LockFree /\ UNCHANGED ops
              \/ CancelClaim(t)
              \/ CancelRollback(t) /\ opsLock' = NoTask /\ UNCHANGED ops
         \/ CrashRestart
  <1> USE DEF opVars
  <1>1. ASSUME NEW t \in Tasks, ClientStep(t) \/ SupervisorStep(t) \/ AgentStep(t)
        PROVE  UNCHANGED <<ops, opsLock>>
    BY <1>1 DEF ClientStep, BeginWrite, BeginRemove, BeginBind, BeginCancel, BeginExternal,
       ExtCheckOwner, AbortRequest, SupervisorStep, SupervisorCheck, SupervisorExpire,
       SupervisorReadRuntime, SupervisorSettle, AgentStep, StartFails, UseLiveSession, StartRefresh,
       ReloadSession, RefreshOk, RefreshFails, OrphanOk, WorkerFinalize, EnqueueRemove,
       DeleteLocally, RemoveAgreed, ReplyEnds
  <1>2. ASSUME NEW t \in Tasks, HubStep(t)
        PROVE  \/ UNCHANGED <<ops, opsLock>>
               \/ (Reserve(t) \/ Release(t)) /\ LockFree /\ UNCHANGED opsLock
               \/ CancelMark(t) /\ LockFree /\ UNCHANGED ops
               \/ CancelClaim(t)
               \/ CancelRollback(t) /\ opsLock' = NoTask /\ UNCHANGED ops
    <2>1. CASE \/ SendCreateRun(t) \/ AcquireRunLease(t) \/ StorePrompt(t) \/ CompleteRun(t)
               \/ CancelReadRuntime(t) \/ CancelSpawn(t)
               \/ CloseRun(t) \/ CloseLocal(t) \/ DeleteLocal(t) \/ ExtCreateRun(t) \/ ExtFinalize(t)
      BY <2>1 DEF SendCreateRun, AcquireRunLease, StorePrompt, CompleteRun, CancelReadRuntime,
         CancelSpawn, CloseRun, CloseLocal, DeleteLocal, ExtCreateRun, ExtFinalize
    <2>2. CASE Reserve(t) \/ Release(t)
      BY <2>2 DEF Reserve, Release
    <2>3. CASE CancelMark(t) \/ CancelRollback(t)
      BY <2>3 DEF CancelMark, CancelRollback
    <2> QED
      BY <1>2, <2>1, <2>2, <2>3 DEF HubStep
  <1>3. CASE \/ \E c \in Convs, m \in BOOLEAN : Discover(c, m)
             \/ \E a \in Agents : ConnectionLost(a)
             \/ UNCHANGED vars
    BY <1>3 DEF Discover, ConnectionLost, vars
  <1> QED
    BY <1>1, <1>2, <1>3 DEF Next

\* The mutex is held exactly by the cancel request in its critical section, and
\* the operation it looked up is still in the table, not yet cancelled.
CancelLock ==
  /\ opsLock # NoTask => task[opsLock].pc \in CriticalPcs
  /\ \A t \in Tasks : task[t].pc \in CriticalPcs =>
       LET op == ops[task[t].conv]
       IN opsLock = t /\ op.tok = task[t].target /\ op.kind = "prompt" /\ ~op.cancel

\* A cancel request enters the section through the mark, and leaves it with the
\* mutex.
LEMMA SectionMoves ==
  ASSUME LeaseInv, NEW u \in Tasks, task'[u] # task[u], ClientStep(u) \/ HubStep(u) \/ AgentStep(u),
         task[u].pc \in CriticalPcs \/ task'[u].pc \in CriticalPcs
  PROVE  \/ /\ CancelMark(u) /\ SnapshotHolds(u) /\ task[u].pc = "mark" /\ task'[u].pc = "marked"
            /\ opsLock' = u /\ task'[u].conv = task[u].conv /\ task'[u].target = task[u].target
            /\ RequestRunCancelCas(task[u].target, task[u].conv)
         \/ /\ CancelReadRuntime(u) \/ CancelClaim(u)
            /\ UNCHANGED <<ops, opsLock>>
            /\ task[u].pc \in CriticalPcs /\ task'[u].pc \in CriticalPcs
            /\ task'[u].conv = task[u].conv /\ task'[u].target = task[u].target
         \/ /\ CancelClaim(u) /\ task[u].pc = "claim" /\ task'[u].pc = "spawn" /\ opsLock' = NoTask
            /\ task'[u].target = task[u].target
            /\ ops' = [ops EXCEPT ![task[u].conv].cancel = TRUE]
         \/ /\ CancelRollback(u) /\ task[u].pc = "rollback" /\ task'[u].pc \in Ends
            /\ opsLock' = NoTask /\ UNCHANGED ops
  <1> USE DEF At, CriticalPcs, opVars
  <1>0. task \in [Tasks -> Requests] /\ task[u].end \in Ends
    BY OwnerFacts
  <1>1. ASSUME NEW pc, NEW gen, NEW end, Advance(u, pc, gen, end)
        PROVE  task'[u].pc = pc /\ task'[u].conv = task[u].conv /\ task'[u].target = task[u].target
    BY <1>0, <1>1, AdvanceFacts
  <1>2. ASSUME NEW end \in Ends, Finish(u, end) PROVE task'[u].pc \in Ends
    BY <1>0, <1>2, FinishFacts
  <1>3. ASSUME NEW kind, NEW c, StartTask(u, kind, c, "reserve") PROVE task'[u].pc = "reserve" /\ task[u].pc = "idle"
    BY <1>0, <1>3 DEF StartTask, Request
  <1>4. ASSUME NEW c, BeginCancel(u, c) PROVE task'[u].pc = "mark" /\ task[u].pc = "idle"
    BY <1>0, <1>4 DEF BeginCancel, Request
  <1> USE DEF Goto, Leave, Ends
  <1>5. CASE ClientStep(u)
    BY <1>1, <1>2, <1>3, <1>4, <1>5
    DEF ClientStep, BeginWrite, BeginRemove, BeginBind, BeginExternal, ExtCheckOwner, AbortRequest
  <1>6. CASE AgentStep(u)
    BY <1>1, <1>6
    DEF AgentStep, StartFails, UseLiveSession, StartRefresh, ReloadSession, EnqueueRefresh,
        RefreshOk, RefreshFails, OrphanOk, WorkerFinalize, EnqueueRemove, DeleteLocally,
        RemoveAgreed, ReplyEnds, AfterLive
  <1>7. CASE HubStep(u)
    <2>1. CASE Reserve(u) \/ Release(u) \/ SendCreateRun(u) \/ AcquireRunLease(u)
               \/ StorePrompt(u) \/ CompleteRun(u)
      BY <1>0, <1>1, <1>2, <2>1 DEF Reserve, Release, SendCreateRun, AcquireRunLease, StorePrompt, CompleteRun
    <2>2. CASE CloseRun(u) \/ CloseLocal(u) \/ DeleteLocal(u) \/ ExtCreateRun(u) \/ ExtFinalize(u)
      BY <1>1, <2>2 DEF CloseRun, CloseLocal, DeleteLocal, ExtCreateRun, ExtFinalize
    <2>3. CASE CancelMark(u)
      BY <1>1, <1>2, <2>3 DEF CancelMark
    <2>4. CASE CancelReadRuntime(u)
      BY <1>1, <2>4 DEF CancelReadRuntime
    <2>5. CASE CancelClaim(u)
      BY <1>1, <2>5 DEF CancelClaim
    <2>6. CASE CancelRollback(u)
      BY <1>2, <2>6 DEF CancelRollback
    <2>7. CASE CancelSpawn(u)
      BY <1>2, <2>7 DEF CancelSpawn
    <2> QED
      BY <1>7, <2>1, <2>2, <2>3, <2>4, <2>5, <2>6, <2>7 DEF HubStep
  <1> QED
    BY <1>5, <1>6, <1>7

\* The mutex and the critical section go together in every step.
LEMMA LockInductive == LeaseInv /\ CancelLock /\ [Next]_vars => CancelLock'
  <1> SUFFICES ASSUME LeaseInv, CancelLock, [Next]_vars PROVE CancelLock'
    OBVIOUS
  <1>0. task \in [Tasks -> Requests] /\ opsLock \in Tasks \cup {NoTask} /\ NoTask \notin Tasks
        /\ ops \in [Convs -> Operations]
    BY HubAssumption DEF LeaseInv, HubTypeOK, Tasks
  <1>1. CASE CrashRestart
    <2>1. opsLock' = NoTask /\ \A t \in Tasks : task'[t].pc \in Ends \cup {"idle"}
      BY <1>0, <1>1 DEF CrashRestart, Answered, Request, Ends
    <2> QED
      BY <2>1 DEF CancelLock, CriticalPcs, Ends
  <1>2. CASE ~CrashRestart
    <2>1. ASSUME NEW u \in Tasks, task'[u].pc \in CriticalPcs
          PROVE  LET op == ops'[task'[u].conv]
                 IN opsLock' = u /\ op.tok = task'[u].target /\ op.kind = "prompt" /\ ~op.cancel
      <3>1. CASE task'[u] # task[u]
        <4>1. ClientStep(u) \/ HubStep(u) \/ AgentStep(u)
          BY <1>2, <3>1, MovesItself
        <4>2. CASE CancelMark(u) /\ SnapshotHolds(u) /\ opsLock' = u
                   /\ task'[u].conv = task[u].conv /\ task'[u].target = task[u].target
          BY <4>2 DEF CancelMark, SnapshotHolds
        <4>3. CASE UNCHANGED <<ops, opsLock>> /\ task[u].pc \in CriticalPcs
                   /\ task'[u].conv = task[u].conv /\ task'[u].target = task[u].target
          BY <4>3 DEF CancelLock
        <4> QED
          BY <2>1, <3>1, <4>1, <4>2, <4>3, SectionMoves DEF Ends, CriticalPcs
      <3>2. CASE task'[u] = task[u]
        <4>1. opsLock = u
          BY <2>1, <3>2 DEF CancelLock
        <4>2. ASSUME NEW t \in Tasks, CancelClaim(t) \/ CancelRollback(t)
              PROVE  FALSE
          <5>1. t = u
            BY <4>1, <4>2 DEF CancelLock, CancelClaim, CancelRollback, At, CriticalPcs
          <5>2. /\ task'[t].pc \in {"spawn", "rollback"} \cup Ends
                /\ task'[t].pc = "rollback" => task[t].pc = "claim"
            BY <1>0, <4>2, AdvanceFacts, FinishFacts DEF CancelClaim, CancelRollback, Goto, At, Ends
          <5> QED
            BY <2>1, <3>2, <5>1, <5>2 DEF CriticalPcs, Ends
        <4>3. UNCHANGED <<ops, opsLock>>
          BY <1>0, <1>2, <4>1, <4>2, TableMoves DEF LockFree
        <4> QED
          BY <2>1, <3>2, <4>3 DEF CancelLock
      <3> QED
        BY <3>1, <3>2
    <2>2. ASSUME opsLock' # NoTask PROVE task'[opsLock'].pc \in CriticalPcs
      <3>1. CASE opsLock' # opsLock
        <4>1. PICK t \in Tasks : CancelMark(t) \/ CancelClaim(t)
          BY <1>2, <2>2, <3>1, TableMoves
        <4>2. ~CancelClaim(t)
          BY <2>2, <3>1 DEF CancelClaim, opVars
        <4>3. opsLock' = t /\ Goto(t, "marked")
          BY <3>1, <4>1, <4>2 DEF CancelMark
        <4> QED
          BY <1>0, <4>3, AdvanceFacts DEF Goto, CriticalPcs
      <3>2. CASE opsLock' = opsLock
        <4>1. opsLock \in Tasks /\ task[opsLock].pc \in CriticalPcs
          BY <1>0, <2>2, <3>2 DEF CancelLock
        <4>2. CASE task'[opsLock] # task[opsLock]
          <5>1. ClientStep(opsLock) \/ HubStep(opsLock) \/ AgentStep(opsLock)
            BY <1>2, <4>1, <4>2, MovesItself
          <5> QED
            BY <2>2, <3>2, <4>1, <4>2, <5>1, SectionMoves DEF CriticalPcs
        <4> QED
          BY <3>2, <4>1, <4>2
      <3> QED
        BY <3>1, <3>2
    <2> QED
      BY <2>1, <2>2 DEF CancelLock
  <1> QED
    BY <1>1, <1>2

\* The statuses of a run that has been marked.
Settled == TerminalStatuses \cup {"cancelling"}

\* A request in its critical section has marked the run, and the mark is there
\* or the run has ended.
CriticalRun == \A t \in Tasks : task[t].pc \in CriticalPcs => runs[task[t].target].status \in Settled

\* How one slot of the table changes in one step.
LEMMA SlotMoves ==
  ASSUME LeaseInv, [Next]_vars, NEW c \in Convs, ops'[c] # ops[c]
  PROVE  \/ ops'[c] = NoOp
         \/ \E t \in Tasks : /\ Reserve(t) /\ task[t].pc = "reserve" /\ task[t].conv = c
                             /\ ops'[c] = [tok |-> t, kind |-> OpKind(task[t].kind), cancel |-> FALSE]
         \/ \E t \in Tasks : /\ CancelClaim(t) /\ task[t].pc = "claim" /\ task[t].conv = c
                             /\ ops'[c] = [ops[c] EXCEPT !.cancel = TRUE]
                             /\ opsLock' = NoTask /\ Goto(t, "spawn")
                             /\ CanTransition(c, "live", task[t].gen)
  <1>0. ops \in [Convs -> Operations]
    BY DEF LeaseInv, HubTypeOK
  <1>1. CASE CrashRestart
    BY <1>1 DEF CrashRestart
  <1>2. ASSUME NEW t \in Tasks, Reserve(t)
        PROVE  /\ task[t].pc = "reserve" /\ task[t].conv = c
               /\ ops'[c] = [tok |-> t, kind |-> OpKind(task[t].kind), cancel |-> FALSE]
    BY <1>0, <1>2 DEF Reserve, At
  <1>3. ASSUME NEW t \in Tasks, Release(t)
        PROVE  ops'[c] = NoOp
    BY <1>0, <1>3 DEF Release
  <1>4. ASSUME NEW t \in Tasks, CancelClaim(t)
        PROVE  /\ task[t].pc = "claim" /\ task[t].conv = c
               /\ ops'[c] = [ops[c] EXCEPT !.cancel = TRUE]
               /\ opsLock' = NoTask /\ Goto(t, "spawn")
               /\ CanTransition(c, "live", task[t].gen)
    BY <1>0, <1>4 DEF CancelClaim, At, opVars
  <1> QED
    BY <1>1, <1>2, <1>3, <1>4, TableMoves

\* Only the rollback of the cancel request in its section takes a mark back.
LEMMA SettledLeaves ==
  ASSUME LeaseInv, SlotHeld, CancelLock, [Next]_vars, NEW c \in Convs, ops[c].tok \in Tasks,
         runs[ops[c].tok].status \in Settled, runs'[ops[c].tok].status \notin Settled
  PROVE  /\ ~ops[c].cancel
         /\ \E t \in Tasks : CancelRollback(t) /\ opsLock = t /\ task[t].conv = c
  <1> DEFINE r == ops[c].tok
  <1>1. PICK t \in Tasks : CancelRollback(t) /\ task[t].target = r
    BY RunRowMoves DEF RunMoves, Settled, Tasks
  <1>2. task[t].pc \in CriticalPcs /\ task[t].conv \in Convs
    BY <1>1, OwnerFacts DEF CancelRollback, At, CriticalPcs, Ends
  <1>3. opsLock = t /\ ops[task[t].conv].tok = r /\ ~ops[task[t].conv].cancel
    BY <1>1, <1>2 DEF CancelLock
  <1>4. task[t].conv = c
    BY <1>2, <1>3, HubAssumption DEF SlotHeld, Tasks
  <1> QED
    BY <1>1, <1>3, <1>4

\* The mark stays until its request leaves the section.
LEMMA CriticalInductive ==
  LeaseInv /\ SlotHeld /\ CancelLock /\ CriticalRun /\ [Next]_vars => CriticalRun'
  <1> SUFFICES ASSUME LeaseInv, SlotHeld, CancelLock, CriticalRun, [Next]_vars,
                      NEW u \in Tasks, task'[u].pc \in CriticalPcs
               PROVE  runs'[task'[u].target].status \in Settled
    BY DEF CriticalRun
  <1> USE DEF Tasks
  <1>0. task \in [Tasks -> Requests] /\ runs \in [Runs -> RunRows]
    BY DEF LeaseInv, HubTypeOK, StoreInv, StoreTypeOK
  <1>1. CASE CancelMark(u) /\ RequestRunCancelCas(task[u].target, task[u].conv)
             /\ task'[u].target = task[u].target
    <2>1. task[u].target \in Runs
      BY <1>1 DEF CancelMark, At, LeaseInv, RequestsPlaced
    <2> QED
      BY <1>0, <1>1, <2>1 DEF RequestRunCancelCas, TransitionRunCancelState, Settled
  <1>2. CASE task[u].pc \in CriticalPcs /\ task'[u].target = task[u].target
    <2> DEFINE c == task[u].conv
    <2>1. /\ c \in Convs /\ ops[c].tok = task[u].target /\ task[u].target \in Tasks /\ opsLock = u
          /\ runs[ops[c].tok].status \in Settled
      BY <1>2, OwnerFacts DEF CancelLock, CriticalRun, CriticalPcs, Ends, LeaseInv, RequestsPlaced
    <2>2. ~CancelRollback(u)
      BY <1>0, FinishFacts DEF CancelRollback, Ends, CriticalPcs
    <2> QED
      BY <1>2, <2>1, <2>2, SettledLeaves
  <1>3. CASE task'[u] # task[u]
    <2>1. ~CrashRestart
      BY <1>0 DEF CrashRestart, Answered, Request, Ends, CriticalPcs
    <2>2. ClientStep(u) \/ HubStep(u) \/ AgentStep(u)
      BY <1>3, <2>1, MovesItself
    <2> QED
      BY <1>1, <1>2, <1>3, <2>2, SectionMoves DEF CriticalPcs, Ends
  <1> QED
    BY <1>2, <1>3

\* cancel_requested is set on a run that is marked, and the mark is not taken back.
LEMMA FlagInductive ==
  LeaseInv /\ SlotHeld /\ CancelLock /\ CriticalRun /\ FlagOk /\ [Next]_vars => FlagOk'
  <1> SUFFICES ASSUME LeaseInv, SlotHeld, CancelLock, CriticalRun, FlagOk, [Next]_vars,
                      NEW c \in Convs, ops'[c].cancel
               PROVE  ops'[c].kind = "prompt" /\ runs'[ops'[c].tok].status \in Settled
    BY DEF FlagOk, Settled
  <1>0. ops \in [Convs -> Operations] /\ SlotsOwned
    BY DEF LeaseInv, HubTypeOK
  <1>1. ASSUME ops'[c].tok = ops[c].tok, ops'[c].kind = ops[c].kind, ops[c].kind = "prompt",
               runs[ops[c].tok].status \in Settled,
               ops[c].cancel \/ \A t \in Tasks : ~CancelRollback(t)
        PROVE  ops'[c].kind = "prompt" /\ runs'[ops'[c].tok].status \in Settled
    <2>1. ops[c].tok \in Tasks
      BY <1>0, <1>1 DEF SlotsOwned
    <2> QED
      BY <1>1, <2>1, SettledLeaves
  <1>2. CASE ops'[c] = ops[c]
    BY <1>1, <1>2 DEF FlagOk, Settled
  <1>3. ASSUME NEW t \in Tasks, CancelClaim(t), task[t].pc = "claim", task[t].conv = c,
               ops'[c] = [ops[c] EXCEPT !.cancel = TRUE]
        PROVE  ops'[c].kind = "prompt" /\ runs'[ops'[c].tok].status \in Settled
    <2>1. ops[c].kind = "prompt" /\ runs[ops[c].tok].status \in Settled
      BY <1>3 DEF CancelLock, CriticalRun, CriticalPcs
    <2>2. ops'[c].tok = ops[c].tok /\ ops'[c].kind = ops[c].kind
      BY <1>0, <1>3 DEF Operations
    <2>3. UNCHANGED runs
      BY <1>3 DEF CancelClaim, storeVars
    <2> QED
      BY <2>1, <2>2, <2>3
  <1>4. ASSUME NEW t \in Tasks,
               ops'[c] = [tok |-> t, kind |-> OpKind(task[t].kind), cancel |-> FALSE]
        PROVE  FALSE
    BY <1>4
  <1>5. ops'[c] # NoOp
    BY DEF NoOp
  <1> QED
    BY <1>2, <1>3, <1>4, <1>5, SlotMoves

\* A prompt whose run is marked and that is not flagged is the one the cancel
\* request in the critical section works on.
LEMMA MarkInductive ==
  ASSUME StoreReliable
  PROVE  OwnInv /\ RunInFlight /\ ActiveIsBusy /\ CancelLock /\ MarkOk /\ [Next]_vars => MarkOk'
  <1> SUFFICES ASSUME OwnInv, RunInFlight, ActiveIsBusy, CancelLock, MarkOk, [Next]_vars, NEW c \in Convs,
                      ops'[c].kind = "prompt", runs'[ops'[c].tok].status = "cancelling", ~ops'[c].cancel
               PROVE  opsLock' # NoTask /\ task'[opsLock'].conv = c
    BY DEF MarkOk
  <1> USE DEF Tasks
  <1>0. /\ LeaseInv /\ SlotHeld /\ ExternalPlaced
        /\ ops \in [Convs -> Operations] /\ task \in [Tasks -> Requests]
        /\ convs \in [Convs -> ConvRows] /\ runs \in [Runs -> RunRows] /\ SlotsOwned /\ BusyHasRun
        /\ OneActiveRun /\ NoTask \notin Tasks /\ opsLock \in Tasks \cup {NoTask}
    BY HubAssumption DEF OwnInv, OwnPart, LeaseInv, HubTypeOK, StoreInv, StoreTypeOK
  <1>1. ASSUME NEW t \in Tasks, Reserve(t), task[t].pc = "reserve",
               ops'[c] = [tok |-> t, kind |-> OpKind(task[t].kind), cancel |-> FALSE]
        PROVE  FALSE
    <2>1. UNCHANGED runs /\ ops'[c].tok = t
      BY <1>1 DEF Reserve, storeVars
    <2>2. runs[t].status \in ActiveStatuses
      BY <2>1
    <2> QED
      BY <1>1, <2>2 DEF RunInFlight, FlightPcs
  <1>2. ops'[c] = ops[c]
    <2>1. ops'[c] # NoOp
      BY DEF NoOp
    <2>2. ops'[c] # [ops[c] EXCEPT !.cancel = TRUE]
      BY <1>0 DEF Operations
    <2> QED
      BY <1>0, <1>1, <2>1, <2>2, SlotMoves
  <1> DEFINE r == ops[c].tok
  <1>3. r \in Runs /\ task[r].conv = c /\ ops[c].kind = "prompt"
    BY <1>0, <1>2 DEF SlotsOwned, SlotHeld
  <1>4. CASE runs[r].status # "cancelling"
    <2>1. CASE ExtFinalize(r)
      <3>1. task[r].kind = "external" /\ ops[c].kind = OpKind(task[r].kind)
        BY <1>0, <1>3, <2>1 DEF ExtFinalize, At, ExternalPlaced, LeaseInv, LeaseHeld, LeasePcs
      <3> QED
        BY <1>3, <3>1 DEF OpKind
    <2>2. ASSUME NEW t \in Tasks, CancelMark(t), task[t].target = r, opsLock' = t, SnapshotHolds(t)
          PROVE  opsLock' # NoTask /\ task'[opsLock'].conv = c
      <3>1. task[t].conv \in Convs /\ task[t].pc = "mark"
        BY <1>0, <2>2, OwnerFacts DEF CancelMark, At, Ends
      <3>2. task[t].conv = c
        BY <1>0, <1>3, <2>2, <3>1 DEF SnapshotHolds, SlotHeld
      <3>3. Goto(t, "marked")
        BY <1>0, <2>2 DEF CancelMark, LockFree
      <3> QED
        BY <1>0, <2>2, <3>2, <3>3, AdvanceFacts DEF Goto
    <2> QED
      BY <1>0, <1>2, <1>3, <1>4, <2>1, <2>2, RunRowMoves DEF RunMoves
  <1>5. CASE runs[r].status = "cancelling"
    <2>1. opsLock \in Tasks /\ task[opsLock].conv = c
      BY <1>0, <1>2, <1>5 DEF MarkOk
    <2> DEFINE t == opsLock
    <2>2. task[t].pc \in CriticalPcs /\ task[t].target = r
      BY <1>0, <2>1 DEF CancelLock
    <2>3. ASSUME CancelRollback(t) PROVE FALSE
      <3>1. runs[r].conv = c /\ convs[c].busy # "none"
        BY <1>3, <1>5 DEF RunInFlight, ActiveIsBusy
      <3>2. PICK q \in ActiveRuns(c) : runs[q].status = convs[c].busy
        BY <1>0, <3>1 DEF BusyHasRun, IsBusy
      <3>3. q = r
        BY <1>0, <1>3, <1>5, <3>1, <3>2 DEF OneActiveRun, ActiveRuns
      <3>4. convs[c].busy = "cancelling"
        BY <1>5, <3>2, <3>3
      <3>5. ~Fails("rollback")
        BY DEF StoreReliable, Fails
      <3>6. RollbackRunCancelCas(r, c)
        BY <1>5, <2>1, <2>2, <2>3, <3>4, <3>5 DEF CancelRollback
      <3>7. runs'[r].status = "running"
        BY <1>0, <1>3, <3>6 DEF RollbackRunCancelCas, TransitionRunCancelState
      <3> QED
        BY <1>2, <3>7
    <2>4. ASSUME ops' = [ops EXCEPT ![c].cancel = TRUE] PROVE FALSE
      BY <1>0, <1>2, <2>4 DEF Operations
    <2>5. CASE task'[t] = task[t]
      <3>1. ASSUME NEW u \in Tasks, CancelClaim(u) \/ CancelRollback(u) \/ CancelMark(u)
            PROVE  u = t /\ task'[u].pc # task[u].pc
        <4>1. u = t
          BY <1>0, <2>1, <3>1 DEF CancelLock, CancelClaim, CancelRollback, CancelMark, LockFree, At, CriticalPcs
        <4> QED
          BY <1>0, <3>1, <4>1, AdvanceFacts, FinishFacts
          DEF CancelClaim, CancelRollback, CancelMark, At, Goto, Ends
      <3>2. ~CrashRestart
        BY <1>0, <1>2, <1>3 DEF CrashRestart, NoOp
      <3> QED
        BY <1>0, <2>1, <2>5, <3>1, <3>2, TableMoves
    <2>6. CASE task'[t] # task[t]
      <3>1. ~CrashRestart
        BY <1>0, <1>2, <1>3 DEF CrashRestart, NoOp
      <3>2. ClientStep(t) \/ HubStep(t) \/ AgentStep(t)
        BY <1>0, <2>1, <2>6, <3>1, MovesItself
      <3> QED
        BY <1>0, <2>1, <2>2, <2>3, <2>4, <2>6, <3>2, SectionMoves DEF CriticalPcs
    <2> QED
      BY <2>5, <2>6
  <1> QED
    BY <1>4, <1>5

\* The inductive invariant of the hub's memory and the store, together.
HubInv ==
  /\ OwnInv /\ RunInFlight /\ AllExist /\ ActiveIsBusy
  /\ CancelLock /\ CriticalRun /\ FlagOk /\ MarkOk

\* The invariant holds of a fresh daemon.
LEMMA HubInit == Init => HubInv
  <1> SUFFICES ASSUME Init PROVE HubInv
    OBVIOUS
  <1> USE DEF Init
  <1>1. OwnInv
    BY LeaseInit, HubAssumption
    DEF OwnInv, OwnPart, SlotHeld, CurrentRunHeld, ExternalPlaced, NoOp, Idle, Request
  <1>2. RunInFlight /\ ActiveIsBusy
    BY DEF RunInFlight, ActiveIsBusy, AbsentRun
  <1>3. AllExist
    <2> SUFFICES ASSUME NEW c \in Convs PROVE convs[c].origin # "absent"
      BY DEF AllExist, Exists
    <2>1. PICK o \in {"hub_created", "imported_list"} : convs[c] = FreshRow(o, TRUE)
      OBVIOUS
    <2>2. FreshRow(o, TRUE).origin = o
      BY DEF FreshRow
    <2> QED
      BY <2>1, <2>2
  <1>4. CancelLock /\ CriticalRun /\ FlagOk /\ MarkOk
    BY DEF CancelLock, CriticalRun, FlagOk, MarkOk, NoOp, Idle, Request, CriticalPcs
  <1> QED
    BY <1>1, <1>2, <1>3, <1>4 DEF HubInv

\* The invariant is inductive when the store answers.
LEMMA HubInductive ==
  ASSUME StoreReliable
  PROVE  HubInv /\ [Next]_vars => HubInv'
  <1> SUFFICES ASSUME HubInv, [Next]_vars PROVE HubInv'
    OBVIOUS
  <1>0. OwnInv /\ LeaseInv /\ SlotHeld /\ RunInFlight /\ AllExist /\ ActiveIsBusy
        /\ CancelLock /\ CriticalRun /\ FlagOk /\ MarkOk
    BY DEF HubInv, OwnInv, OwnPart
  <1>1. OwnInv' /\ LeaseInv'
    BY <1>0, OwnInductive DEF OwnInv
  <1>2. RunInFlight' /\ AllExist'
    BY <1>0, FlightInductive, ExistInductive
  <1>3. ActiveIsBusy'
    BY <1>0, <1>1, <1>2, BusyInductive
  <1>4. CancelLock' /\ CriticalRun' /\ FlagOk' /\ MarkOk'
    BY <1>0, LockInductive, CriticalInductive, FlagInductive, MarkInductive
  <1> QED
    BY <1>1, <1>2, <1>3, <1>4 DEF HubInv

\* If the store answers, a conversation is busy exactly while it has a run in
\* flight, and outside cancel's critical section cancel_requested and the run row
\* agree, whatever clients, agents and crashes do in between.
THEOREM MemoryMatchesStore ==
  ASSUME StoreReliable
  PROVE  Spec => []HubMatchesStore
  <1>1. HubInv => HubMatchesStore
    <2> SUFFICES ASSUME HubInv PROVE HubMatchesStore
      OBVIOUS
    <2>1. BusyIffActive
      BY BusyFacts DEF HubInv, OwnInv
    <2>2. CancelFlagMatchesStore
      BY DEF HubInv, FlagOk, MarkOk, CancelFlagMatchesStore, LockFree
    <2> QED
      BY <2>1, <2>2 DEF HubMatchesStore
  <1> QED
    BY HubInit, HubInductive, <1>1, PTL DEF Spec

-----------------------------------------------------------------------------
(* One holder, one turn. *)

\* A step other than a crash changes at most one run row.
LEMMA OneRowMoves ==
  ASSUME LeaseInv, [Next]_vars, ~CrashRestart, NEW r \in Runs, runs'[r] # runs[r]
  PROVE  \A q \in Runs \ {r} : runs'[q] = runs[q]
  <1> DEFINE Alone == \A q \in Runs \ {r} : runs'[q] = runs[q]
  <1> USE DEF At, Tasks
  <1>0. runs \in [Runs -> RunRows]
    BY DEF LeaseInv, StoreInv, StoreTypeOK
  <1>a. ~UNCHANGED storeVars /\ ~UNCHANGED runs
    BY DEF storeVars
  <1>b. ASSUME NEW x \in Runs, NEW c, CreateRun(x, c) PROVE Alone
    BY <1>0, <1>b DEF CreateRun
  <1>c. ASSUME NEW x \in Runs, NEW c, NEW s, NEW p, FinalizeRunCas(x, c, s, p) PROVE Alone
    BY <1>0, <1>c DEF FinalizeRunCas
  <1>d. ASSUME NEW x \in Runs, NEW c, NEW s, NEW p, TransitionRunCancelState(x, c, s, p) PROVE Alone
    BY <1>0, <1>d DEF TransitionRunCancelState
  <1>1. ASSUME NEW t \in Tasks, ClientStep(t)
        PROVE  FALSE
    BY <1>a, <1>1 DEF ClientStep, BeginWrite, BeginRemove, BeginBind, BeginCancel, BeginExternal,
                      ExtCheckOwner, AbortRequest, PromoteConversationBind
  <1>2. ASSUME NEW t \in Tasks, HubStep(t)
        PROVE  Alone
    <2>1. CASE Reserve(t) \/ Release(t) \/ AcquireRunLease(t) \/ CompleteRun(t)
               \/ CancelReadRuntime(t) \/ CancelClaim(t) \/ CancelSpawn(t)
               \/ CloseLocal(t) \/ DeleteLocal(t)
      BY <1>a, <2>1 DEF Reserve, Release, AcquireRunLease, CompleteRun, CancelReadRuntime,
         CancelClaim, CancelSpawn, CloseLocal, DeleteLocal, CloseConversationLocal, DeleteConversation
    <2>2. CASE SendCreateRun(t) \/ ExtCreateRun(t)
      BY <1>a, <1>b, <2>2 DEF SendCreateRun, ExtCreateRun
    <2>3. CASE StorePrompt(t) \/ ExtFinalize(t)
      BY <1>a, <1>c, <2>3 DEF StorePrompt, TryFinalize, ExtFinalize
    <2>4. CASE CancelMark(t) \/ CancelRollback(t)
      BY <1>a, <1>d, <2>4 DEF CancelMark, CancelRollback, RequestRunCancelCas,
         RollbackRunCancelCas, LeaseInv, RequestsPlaced
    <2>5. CASE CloseRun(t)
      BY <1>a, <1>c, <2>5 DEF CloseRun, ActiveRuns
    <2> QED
      BY <1>2, <2>1, <2>2, <2>3, <2>4, <2>5 DEF HubStep
  <1>3. ASSUME NEW t \in Tasks, AgentStep(t)
        PROVE  Alone
    <2>1. CASE WorkerFinalize(t)
      BY <1>a, <1>c, <2>1 DEF WorkerFinalize, TryFinalize
    <2>2. CASE ~WorkerFinalize(t)
      BY <1>a, <1>3, <2>2 DEF AgentStep, StartFails, UseLiveSession, StartRefresh, ReloadSession,
         EnqueueRefresh, RefreshOk, RefreshFails, TryRollback, OrphanOk, EnqueueRemove,
         DeleteLocally, RemoveAgreed, ReplyEnds, BeginLoadReplay, CommitLoadReplay, RollbackLoadReplay
    <2> QED
      BY <2>1, <2>2
  <1>4. ASSUME NEW q \in Tasks, SupervisorStep(q)
        PROVE  Alone
    BY <1>a, <1>c, <1>4 DEF SupervisorStep, SupervisorCheck, SupervisorExpire,
                            SupervisorReadRuntime, SupervisorSettle
  <1>5. CASE \/ \E c \in Convs, m \in BOOLEAN : Discover(c, m)
             \/ \E a \in Agents : ConnectionLost(a)
             \/ UNCHANGED vars
    BY <1>a, <1>5 DEF Discover, UpsertAgentSessionDiscover, ConnectionLost, vars
  <1> QED
    BY <1>1, <1>2, <1>3, <1>4, <1>5 DEF Next

\* A step that writes the operations table writes no run row, unless it is a crash.
LEMMA TableOrRows ==
  ASSUME LeaseInv, [Next]_vars, ~CrashRestart, ops' # ops
  PROVE  UNCHANGED runs
  BY TableMoves DEF Reserve, Release, CancelClaim, storeVars

\* A change of a run row is a step of the turn of the operation that holds the
\* conversation.
LEMMA RowAbstracts ==
  ASSUME HubInv, [Next]_vars, ~CrashRestart, NEW r \in Runs, runs'[r].status # runs[r].status
  PROVE  T!AbsNext
  <1> USE DEF Tasks
  <1>0. /\ LeaseInv /\ RunInFlight /\ CancelLock /\ FlagOk /\ RunsPlaced
        /\ runs \in [Runs -> RunRows] /\ runs' \in [Runs -> RunRows]
        /\ ops \in [Convs -> Operations]
    BY LeaseInductive DEF HubInv, OwnInv, LeaseInv, HubTypeOK, StoreInv, StoreTypeOK
  <1>1. ops' = ops
    BY <1>0, TableOrRows
  <1>2. Turn' = [Turn EXCEPT ![r] = runs'[r].status]
    BY <1>0, OneRowMoves DEF Turn
  <1>3. ASSUME NEW from, NEW to, runs[r].status \in from, runs'[r].status = to
        PROVE  T!Move(r, from, to)
    BY <1>1, <1>2, <1>3 DEF T!Move, Turn
  <1>5. CASE /\ runs[r].status = "absent" /\ runs'[r].status = "running"
             /\ SendCreateRun(r) \/ ExtCreateRun(r)
    <2> DEFINE c == task[r].conv
    <2>1. c \in Convs /\ ops[c].tok = r
      BY <1>0, <1>5, OwnerFacts DEF SendCreateRun, ExtCreateRun, At, LeasePcs, Ends
    <2>2. ~ops[c].cancel
      BY <1>0, <1>5, <2>1 DEF FlagOk
    <2>3. T!Begin(r, c)
      BY <1>3, <1>5, <2>1, <2>2 DEF T!Begin
    <2> QED
      BY <2>1, <2>3 DEF T!AbsNext
  <1>6. CASE runs[r].status \in ActiveStatuses
    <2> DEFINE c == runs[r].conv
    <2>1. c \in Convs /\ ops[c].tok = r
      BY <1>0, <1>6, FlightIsOwned DEF RunsPlaced, ActiveRunIsOwned, ActiveRuns
    <2>2. CASE runs'[r].status \in TerminalStatuses
      <3>1. T!End(r, c, runs'[r].status)
        BY <1>3, <1>6, <2>1 DEF T!End, T!Going
      <3> QED
        BY <2>1, <2>2, <3>1 DEF T!AbsNext, T!Endings
    <2>3. CASE runs[r].status = "running" /\ runs'[r].status = "cancelling"
      <3>1. ~ops[c].cancel
        BY <1>0, <2>1, <2>3 DEF FlagOk
      <3>2. T!Mark(r, c)
        BY <1>3, <2>1, <2>3, <3>1 DEF T!Mark
      <3> QED
        BY <2>1, <3>2 DEF T!AbsNext
    <2>4. ASSUME runs[r].status = "cancelling", runs'[r].status = "running",
                 NEW t \in Tasks, CancelRollback(t), task[t].target = r
          PROVE  T!AbsNext
      <3> DEFINE d == task[t].conv
      <3>1. d \in Convs /\ ops[d].tok = r /\ ~ops[d].cancel
        BY <1>0, <2>4, OwnerFacts DEF CancelRollback, At, CancelLock, CriticalPcs, Ends
      <3>2. T!Unmark(r, d)
        BY <1>3, <2>4, <3>1 DEF T!Unmark
      <3> QED
        BY <3>1, <3>2 DEF T!AbsNext
    <2> QED
      BY <1>0, <1>6, <2>2, <2>3, <2>4, RunRowMoves DEF RunMoves
  <1> QED
    BY <1>0, <1>5, <1>6, RunRowMoves DEF RunMoves

\* A change of the operations table is a step of a holder.
LEMMA TableAbstracts ==
  ASSUME HubInv, [Next]_vars, ~CrashRestart, ops' # ops
  PROVE  T!AbsNext
  <1> USE DEF Tasks
  <1>0. /\ LeaseInv /\ SlotHeld /\ RunInFlight /\ CancelLock /\ CriticalRun
        /\ ops \in [Convs -> Operations] /\ task \in [Tasks -> Requests] /\ NoTask \notin Tasks
    BY HubAssumption DEF HubInv, OwnInv, OwnPart, LeaseInv, HubTypeOK
  <1>1. Turn' = Turn
    BY <1>0, TableOrRows DEF Turn
  <1>4. ASSUME NEW t \in Tasks, Reserve(t)
        PROVE  T!AbsNext
    <2> DEFINE c == task[t].conv
               op == [tok |-> t, kind |-> OpKind(task[t].kind), cancel |-> FALSE]
    <2>1. task[t].pc = "reserve" /\ Reservable(t) /\ ops' = [ops EXCEPT ![c] = op] /\ c \in Convs
      BY <1>0, <1>4, OwnerFacts DEF Reserve, At, Ends
    <2>2. op.kind = "prompt" => task[t].kind = "send"
      BY <1>0, <2>1 DEF OpKind, LeaseInv, RequestsPlaced, AllKinds
    <2>3. ops[c] = T!Free
      BY <2>1 DEF Reservable, NoOp, T!Free
    <2>4. ASSUME NEW d \in Convs
          PROVE  ops[d].tok # t /\ (op.kind = "prompt" /\ ops[d].kind = "prompt" => AgentOf[d] # AgentOf[c])
      <3>1. ops[d].tok # t
        BY <1>0, <2>1, HubAssumption DEF SlotHeld, LeasePcs
      <3> QED
        BY <2>1, <2>2, <3>1 DEF Reservable
    <2>5. T!Take(t, c, op.kind)
      BY <1>1, <2>1, <2>3, <2>4 DEF T!Take
    <2>6. op.kind \in T!Work
      BY <1>0, <2>1 DEF OpKind, LeaseInv, RequestsPlaced, AllKinds, T!Work
    <2> QED
      BY <2>1, <2>5, <2>6 DEF T!AbsNext
  <1>5. ASSUME NEW t \in Tasks, Release(t)
        PROVE  T!AbsNext
    <2> DEFINE c == task[t].conv
    <2>1. task[t].pc = "release" /\ c \in Convs /\ ops[c].tok = t /\ ops' = [ops EXCEPT ![c] = NoOp]
      BY <1>0, <1>5, OwnerFacts DEF Release, At, Ends
    <2>2. runs[t].status \notin ActiveStatuses
      BY <1>0, <2>1 DEF RunInFlight, FlightPcs
    <2>3. Turn[t] \notin T!Going
      BY <2>2 DEF Turn, T!Going
    <2>4. T!LetGo(t, c)
      BY <1>1, <2>1, <2>3 DEF T!LetGo, T!Free, NoOp
    <2> QED
      BY <2>1, <2>4 DEF T!AbsNext
  <1>6. ASSUME NEW t \in Tasks, CancelClaim(t)
        PROVE  T!AbsNext
    <2> DEFINE c == task[t].conv  r == ops[c].tok
    <2>1. task[t].pc = "claim" /\ c \in Convs /\ ops' = [ops EXCEPT ![c].cancel = TRUE]
      BY <1>0, <1>6, OwnerFacts DEF CancelClaim, At, Ends, opVars
    <2>2. r \in Runs /\ ops[c].kind = "prompt" /\ ~ops[c].cancel /\ runs[r].status \in Settled
      BY <1>0, <2>1 DEF CancelLock, CriticalRun, CriticalPcs, LeaseInv, RequestsPlaced
    <2>3. T!Acknowledge(r, c)
      BY <1>1, <2>1, <2>2 DEF T!Acknowledge, T!Endings, Settled, Turn
    <2> QED
      BY <2>1, <2>2, <2>3 DEF T!AbsNext
  <1> QED
    BY <1>0, <1>4, <1>5, <1>6, TableMoves

\* The crash of the daemon and the recovery of the store are one restart.
LEMMA CrashAbstracts == LeaseInv /\ CrashRestart => T!Restart
  <1> SUFFICES ASSUME LeaseInv, CrashRestart PROVE T!Restart
    OBVIOUS
  <1>1. runs \in [Runs -> RunRows]
    BY DEF LeaseInv, StoreInv, StoreTypeOK
  <1>2. \A r \in Runs : runs'[r].status = IF runs[r].status \in T!Going THEN "failed" ELSE runs[r].status
    BY <1>1 DEF CrashRestart, RecoverAtStart, RecoveredRun, T!Going
  <1>3. Turn' = [t \in Tasks |-> IF Turn[t] \in T!Going THEN "failed" ELSE Turn[t]]
    BY <1>2 DEF Turn, Tasks
  <1>4. ops' = [c \in Convs |-> T!Free]
    BY DEF CrashRestart, NoOp, T!Free
  <1> QED
    BY <1>3, <1>4 DEF T!Restart

\* If the store answers, the operations table and the run rows, which prompts,
\* cancels, supervisors, closes, clients and recovery write at their own times,
\* implement one holder and one turn per conversation: every turn is begun,
\* marked, unmarked and ended by its holder, ends once, is over before the
\* conversation is given back, and an acknowledged cancellation is never undone.
THEOREM HubImplementsTurns ==
  ASSUME StoreReliable
  PROVE  Spec => ImplementsTurns
  <1>1. Init => T!AbsInit
    BY DEF Init, T!AbsInit, T!Free, Turn, NoOp, AbsentRun, Tasks
  <1>2. HubInv /\ [Next]_vars => [T!AbsNext]_(T!absVars)
    <2> SUFFICES ASSUME HubInv, [Next]_vars PROVE [T!AbsNext]_(T!absVars)
      OBVIOUS
    <2>1. CASE CrashRestart
      BY <2>1, CrashAbstracts DEF T!AbsNext, HubInv, OwnInv
    <2>2. CASE ~CrashRestart /\ ops' = ops /\ \A r \in Runs : runs'[r].status = runs[r].status
      BY <2>2 DEF T!absVars, Turn, Tasks
    <2> QED
      BY <2>1, <2>2, RowAbstracts, TableAbstracts
  <1> QED
    BY HubInit, HubInductive, <1>1, <1>2, PTL DEF Spec, ImplementsTurns, T!TurnsSpec

-----------------------------------------------------------------------------
(* The end of a cancellation. *)

\* How an entry of the runtime cache changes in one step.
LEMMA RuntimeMoves ==
  ASSUME LeaseInv, [Next]_vars, NEW c \in Convs, runtime'[c] # runtime[c]
  PROVE  \/ runtime'[c] = NoEntry
         \/ \E t \in Tasks : /\ RefreshOk(t) \/ AcquireRunLease(t)
                             /\ task[t].conv = c
                             /\ runtime'[c] = [state |-> "live", gen |-> nextGen + 1]
         \/ runtime'[c].state = "live" /\ runtime'[c].gen = runtime[c].gen
         \/ \E t \in Tasks : /\ CancelClaim(t) /\ task[t].pc = "claim" /\ task[t].conv = c
                             /\ CanTransition(c, "live", task[t].gen)
                             /\ runtime'[c].gen = runtime[c].gen
  <1> USE DEF At, rtVars
  <1>0. runtime \in [Convs -> [state : {"absent", "live", "cancelling"}, gen : Nat]]
    BY DEF LeaseInv, HubTypeOK
  <1>a. ~UNCHANGED rtVars /\ ~UNCHANGED runtime
    OBVIOUS
  <1>b. ASSUME NEW d, runtime' = [runtime EXCEPT ![d] = NoEntry] PROVE runtime'[c] = NoEntry
    BY <1>0, <1>b
  <1>c. ASSUME NEW d, NEW gen, Transition(d, "cancelling", "live", gen)
        PROVE  runtime'[c].state = "live" /\ runtime'[c].gen = runtime[c].gen
    BY <1>0, <1>c DEF Transition
  <1>1. ASSUME NEW t \in Tasks, ClientStep(t)
        PROVE  FALSE
    BY <1>a, <1>1 DEF ClientStep, BeginWrite, BeginRemove, BeginBind, BeginCancel, BeginExternal,
                      ExtCheckOwner, AbortRequest
  <1>2. ASSUME NEW t \in Tasks, AcquireRunLease(t) \/ RefreshOk(t)
        PROVE  task[t].conv = c /\ runtime'[c] = [state |-> "live", gen |-> nextGen + 1]
    BY <1>0, <1>2 DEF AcquireRunLease, RefreshOk, InsertLive
  <1>3. ASSUME NEW t \in Tasks, HubStep(t), ~AcquireRunLease(t)
        PROVE  \/ runtime'[c].state = "live" /\ runtime'[c].gen = runtime[c].gen
               \/ /\ CancelClaim(t) /\ task[t].pc = "claim" /\ task[t].conv = c
                  /\ CanTransition(c, "live", task[t].gen)
                  /\ runtime'[c].gen = runtime[c].gen
    <2>1. CompleteRun(t) \/ CancelClaim(t)
      BY <1>a, <1>3 DEF HubStep, Reserve, Release, SendCreateRun, ExtCreateRun, StorePrompt,
         CloseRun, CloseLocal, DeleteLocal, CancelMark, CancelReadRuntime, CancelRollback,
         CancelSpawn, ExtFinalize
    <2>2. CASE CompleteRun(t)
      BY <1>c, <2>2 DEF CompleteRun
    <2>3. CASE CancelClaim(t)
      <3>1. Transition(task[t].conv, "live", "cancelling", task[t].gen) /\ task[t].pc = "claim"
        BY <2>3 DEF CancelClaim
      <3>2. task[t].conv = c /\ CanTransition(c, "live", task[t].gen)
            /\ runtime'[c].gen = runtime[c].gen
        BY <1>0, <3>1 DEF Transition
      <3> QED
        BY <2>3, <3>1, <3>2
    <2> QED
      BY <2>1, <2>2, <2>3
  <1>4. ASSUME NEW t \in Tasks, AgentStep(t), ~RefreshOk(t)
        PROVE  runtime'[c] = NoEntry
    BY <1>a, <1>b, <1>4 DEF AgentStep, StartFails, UseLiveSession, StartRefresh, ReloadSession,
       RefreshFails, OrphanOk, WorkerFinalize, EnqueueRemove, DeleteLocally, RemoveAgreed, ReplyEnds
  <1>5. ASSUME NEW q \in Tasks, SupervisorStep(q)
        PROVE  runtime'[c].state = "live" /\ runtime'[c].gen = runtime[c].gen
    BY <1>a, <1>c, <1>5 DEF SupervisorStep, SupervisorCheck, SupervisorExpire, SupervisorReadRuntime,
                            SupervisorSettle
  <1>6. CASE CrashRestart
    BY <1>6 DEF CrashRestart
  <1>7. CASE \/ \E d \in Convs, m \in BOOLEAN : Discover(d, m)
             \/ \E a \in Agents : ConnectionLost(a)
             \/ UNCHANGED vars
    BY <1>a, <1>7 DEF Discover, ConnectionLost, vars
  <1> QED
    BY <1>1, <1>2, <1>3, <1>4, <1>5, <1>6, <1>7 DEF Next

\* Where the request of a turn goes.
LEMMA TurnMoves ==
  ASSUME LeaseInv, [Next]_vars, NEW t \in Tasks, task'[t] # task[t],
         task[t].pc \in {"lease"} \cup TurnPcs \/ task'[t].pc \in TurnPcs
  PROVE  \/ CrashRestart /\ task'[t].pc \in Ends
         \/ /\ AcquireRunLease(t) /\ task[t].pc = "lease" /\ task'[t].pc = "message"
            /\ task'[t].gen = nextGen + 1 /\ task'[t].conv = task[t].conv
         \/ /\ task[t].pc = "message" /\ task'[t].pc = "worker"
            /\ task'[t].gen = task[t].gen /\ task'[t].conv = task[t].conv
         \/ /\ task[t].pc = "message" /\ task'[t].pc = "completing" /\ Fails("message")
            /\ task'[t].gen = task[t].gen /\ task'[t].conv = task[t].conv
         \/ /\ task[t].pc = "worker" /\ task'[t].pc = "completing" /\ LockFree
            /\ task'[t].gen = task[t].gen /\ task'[t].conv = task[t].conv
         \/ CompleteRun(t) /\ task[t].pc = "completing" /\ task'[t].pc = "release"
  <1> USE DEF At, TurnPcs
  <1>0. task \in [Tasks -> Requests] /\ task[t].end \in Ends
    BY OwnerFacts
  <1>1. ASSUME NEW pc, NEW gen, NEW end, Advance(t, pc, gen, end)
        PROVE  task'[t].pc = pc /\ task'[t].conv = task[t].conv /\ task'[t].gen = gen
    BY <1>0, <1>1, AdvanceFacts
  <1>2. ASSUME NEW end \in Ends, Finish(t, end) PROVE task'[t].pc \in Ends
    BY <1>0, <1>2, FinishFacts
  <1>3. ASSUME NEW kind, NEW c, StartTask(t, kind, c, "reserve")
        PROVE  task'[t].pc = "reserve" /\ task[t].pc = "idle"
    BY <1>0, <1>3 DEF StartTask, Request
  <1>4. ASSUME NEW c, BeginCancel(t, c) PROVE task'[t].pc = "mark" /\ task[t].pc = "idle"
    BY <1>0, <1>4 DEF BeginCancel, Request
  <1>5. CASE CrashRestart
    BY <1>0, <1>5 DEF CrashRestart, Answered, Request, Ends
  <1> USE DEF Goto, Leave, Ends
  <1>6. CASE ClientStep(t)
    BY <1>1, <1>2, <1>3, <1>4, <1>6
    DEF ClientStep, BeginWrite, BeginRemove, BeginBind, BeginExternal, ExtCheckOwner, AbortRequest
  <1>7. CASE AgentStep(t)
    <2>1. CASE WorkerFinalize(t)
      BY <1>1, <2>1 DEF WorkerFinalize
    <2>2. CASE ~WorkerFinalize(t)
      BY <1>1, <1>7, <2>2
      DEF AgentStep, StartFails, UseLiveSession, StartRefresh, ReloadSession, EnqueueRefresh,
          RefreshOk, RefreshFails, OrphanOk, EnqueueRemove, DeleteLocally,
          RemoveAgreed, ReplyEnds, AfterLive
    <2> QED
      BY <2>1, <2>2
  <1>8. CASE HubStep(t)
    <2>1. CASE Reserve(t) \/ Release(t) \/ SendCreateRun(t)
      BY <1>0, <1>1, <1>2, <2>1 DEF Reserve, Release, SendCreateRun
    <2>2. CASE CloseRun(t) \/ CloseLocal(t) \/ DeleteLocal(t) \/ ExtCreateRun(t) \/ ExtFinalize(t)
      BY <1>1, <2>2 DEF CloseRun, CloseLocal, DeleteLocal, ExtCreateRun, ExtFinalize
    <2>3. CASE \/ CancelMark(t) \/ CancelReadRuntime(t) \/ CancelClaim(t) \/ CancelRollback(t)
               \/ CancelSpawn(t)
      BY <1>1, <1>2, <2>3 DEF CancelMark, CancelReadRuntime, CancelClaim, CancelRollback, CancelSpawn
    <2>4. CASE AcquireRunLease(t)
      BY <1>1, <2>4 DEF AcquireRunLease
    <2>5. CASE StorePrompt(t)
      BY <1>1, <2>5 DEF StorePrompt
    <2>6. CASE CompleteRun(t)
      BY <1>1, <2>6 DEF CompleteRun
    <2> QED
      BY <1>8, <2>1, <2>2, <2>3, <2>4, <2>5, <2>6 DEF HubStep
  <1> QED
    BY <1>5, <1>6, <1>7, <1>8, MovesItself

\* The generation a turn has published is the newest of its conversation, for
\* nobody else inserts while it has the lease.
LEMMA GenInductive == LeaseInv /\ GenBounds /\ [Next]_vars => GenBounds'
  <1> SUFFICES ASSUME LeaseInv, LeaseInv', GenBounds, [Next]_vars, NEW t \in Tasks, task'[t].pc \in TurnPcs
               PROVE  runtime'[task'[t].conv].gen <= task'[t].gen
    BY LeaseInductive DEF GenBounds, TurnPcs
  <1>0. /\ runtime \in [Convs -> [state : {"absent", "live", "cancelling"}, gen : Nat]]
        /\ task \in [Tasks -> Requests] /\ nextGen \in Nat
    BY DEF LeaseInv, HubTypeOK
  <1>1. CASE task'[t].pc = "message" /\ AcquireRunLease(t)
             /\ task'[t].gen = nextGen + 1 /\ task'[t].conv = task[t].conv
    <2>1. task[t].conv \in Convs
      BY <1>1, OwnerFacts DEF AcquireRunLease, At, Ends
    <2>2. runtime'[task[t].conv].gen = nextGen + 1
      BY <1>0, <1>1, <2>1 DEF AcquireRunLease, InsertLive
    <2> QED
      BY <1>0, <1>1, <2>2
  <1>2. CASE task[t].pc \in TurnPcs /\ task'[t].gen = task[t].gen /\ task'[t].conv = task[t].conv
             /\ ~AcquireRunLease(t)
    <2> DEFINE c == task[t].conv
    <2>1. c \in Convs /\ ops[c].tok = t /\ runtime[c].gen <= task[t].gen /\ task[t].gen \in Nat
      BY <1>2, OwnerFacts DEF TurnPcs, Ends, LeasePcs, GenBounds
    <2>2. ASSUME NEW u \in Tasks, RefreshOk(u) \/ AcquireRunLease(u), task[u].conv = c PROVE FALSE
      <3>1. u = t
        BY <2>1, <2>2, OwnerFacts DEF RefreshOk, AcquireRunLease, At, LeasePcs
      <3> QED
        BY <1>2, <2>2, <3>1 DEF RefreshOk, At, TurnPcs
    <2>3. runtime'[c].gen = runtime[c].gen \/ runtime'[c].gen = 0
      BY <2>1, <2>2, RuntimeMoves DEF NoEntry
    <2> QED
      BY <1>0, <1>2, <2>1, <2>3
  <1>3. CASE task'[t] = task[t]
    <2>1. ~AcquireRunLease(t)
      BY <1>0, <1>3, AdvanceFacts DEF AcquireRunLease, At
    <2> QED
      BY <1>2, <1>3, <2>1
  <1>4. CASE task'[t] # task[t]
    <2>1. AcquireRunLease(t) => task[t].pc = "lease"
      BY DEF AcquireRunLease, At
    <2> QED
      BY <1>1, <1>2, <1>4, <2>1, TurnMoves DEF TurnPcs, Ends
  <1> QED
    BY <1>3, <1>4

\* While a cancel request is in its critical section the turn it cancels has
\* not been finalised by its worker, which waits for the mutex.
CriticalTurn ==
  \A t \in Tasks : task[t].pc \in CriticalPcs => task[task[t].target].pc \in {"lease", "message", "worker"}

\* The worker needs the mutex to finalise, and nothing else ends the turn.
LEMMA TurnWaits ==
  ASSUME StoreReliable
  PROVE  OwnInv /\ RunInFlight /\ CancelLock /\ CriticalTurn /\ [Next]_vars => CriticalTurn'
  <1> SUFFICES ASSUME OwnInv, RunInFlight, CancelLock, CriticalTurn, [Next]_vars,
                      NEW u \in Tasks, task'[u].pc \in CriticalPcs
               PROVE  task'[task'[u].target].pc \in {"lease", "message", "worker"}
    BY DEF CriticalTurn
  <1>0. task \in [Tasks -> Requests] /\ LeaseInv /\ SlotHeld /\ ExternalPlaced /\ NoTask \notin Tasks
    BY HubAssumption DEF LeaseInv, HubTypeOK, OwnInv, OwnPart, Tasks
  <1>1. ~CrashRestart
    BY <1>0 DEF CrashRestart, Answered, Request, Ends, CriticalPcs
  <1>2. CASE CancelMark(u) /\ SnapshotHolds(u) /\ RequestRunCancelCas(task[u].target, task[u].conv)
             /\ task'[u].target = task[u].target /\ task[u].pc = "mark"
    <2> DEFINE r == task[u].target
    <2>1. /\ r \in Tasks /\ task[u].conv \in Convs /\ ops[task[u].conv].tok = r
          /\ ops[task[u].conv].kind = "prompt" /\ runs[r].status = "running"
      BY <1>0, <1>2, OwnerFacts
      DEF SnapshotHolds, RequestRunCancelCas, TransitionRunCancelState, LeaseInv, RequestsPlaced, Ends
    <2>2. task[r].pc \in FlightPcs /\ task[r].conv = task[u].conv
      BY <1>0, <2>1 DEF RunInFlight, SlotHeld, Tasks
    <2>3. OpKind(task[r].kind) = "prompt"
      BY <1>0, <2>1, <2>2 DEF LeaseInv, LeaseHeld, FlightPcs, LeasePcs
    <2>4. task[r].pc \in {"lease", "message", "worker"}
      BY <1>0, <2>1, <2>2, <2>3 DEF ExternalPlaced, OpKind, FlightPcs
    <2>5. r # u
      BY <1>2, <2>4
    <2>6. task'[r] = task[r]
      BY <1>0, <1>2, <2>1, <2>5, OneMoves DEF HubStep
    <2> QED
      BY <1>2, <2>4, <2>6
  <1>3. CASE task[u].pc \in CriticalPcs /\ task'[u].target = task[u].target
    <2> DEFINE r == task[u].target
    <2>1. r \in Tasks /\ task[r].pc \in {"lease", "message", "worker"} /\ opsLock = u
      BY <1>0, <1>3 DEF CriticalTurn, CancelLock, LeaseInv, RequestsPlaced, CriticalPcs
    <2>2. ~LockFree /\ ~Fails("message")
      BY <1>0, <2>1 DEF LockFree, StoreReliable, Fails
    <2> QED
      BY <1>0, <1>1, <1>3, <2>1, <2>2, TurnMoves DEF TurnPcs
  <1>4. CASE task'[u] # task[u]
    <2>1. ClientStep(u) \/ HubStep(u) \/ AgentStep(u)
      BY <1>0, <1>1, <1>4, MovesItself
    <2> QED
      BY <1>0, <1>2, <1>3, <1>4, <2>1, SectionMoves DEF CriticalPcs, Ends
  <1> QED
    BY <1>3, <1>4

\* Only a cancel request puts the cache in the state Cancelling, and the turn
\* leaves its lease only after it has put it back.
LEMMA CancellingInductive ==
  OwnInv /\ CancelLock /\ CriticalTurn /\ GenBounds /\ CancellingHeld /\ [Next]_vars => CancellingHeld'
  <1> SUFFICES ASSUME OwnInv, CancelLock, CriticalTurn, GenBounds, CancellingHeld, [Next]_vars,
                      NEW c \in Convs, runtime'[c].state = "cancelling"
               PROVE  ops'[c].tok # NoTask /\ task'[ops'[c].tok].pc \in {"lease"} \cup TurnPcs
    BY DEF CancellingHeld, TurnPcs
  <1>0. /\ LeaseInv /\ SlotHeld /\ NoTask \notin Tasks /\ ops \in [Convs -> Operations]
        /\ runtime \in [Convs -> [state : {"absent", "live", "cancelling"}, gen : Nat]]
        /\ task \in [Tasks -> Requests]
    BY HubAssumption DEF OwnInv, OwnPart, LeaseInv, HubTypeOK, Tasks
  <1>1. CASE runtime'[c] # runtime[c]
    <2>1. PICK t \in Tasks : CancelClaim(t) /\ task[t].pc = "claim" /\ task[t].conv = c
      BY <1>0, <1>1, RuntimeMoves DEF NoEntry
    <2> DEFINE r == task[t].target
    <2>2. ops[c].tok = r /\ task[r].pc \in {"lease", "message", "worker"} /\ r \in Tasks
      BY <1>0, <2>1 DEF CancelLock, CriticalTurn, CriticalPcs, LeaseInv, RequestsPlaced
    <2>3. r # t
      BY <2>1, <2>2
    <2>4. task'[r] = task[r]
      BY <1>0, <2>1, <2>2, <2>3, OneMoves DEF HubStep
    <2>5. ops'[c].tok = r
      BY <1>0, <2>1, <2>2 DEF CancelClaim, opVars, Operations
    <2> QED
      BY <1>0, <2>2, <2>4, <2>5 DEF TurnPcs
  <1>2. CASE runtime'[c] = runtime[c]
    <2> DEFINE r == ops[c].tok
    <2>1. r \in Tasks /\ task[r].pc \in {"lease"} \cup TurnPcs /\ task[r].conv = c
      BY <1>0, <1>2 DEF CancellingHeld, SlotHeld, Operations, TurnPcs
    <2>2. ~CrashRestart
      BY <1>2 DEF CrashRestart, NoEntry
    <2>3. ~CompleteRun(r)
      <3> SUFFICES ASSUME CompleteRun(r) PROVE FALSE
        OBVIOUS
      <3>1. runtime[c].gen <= task[r].gen
        BY <2>1 DEF CompleteRun, At, GenBounds
      <3>2. runtime'[c].state = "live"
        BY <1>0, <1>2, <2>1, <3>1 DEF CompleteRun, Transition, CanTransition
      <3> QED
        BY <3>2
    <2>4. task'[r].pc \in {"lease"} \cup TurnPcs
      BY <1>0, <2>1, <2>2, <2>3, TurnMoves DEF TurnPcs
    <2>5. ops'[c].tok = r
      <3>1. ASSUME NEW t \in Tasks, Release(t), task[t].conv = c PROVE FALSE
        <4>1. t = r
          BY <1>0, <3>1, OwnerFacts DEF Release, At, LeasePcs
        <4> QED
          BY <2>1, <3>1, <4>1 DEF Release, At, TurnPcs
      <3>2. ASSUME NEW t \in Tasks, Reserve(t), task[t].conv = c, ops'[c] # ops[c] PROVE FALSE
        <4>1. ops[c] = NoOp
          BY <3>2 DEF Reserve, Reservable
        <4> QED
          BY <1>0, <2>1, <4>1 DEF NoOp
      <3>3. ASSUME NEW t \in Tasks, Release(t), ops'[c] # ops[c] PROVE task[t].conv = c
        BY <1>0, <3>3 DEF Release
      <3>4. ASSUME NEW t \in Tasks, Reserve(t), ops'[c] # ops[c] PROVE task[t].conv = c
        BY <1>0, <3>4 DEF Reserve
      <3>5. ASSUME NEW t \in Tasks, CancelClaim(t) PROVE ops'[c].tok = ops[c].tok
        BY <1>0, <3>5 DEF CancelClaim, opVars, Operations
      <3> QED
        BY <1>0, <2>2, <3>1, <3>2, <3>3, <3>4, <3>5, TableMoves
    <2> QED
      BY <1>0, <2>1, <2>4, <2>5
  <1> QED
    BY <1>1, <1>2

\* The store answers the supervisor, and no client goes away between the
\* acknowledgement of its cancellation and the start of the supervisor.
SupervisorReliable == StoreFaults \cap {"sleeping", "expire"} = {} /\ ~ClientAborts

\* How the request that will start a supervisor, and the supervisor, move.
LEMMA SpawnMoves ==
  ASSUME SupervisorReliable, LeaseInv, [Next]_vars, NEW t \in Tasks, task[t].pc = "spawn",
         task'[t] # task[t], ~CrashRestart
  PROVE  sup'[task[t].target].pc = "sleeping"
  <1>0. sup \in [Runs -> [pc : {"none", "sleeping", "expire", "expired", "settle", "done"}, gen : Nat]]
        /\ task[t].target \in Runs
    BY DEF LeaseInv, HubTypeOK, RequestsPlaced, Tasks
  <1>1. ~ClientStep(t)
    BY DEF ClientStep, BeginWrite, BeginRemove, BeginBind, BeginExternal, BeginCancel, StartTask,
           ExtCheckOwner, AbortRequest, At, SupervisorReliable
  <1>2. ~AgentStep(t)
    BY DEF AgentStep, StartFails, UseLiveSession, StartRefresh, ReloadSession, At,
           RefreshOk, RefreshFails, OrphanOk, WorkerFinalize, EnqueueRemove, DeleteLocally,
           RemoveAgreed, ReplyEnds
  <1>3. HubStep(t)
    BY <1>1, <1>2, MovesItself
  <1>4. CancelSpawn(t)
    BY <1>3 DEF HubStep, Reserve, Release, SendCreateRun, AcquireRunLease, StorePrompt, CompleteRun,
       CancelMark, CancelReadRuntime, CancelClaim, CancelRollback, CloseRun, CloseLocal, DeleteLocal,
       ExtCreateRun, ExtFinalize, At
  <1> QED
    BY <1>0, <1>4 DEF CancelSpawn, SupGoto

\* A supervisor stands by while its run is marked.
LEMMA SupervisorStays ==
  ASSUME SupervisorReliable, LeaseInv, [Next]_vars, ~CrashRestart, NEW r \in Runs,
         sup[r].pc \in {"sleeping", "expire"},
         runs[r].status = "cancelling", runs'[r].status = "cancelling"
  PROVE  sup'[r].pc \in {"sleeping", "expire"}
  <1>0. sup \in [Runs -> [pc : {"none", "sleeping", "expire", "expired", "settle", "done"}, gen : Nat]]
        /\ runs \in [Runs -> RunRows]
    BY DEF LeaseInv, HubTypeOK, StoreInv, StoreTypeOK
  <1>1. ASSUME NEW q \in Runs, NEW pc, NEW gen, SupGoto(q, pc, gen)
        PROVE  sup'[r] = sup[r] \/ (q = r /\ sup'[r].pc = pc)
    BY <1>0, <1>1 DEF SupGoto
  <1>2. ASSUME NEW q \in Tasks, SupervisorStep(q)
        PROVE  sup'[r].pc \in {"sleeping", "expire"}
    <2>1. CASE SupervisorCheck(q)
      <3>1. SupGoto(q, IF runs[q].status = "cancelling" THEN "expire" ELSE "done", 0)
        BY <2>1 DEF SupervisorCheck, Fails, SupervisorReliable
      <3> QED
        BY <1>1, <3>1 DEF Tasks
    <2>2. CASE SupervisorExpire(q)
      <3>1. q # r
        <4> SUFFICES ASSUME q = r PROVE FALSE
          OBVIOUS
        <4>1. CasHits(r, runs[r].conv) /\ ~Fails("expire")
          BY DEF CasHits, Fails, SupervisorReliable
        <4>2. PICK stop : FinalizeRunCas(r, runs[r].conv, "cancelled", stop)
          BY <2>2, <4>1 DEF SupervisorExpire
        <4> QED
          BY <1>0, <4>2 DEF FinalizeRunCas
      <3> QED
        BY <1>1, <2>2, <3>1 DEF SupervisorExpire, Tasks
    <2>3. CASE SupervisorReadRuntime(q) \/ SupervisorSettle(q)
      BY <1>1, <2>3 DEF SupervisorReadRuntime, SupervisorSettle, Tasks
    <2> QED
      BY <1>2, <2>1, <2>2, <2>3 DEF SupervisorStep
  <1>3. ASSUME NEW t \in Tasks, CancelSpawn(t)
        PROVE  sup'[r].pc \in {"sleeping", "expire"}
    <2>1. task[t].target \in Runs
      BY <1>3 DEF CancelSpawn, At, LeaseInv, RequestsPlaced, Tasks
    <2> QED
      BY <1>1, <1>3, <2>1 DEF CancelSpawn
  <1>4. UNCHANGED sup \/ (\E q \in Tasks : SupervisorStep(q)) \/ (\E t \in Tasks : CancelSpawn(t))
    <2>1. ASSUME NEW t \in Tasks, ClientStep(t) PROVE UNCHANGED sup
      BY <2>1 DEF ClientStep, BeginWrite, BeginRemove, BeginBind, BeginExternal, BeginCancel,
         ExtCheckOwner, AbortRequest
    <2>2. ASSUME NEW t \in Tasks, AgentStep(t) PROVE UNCHANGED sup
      BY <2>2 DEF AgentStep, StartFails, UseLiveSession, StartRefresh, ReloadSession,
         RefreshOk, RefreshFails, OrphanOk, WorkerFinalize, EnqueueRemove, DeleteLocally,
         RemoveAgreed, ReplyEnds
    <2>3. ASSUME NEW t \in Tasks, HubStep(t), ~CancelSpawn(t) PROVE UNCHANGED sup
      BY <2>3 DEF HubStep, Reserve, Release, SendCreateRun, AcquireRunLease, StorePrompt,
         CompleteRun, CancelMark, CancelReadRuntime, CancelClaim, CancelRollback, CloseRun,
         CloseLocal, DeleteLocal, ExtCreateRun, ExtFinalize
    <2> QED
      BY <2>1, <2>2, <2>3 DEF Next, Discover, ConnectionLost, vars
  <1> QED
    BY <1>2, <1>3, <1>4

\* The supervisor, or the request that starts it, stays until the run has ended.
LEMMA SupervisedInductive ==
  ASSUME SupervisorReliable
  PROVE  LeaseInv /\ CancelLock /\ FlagOk /\ CancelSupervised /\ [Next]_vars => CancelSupervised'
  <1> SUFFICES ASSUME LeaseInv, CancelLock, FlagOk, CancelSupervised, [Next]_vars,
                      NEW c \in Convs, ops'[c].cancel, runs'[ops'[c].tok].status = "cancelling"
               PROVE  \/ sup'[ops'[c].tok].pc \in {"sleeping", "expire"}
                      \/ \E t \in Tasks : task'[t].pc = "spawn" /\ task'[t].target = ops'[c].tok
    BY DEF CancelSupervised, At
  <1>0. ops \in [Convs -> Operations] /\ task \in [Tasks -> Requests] /\ SlotsOwned
    BY DEF LeaseInv, HubTypeOK
  <1>1. ops'[c] # NoOp
    BY DEF NoOp
  <1>2. ~CrashRestart
    BY <1>1 DEF CrashRestart
  <1>3. ASSUME NEW t \in Tasks, CancelClaim(t), task[t].pc = "claim", task[t].conv = c,
               ops'[c] = [ops[c] EXCEPT !.cancel = TRUE], Goto(t, "spawn")
        PROVE  task'[t].pc = "spawn" /\ task'[t].target = ops'[c].tok
    <2>1. ops[c].tok = task[t].target /\ ops'[c].tok = ops[c].tok
      BY <1>0, <1>3 DEF CancelLock, CriticalPcs, Operations
    <2> QED
      BY <1>0, <1>3, <2>1, AdvanceFacts DEF Goto
  <1>4. CASE ops'[c] = ops[c]
    <2> DEFINE r == ops[c].tok
    <2>1. r \in Runs /\ runs[r].status \in TerminalStatuses \cup {"cancelling"}
      BY <1>0, <1>4 DEF FlagOk, SlotsOwned, Tasks
    <2>2. runs[r].status = "cancelling"
      BY <1>4, <2>1, RunRowMoves DEF RunMoves
    <2>3. CASE sup[r].pc \in {"sleeping", "expire"}
      BY <1>2, <1>4, <2>1, <2>2, <2>3, SupervisorStays
    <2>4. ASSUME NEW t \in Tasks, task[t].pc = "spawn", task[t].target = r
          PROVE  \/ sup'[r].pc \in {"sleeping", "expire"}
                 \/ task'[t].pc = "spawn" /\ task'[t].target = r
      BY <1>2, <2>4, SpawnMoves
    <2> QED
      BY <1>4, <2>2, <2>3, <2>4 DEF CancelSupervised, At
  <1>5. ASSUME NEW t \in Tasks,
               ops'[c] = [tok |-> t, kind |-> OpKind(task[t].kind), cancel |-> FALSE]
        PROVE  FALSE
    BY <1>5
  <1>6. CASE ops'[c] # ops[c]
    <2>1. PICK t \in Tasks : /\ CancelClaim(t) /\ task[t].pc = "claim" /\ task[t].conv = c
                             /\ ops'[c] = [ops[c] EXCEPT !.cancel = TRUE] /\ Goto(t, "spawn")
      BY <1>1, <1>5, <1>6, SlotMoves
    <2> QED
      BY <1>3, <2>1
  <1> QED
    BY <1>4, <1>6

\* If the store answers and no client goes away before its supervisor has been
\* started, an acknowledged cancellation of a run in flight has a supervisor, and
\* no conversation without an operation is left in the runtime state Cancelling.
THEOREM CancellationsAreTidy ==
  ASSUME StoreReliable, SupervisorReliable
  PROVE  Spec => []CancelTidy
  <1> DEFINE TidyInv == HubInv /\ GenBounds /\ CriticalTurn /\ CancellingHeld /\ CancelSupervised
  <1>1. Init => TidyInv
    <2> SUFFICES ASSUME Init PROVE GenBounds /\ CriticalTurn /\ CancellingHeld /\ CancelSupervised
      BY HubInit
    <2> QED
      BY DEF Init, GenBounds, CriticalTurn, CancellingHeld, CancelSupervised, NoOp, NoEntry, Idle,
             Request, CriticalPcs
  <1>2. TidyInv /\ [Next]_vars => TidyInv'
    <2> SUFFICES ASSUME TidyInv, [Next]_vars PROVE TidyInv'
      OBVIOUS
    <2>1. HubInv' /\ OwnInv /\ LeaseInv /\ RunInFlight /\ CancelLock /\ FlagOk
      BY HubInductive DEF HubInv, OwnInv
    <2>2. GenBounds' /\ CriticalTurn'
      BY <2>1, GenInductive, TurnWaits
    <2>3. CancellingHeld' /\ CancelSupervised'
      BY <2>1, CancellingInductive, SupervisedInductive
    <2> QED
      BY <2>1, <2>2, <2>3
  <1>3. TidyInv => CancelTidy
    BY DEF CancellingHeld, CancelTidy, RuntimeNotStuck, NoOp
  <1> QED
    BY <1>1, <1>2, <1>3, PTL DEF Spec
=============================================================================
