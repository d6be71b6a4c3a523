# TLA+ models of ACP Hub

ACP Hub (`crates/hub`, `crates/cli`) is a local daemon that multiplexes command
line, MCP and library clients onto coding agents speaking the Agent Client
Protocol. It keeps a SQLite projection of every conversation and drives prompt
turns, cancellations, closes, deletes and session refreshes on behalf of many
clients at once. This directory holds TLA+ models of its concurrent core, the
TLC configurations that check them and TLAPS proofs of their main properties.
Paths below are relative to `crates/hub/src` unless they start with `src/`.

## 1. Inventory

| Component | State | Operations | What is hard |
|---|---|---|---|
| Projection store, lifecycle (`store/lifecycle.rs`, `store.rs`, `store/conversation_policy.rs`) | `conversations` (origin, interaction, phase, busy, last_outcome, status), `runs` | create, run creation, finalisation (compare-and-set), cancel mark and its rollback, close, delete, bind promotion, discovery, recovery | a dozen statements write overlapping columns; endings race; recovery after a crash |
| Projection store, replay (`store/replay.rs`) | durable marker and before-images of a refresh, message layers, projection generation | begin, capture, commit, rollback, recover | partial failure, crash in the middle, restoring columns others have written, updates stored after their load has ended |
| Store queries (`store/paging.rs`, `snapshots.rs`, `transcript_view.rs`) and `hub/wait.rs` | cursors handed to clients | pages, search, transcripts, wait | a projection that changes between two pages; the end of a run between two polls |
| Operation leases (`hub/state.rs`) | `operations` map under a mutex, session identities, replay locks | reserve, release, external runs | one operation per conversation, one prompt per agent, release on every path |
| Runtime cache (`runtime.rs`) | session state and generation per conversation, `RunLease` | insert, transition, remove | stale generations, marks left behind |
| Turns and cancellation (`hub/prompt.rs`) | workers and cancel supervisors | `send_prompt`, `cancel`, `set_param`, `set_mode` | cancel vs. late answer vs. supervisor vs. new turn; client aborts |
| Close and delete (`hub/lifecycle.rs`) | workers | `close_conversation`, `delete_conversation` | values read before the lease; remote half failing |
| Bind, refresh, external runs (`hub/conversation.rs`) | refresh workers | `create_conversation`, `ensure_live_session`, `create_run`, `finalize_run` | promotion before reservation; torn-down requests |
| Registry and handles (`hub/registry.rs`) | `agents.json`, its copy in memory, epoch, handle table, initialiser locks | add and remove agents and proxies, `agent_handle` | check-then-act, publication of an outdated connection, partial save |
| Callback context (`callbacks/*.rs`) | bindings, current runs, pending queues, creation quarantine, budgets, failure ledger, generation gates | bind, unbind, configure, revoke, capture, publish | notifications before the row exists, limits, revoked generations |
| Terminals (`callbacks/terminal.rs`) | terminal table, child processes | create, output, kill, release, wait, retire | creation against unbinding, quotas checked twice, a child reaped by somebody else |
| ACP connection (`acp.rs`, `acp/*.rs`) | command queue | command loop | stale commands, lost answers |
| Daemon (`daemon.rs`, `endpoint.rs`) | lock file, metadata, socket, activity counters | serve, ensure, spawn, idle exit | two daemons, idle exit vs. new client, recovery vs. a live worker |
| RPC (`daemon/rpc_io.rs`, `rpc.rs`) | pending calls, frame slots, permits, byte budgets, writer | request, admit, dispatch, answer, abort | lost answers, timeouts, exhausted limits, calls registered while the connection ends |
| Bounded transport (`bounded_transport*.rs`) | inbound ledger, POST lanes and their budget | read, admit, forward, acknowledge, post | returning what was reserved, callbacks answered while a prompt is open |
| Clients, CLI, MCP, adapters | none shared | forwarding, formatting | - |

The pieces meet as follows. An RPC arrives in `daemon/rpc_io.rs`, is dispatched
to `CoreHub`, which reads the row from the store, reserves an operation in the
lease table, obtains the agent's handle, makes sure the session is live (perhaps
through a replay refresh) and sends a command to the agent's command loop. From
then on a spawned worker owns the lease: it awaits the agent's answer, updates
the store and releases the lease. If the client's connection breaks, its
requests are aborted at their next await while workers go on. Agent
notifications reach the store through the callback context, keyed by session
binding and current run. `PROJECT.json` lists the hazards of this design, each
with its line and the properties that cover it.

## 2. Modules

| Module | Models |
|---|---|
| `RunStore` | the conversation and run rows and the replay marker; one action per transaction; `StoreSpec` allows every transaction at every moment |
| `HubOps` (extends `RunStore`) | `CoreHub`'s operations over the store, the runtime cache, the callback bindings, the cancel supervisors, lost clients and the restart of the daemon |
| `Turns` | abstract: one holder and one turn per conversation, one prompt per agent; `HubOps` refines it |
| `AgentRegistry` | `agent_handle`, the connection task and its command loop, the generation gate and `mutate_registry` |
| `Projection` | the stored history of one conversation: capture, refresh, recovery, paged reads, wait |
| `LayeredHistory` | abstract: the two layers of a history and its snapshots, replaced as a whole; `Projection` refines it |
| `Capture` | notifications of one agent connection around the creation, binding, use and unbinding of sessions |
| `Terminals` | terminals of agents and their retirement |
| `Daemon` | lock, metadata and socket of one home, its clients and daemons |
| `Singleton` | abstract: at most one daemon serves; `Daemon` refines it |
| `Rpc` | RPC connections at both ends and the limits they share |
| `Transport` | the bounded transport between the hub and one agent, its three legs |
| `MC*` | the instances TLC checks |
| `SumTheorems` | lemmas on sums over finite sets (`MapThenSumSet`), used by `TransportProofs` and `CaptureProofs` |
| `HubOpsProofs` (`RunStore` and `HubOps`), `AgentRegistryProofs`, `DaemonProofs`, `RpcProofs`, `TerminalsProofs`, `CaptureProofs`, `TransportProofs` | theorems on the module of that name, with the inductive invariants they need |

Each module cuts the system at a seam of the code: what lies beyond is a
nondeterministic environment (agents, clients, operating system, store errors).
`HubOps` composes the hub with the store by extending `RunStore`: it writes the
tables by the transactions of that module and by nothing else, so the store's
theorems hold of it. The others meet through the operation leases `HubOps` establishes,
which they take as guards.

### RunStore

`convs`, `runs` and `replay` are the tables `conversations`, `runs` and the
replay markers. Every store call is one immediate transaction on one connection,
hence atomic. `CreateRun`, `FinalizeRunCas`, `TransitionRunCancelState` (cancel
request and rollback), `CloseConversationLocal`, `DeleteConversation`,
`PromoteConversationBind`, `UpsertAgentSessionDiscover`, `BeginLoadReplay`,
`CommitLoadReplay`, `RollbackLoadReplay` and `RecoverAtStart` carry the names of
the functions they translate. A call that returns without writing (a missed
compare-and-set, a conflict) is no step here; the caller's branch for it is in
`HubOps`. The two transactions of a start-up, which rolls interrupted refreshes
back and then fails interrupted runs, are the one step `RecoverAtStart`: nothing
else runs between them, and a crash there is followed by both again. Titles,
directories, timestamps and messages are dropped; session
metadata is reduced to the verdict `recompute_interaction` takes from it. A
conversation id stands for its (agent, session) pair, which the schema makes
unique.

### HubOps

A request is a task with a program counter (`task[t].pc`); a step lies between
two awaits, unlocks or store transactions. One identifier serves as request,
operation token and run id, since the code draws fresh UUIDs for all three.

| Code | Actions |
|---|---|
| gate and first read of a request | `BeginWrite`, `BeginRemove`, `BeginBind`, `BeginCancel`, `BeginExternal` |
| `reserve_operation`, `reserve_external_run`, lease drop | `Reserve`, `Release` |
| `agent_handle`, capability checks, queue | `StartFails`, `EnqueueRemove` |
| `ensure_live_session`, `refresh_session_projection_owned` | `UseLiveSession`, `StartRefresh`, `ReloadSession`, `RefreshOk`, `RefreshFails`, `OrphanOk` |
| `send_prompt` and its worker | `SendCreateRun`, `AcquireRunLease`, `StorePrompt`, `WorkerFinalize`, `CompleteRun` |
| `cancel` | `CancelMark`, `CancelReadRuntime`, `CancelClaim`, `CancelRollback`, `CancelSpawn` |
| `force_finalize_if_still_cancelling` | `SupervisorCheck`, `SupervisorExpire`, `SupervisorReadRuntime`, `SupervisorSettle` |
| `close_conversation`, `delete_conversation` | `RemoveAgreed`, `ReplyEnds`, `CloseRun`, `CloseLocal`, `DeleteLocally`, `DeleteLocal` |
| `create_run`, `finalize_run` | `ExtCreateRun`, `ExtCheckOwner`, `ExtFinalize` |
| `list_agent_sessions`, `revoke_connection`, `handle_client_io`, `serve` | `Discover`, `ConnectionLost`, `AbortRequest`, `CrashRestart` |

`cancel` holds the operations mutex over several store and cache calls, so
`opsLock` names its holder and the actions that take the mutex are guarded by
`LockFree`; critical sections with a single effect are one step. Agents are
nondeterministic: each awaited answer may be any outcome the code tells apart.
`StoreFaults` names the program counters at which the store call may return an
error, `ClientAborts` switches the teardown of clients on, `MaxCrashes` bounds
the restarts. Replay locks are not represented: the operation lease already
serialises the refreshes of a conversation that the model contains.

`Turns` is what all this is for, without locks, transactions, workers or
supervisors: a conversation has one holder, which alone begins, marks and ends
its turn and lets go only when the turn is over; a cancellation that was
acknowledged is not taken back; a restart ends every turn as failed. The mapping
takes the operations table for the slot and the run row of a request for its
turn. In the code these are two structures, one in memory and one on disk,
written at different times by the request, its worker, cancels, supervisors and
external owners; `ImplementsTurns` says that they agree at every step.

### AgentRegistry

`registry`, `fingerprint` and `epoch` are the daemon's copy of `agents.json`,
`disk` is the file (its fingerprint, which covers the modification time, is a
stamp that changes with every write). `handles`, `initLock` and `connections`
are `CoreHub.handles`, `handle_inits` and `HubCtx.agent_connections`. A
configuration is a model value; an agent in `Chained` also depends on the
proxy's configuration.

| Code | Actions |
|---|---|
| `agent_handle` | `FindHandle`, `SpawnConnection`, `InitFails`, `PublishHandle` |
| `enqueue_operation`, `request_agent` | `SendCommand`, `LoseReply` |
| `run_command_loop` | `StartCommand`, `EndCommand` (the loop runs one command at a time) |
| `spawn_agent_connection_with_flow` | `JoinGate`, `Configure`, `Initialized`, `Disconnect`, `BeginRevoke`, `EndRevoke` |
| callbacks under `try_acquire_connection_lease` | `StartCallback`, `EndCallback` |
| `mutate_registry` | `BeginMutation`, `TakeInitLocks`, `TakeWriters`, `GiveUp`, `SaveRegistry`, `PublishRegistry`, `Teardown`, `AbortTeardown` |

A generation gate is two read-write locks taken together by writers; `queue`
holds the connection tasks that wait for it in order, `writers` the agents whose
gate the mutation holds. The order of readers among the waiters is left open,
which only adds behaviours. The specification (`src/doc/dev/spec.md` §9) declares
edits of `agents.json` by other programs unsupported, so there are none.
This module is separate from `HubOps`: an operation is here one or several
commands to an agent, there an operation on a conversation; they meet in
`reject_active_agents` only.

### Projection and LayeredHistory

`rows` are the message rows in the order of `seq`, `gen` the projection
generation, `static` the snapshots (plan; commands and usage behave like it;
config; title and session meta as `info`), `marker` the refresh row with its
before image. An update is a number, which is also the time stamp of what it
writes; the one assumption is that stamps are fresh, and a `session/load` lies
between the two that `commit_load_replay_inner` compares. The conversation is
bound from the start; what the worker of a creation replays is in `Capture` only.
`since_seq` is always 0.

| Code | Actions |
|---|---|
| `capture_bound_notification` | `capture_read` (run and `is_loading` are read), `capture_write` (`append_message`, `set_snapshot`): anything may happen in between |
| `refresh_session_projection_owned`, `run_command_loop` | `begin_load_replay`, `load_session`, `load_response`, `load_done`, `commit_load_replay`, `rollback_load_replay` |
| `send_prompt` | `create_run`, `store_prompt_message`, `finalize_run`, `clear_current_run` |
| `serve`, `recover_interrupted_load_replays` | `restart` |
| `HubClient::messages` | `messages`, `read_page` over `messages_page_query` |
| `wait_run_with_emit`, `wait_run_via_client_with_emit` | `wait_run`, `page_run_rows`, `check_run`, `wait_timeout` |

`LayeredHistory` has the agent's layer, the hub's own layer, the replaced layers
kept for the audit, the snapshots and a draft. The refinement mapping reads them
off the rows: the marker's starting `seq` separates layer and draft, the before
image is what counts while a refresh is in progress.

### Capture

| Code | Actions |
|---|---|
| `handle_notification` and below | `handle_notification`, `capture_session_creation_notification`, `lookup_binding`, `enqueue_pending`, `capture_bound_notification` |
| the error path of `handle_notification` | a refusal (`refuse`, under the locks of the refusing step), `record_session_creation_capture_failure`, `record_refusal`: three steps |
| `create_conversation`, `SessionCreationCaptureLease` | `begin_session_creation_capture`, `create_session_response`, `finish_session_creation_capture`, `replay_session_creation_notification`, `record_replay_failure`, `creation_published`, `rollback_publication` |
| `bind_session`, `unbind_session`, `remove_agent_state` | `bind_start`, `bind_pop`, `bind_capture`, `bind_finish`, `unbind_session`, `remove_agent_state` |
| turns | `begin_capture_operation`, `response_arrives`, `take_capture_failure` |

Updates weigh one unit, so byte and count quotas coincide. A failed write of the
binder and its record are one step (`bind_capture`): no operation of the session
runs while it is being bound, and the next one starts with an empty ledger.

### Terminals

`terminal_create` and `terminal_insert` are the two halves of a creation,
between which the creator holds the read lock of the session map;
`unbind_start`, `retire_terminals`, `retire_cleanup` and `unbind_done` those of
an unbinding; `wait_poll` and `wait_record` the loop of `terminal/wait_for_exit`.
Output, its truncation and the reader threads are left out. The clean-up of a
terminal joins those threads with the terminal table locked
(`callbacks/terminal.rs:208`, under `:455` and `:479`): a process that has left the
killed group and keeps a pipe of the child open blocks the table. The model takes
it that the clean-up returns, and `WaitReturns` depends on that. Retirement when
a connection ends (`remove_agent_state`) is left out, and with one terminal per
session and two in all the two quotas differ only by the number of sessions.

### Daemon and Singleton

| Code | Actions |
|---|---|
| `ensure_daemon`, `poll_daemon_or_recover` | `ensure_daemon`, `read_metadata`, `connect`, `handshake`, `try_write`, `remove_stale_daemon_state`, `spawn_daemon`, `poll_timeout` |
| `serve` | `serve_lock`, `serve_lock_timeout`, `serve_clean`, `bind_listener`, `serve_recover`, `write_metadata`, `accept`, `serve_return`, `serve_error`, `cleanup_daemon_state`, `process_exit` |
| activity and idle exit | `start_run`, `run_lease`, `end_run`, `idle_elapsed`, `idle_wait`, `ctrl_c` |
| faults | `crash`, `client_crash`, `shutdown` |

`Singleton` knows only which daemon serves, which are done and who is served;
the mapping takes the daemon that holds the lock and serves as the owner.

### Rpc

At the daemon a reader (`read_slot`, `read_frame`, `read_eof`, `read_timeout`,
`send_frame`), the connection's loop (`recv_frame`, `write_overload_response`,
`join_next`, `close_connection`, `push`) and request tasks (`handle_rpc_line`,
`write_blocked`, `write_all`, `write_error`, `write_timeout`); at the client
`request_value`, `write_line`, `receive`, `request_timeout`, `reader_loop`,
`close_pending`, `die`. Semaphores are counted from their holders. A frame weighs
one byte. The hub's answer is a result, an error with typed data or an error
without, and a request in `Failing` may fail before or after its change was
applied. The client tells its caller `ok`, a typed error, a lost reply,
`unavailable` (nothing was sent or nothing came back) or `failed`: an error
without typed data, which `rpc_error_to_hub_error` reports as an unavailable
daemon too.

### Transport

`leg` is chosen in `Init`: stdio (`read_bounded_line`, `admit`, `stdio_write`,
`stdio_written`), WebSocket (`ws_inbound`, `ws_outbound`) or HTTP (`read_sse`,
`transfer_message`, `sse_send`, `http_event`, `http_outgoing`, `start_next`,
`post_arrives`, `post_done`, `post_fails`), whose first message has actions of its
own (`initialize` with its three outcomes, `initialize_fails`,
`not_initialized`). They share the ledger (`track`, `acknowledged`,
`release`) and the consumer (`on_receive_dispatch`, `respond`). The agent is an
environment that sends each message of a script at most once and may keep the
POST of a prompt open.

## 3. Runs

All bounds are in the `.cfg` files.

| Run | Instance | Shows |
|---|---|---|
| `store` (`MCRunStore.cfg`) | 1 conversation, 2 runs, any caller | `OneActiveRun`, `StoreConsistent` (`BusyHasRun`, `DeletedIsQuiet`, `OutcomeHasRun`); steps: `StatusKept`, `TerminalRunsFrozen`, `OriginNeverDowngraded` |
| `hub_core` (`MCHubCore.cfg`) | 1 conversation, 3 requests of any kind, 1 crash | `WorkOwned` (`ActiveRunIsOwned`, `MarkerOwned`), `HubMatchesStore` (`BusyIffActive`, `CancelFlagMatchesStore`); refinement `ImplementsTurns` |
| `hub_cancel` (`MCHubCancel.cfg`) | 1 conversation, 3 sends and cancels, `HubFairSpec` | `CancelTidy` (`CancelSupervised`, `RuntimeNotStuck`); `CancelResolves`: an acknowledged cancellation ends without the agent |
| `hub_faults` (`MCHubFaults.cfg`) | 2 conversations of one agent, 3 requests, every store call may fail, clients vanish | `LeaseExclusive`, `OneTurnPerAgent`, `CurrentRunOwned` |
| `hub_live` (`MCHubLive.cfg`) | 3 sends, cancels and closes, faults and lost clients, `AgentFairSpec` | `RequestsEnd`: every request ends, nothing blocks for ever |
| `registry` (`MCRegistry.cfg`) | 1 agent behind a proxy, 2 requests, 2 connections, 1 mutation, clients vanish | `CommandsCurrent`, `ServedIsDisk`, `RegistryInv` (unless the mutation was cut off `HandleCurrent`, `HandleConfigured`); steps: `NoCommitUnderCommand` |
| `daemon` (`MCDaemon.cfg`) | 2 clients, 2 daemons, room for 1 client, 2 faults, `FairSpec` | `DaemonInv` (`ServingReachable`), `LiveRunKeepsRow`; steps: `IdleExitSparesWork`; `StartupConverges`; refinement `ImplementsSingleton` |
| `rpc` (`MCRpc.cfg`) | 2 connections, 2 requests, of which the registry change may fail before or after it is made, 1 notification, every limit 1 or 2, 1 death, `FairSpec` | `RpcInv` (`NoOrphanPending`), `OutcomeHonest`; `CallsReturn` |
| `transport` (`MCTransport.cfg`) | 6 messages of the agent, 4 of the hub, all legs, `FairSpec` | `BudgetsExact` (`LedgerExact`, `PostBudgetExact`), `NeverUndercounts`, `WithinLimitsKept`; `CallbacksAnswered` |
| `capture` (`MCCapture.cfg`) | 1 new and 1 known session, 4 updates, limits 2 and 3, 1 fault, 2 turns | `CaptureInv` (`QuotaExact`), `UpdatesExactlyOnce`, `PublicationHonest`, `RefusedUpdateFailsTurn`; steps: `DrainComplete` |
| `terminals` (`MCTerminals.cfg`) | 2 sessions, 2 terminals, quota 1, 2 failed kills, `FairSpec` | `TerminalsInv` (`TerminalQuota`, `ClosedHasNoTerminal`, `ExitRecorded`); `WaitReturns` |
| `projection` (`MCProjection.cfg`) | 3 updates, 2 refreshes, 2 turns, 1 fault, pages of one row, the third row above the page budget | steps: `HistoryStable` (`CursorStable`), `ReadsWhole` (`MessagesWhole`, `WaitWhole`); refinement `ImplementsLayers` |

A property followed by names in brackets is the conjunction of those parts,
each defined and explained on its own; in each module one of them includes
the type invariant.
Together the runs take every action. Five statements of the documents are not
kept by the code. No run claims them; each has a formula, and TLC gives the
counterexample when one line of a configuration is changed:

| Statement | Change | Document |
|---|---|---|
| `StatusMirrored` | add it to the invariants of `MCHubCore.cfg` | `doc/ssot/agent-managed/OPERATOR-UX-PHASE1-CONTRACT.md:25` |
| `CancelTidy` and `CancelResolves` for clients that vanish | `ClientAborts = TRUE` in `MCHubCancel.cfg` | `crates/hub/src/hub/types.rs:112` |
| `AppliedNotUnavailable` | in the place of `OutcomeHonest` in `MCRpc.cfg` | `doc/dev/decision-ipc-lifecycle-default-practice-2026-08-16.md:163`, `:169` |
| `CaptureFailureUndoesCreation` | in the place of `PublicationHonest` in `MCCapture.cfg` | `doc/dev/design.md:127` |
| `ReplayFailureFailsTurn` | in the place of `RefusedUpdateFailsTurn` in `MCCapture.cfg` | `doc/ssot/agent-managed/COMPLIANCE.md:65` |

Bounds. No transaction relates two conversations (recovery treats each row by
itself), so one conversation is enough for the store; two runs are needed for a
second `create_run` and for late endings of the first. In `HubOps` a turn, its
cancellation and one more request (a close, a second turn, a bind) already give
every pairwise race; in `hub_cancel` a second turn, or a second cancel, meets the
supervisor of the first between its read and its write. Two conversations are needed only for the prompt-per-agent rule. Requests are interchangeable, and so are
conversations of the same agent: `Symmetry` is used in the safety runs only.
For the registry one mutation against two generations of connections is what
every race needs: the old connection's cleanup, the new one's start and the
change; connection ids are reused once nobody refers to them. In
`Daemon` two daemons and two clients give the start race, the stale files of a
dead daemon and the idle exit under a client that is about to connect; a third
daemon would repeat the second's part. In `Rpc` every limit is 1 or 2, so that
each request meets an exhausted one. The two notifications of `MCTransport` are
equal in content and differ in size, its two requests share an id: these are the
cases in which the ledger could confuse entries. In `Projection` pages hold one
row, so that three rows need three pages, the limit of materialised rows is 2,
and two refreshes are needed for a layer to be replaced. One fault is one failed
store call or one restart: a commit that fails and is then followed by a restart
takes `MaxFaults = 2`, for which `HistoryStable` and `ImplementsLayers` also hold
with `MaxUpdates = 2` (499,000 states), outside the regular runs. `Capture` needs four
updates to fill a queue, the quarantine and the budget in one behaviour.
Deadlock checking is on for `RunStore`, `HubOps` and `AgentRegistry`, where some
request can always be made; the other instances have finite work (each client,
message, update and terminal is used once) and stop when it is done.

Fairness. `HubFairness` is weak fairness of the steps that wait for nothing but
the daemon itself: tokio polls ready tasks, mutexes are released and timers
fire. `AgentFairSpec` adds that agents answer or exit; it is used for
`RequestsEnd` only, because a hung agent legitimately keeps its turn.
`Daemon`: the polling loops of clients and the daemon's own code run; nothing is
assumed of timeouts, stops, idle exits and runs that end. `Rpc`: tasks are
scheduled, timeouts expire, handlers return, and a client that lives reads its
socket; nobody has to issue a request. `Transport`: the hub's tasks run and its
handlers answer; a live agent finishes the line or event it has begun and accepts
POSTs, but may leave the POST of a prompt open until its own requests have been
answered. `Terminals`: a waiting callback polls again.
`ExtCheckOwner` (a client that finalises its own run) is never assumed.

### Observations

Where the code does not keep what a document or comment says, no property of a
run claims it. The five statements of the table above are among the cases listed
here.

Operations. `send_prompt` checks the write gate before it reserves the operation
(`hub/prompt.rs:50`); a close that completes in between is undone by
`create_run`, which forces `phase = 'open'`, although the contract (§4.3) denies
send on a closed conversation. `close_conversation` uses the `busy` it read
before it held the lease (`hub/lifecycle.rs:155`); if the run ends in between, its
outcome becomes `failed`, against §4.4. `cancel` awaits the handle table between
the acknowledged mark and the spawn of the supervisor (`hub/prompt.rs:319`); a
client that goes away there leaves the run `cancelling` until the agent answers
or the daemon restarts, although `hub/types.rs:112` promises a forced ending
(`hub_cancel` checks `CancelTidy` and `CancelResolves` for clients that stay). A close during a turn is
answered with a conflict (`hub/lifecycle.rs:137`) although §4.4 describes it as
accepted; a close the agent does not support leaves an active run behind if a
store error had orphaned one (`hub/lifecycle.rs:185`); a delete the agent refuses
returns the error (`hub/lifecycle.rs:120`) where §4.5 continues locally.

Registry. `mutate_registry` awaits the handle table after it has published the
new registry (`hub/registry.rs:657`); a request aborted there leaves the replaced
connection in the handle table for all later requests, while
`src/doc/dev/spec.md` §9 wants disk, memory and live handles of one generation.
With vanishing clients a connection whose first poll is delayed may also be
configured over its successor. `HandleCurrent` and `HandleConfigured` therefore
hold only as long as no mutation was cut off. An operation that finds its agent's
command loop closed does not evict the dead handle, only a query does
(`hub/registry.rs:423`, `:481`); a failed read of the fingerprint after a commit
(`hub/registry.rs:650`) makes every later registry call fail until a restart.

RPC. The 30 second `RPC_FRAME_READ_TIMEOUT` (`daemon.rs:71`) also bounds the wait
for the first byte of the next frame (`daemon/rpc_io.rs:392`): a client that is
quiet because it waits for a `send` loses its connection, and the request is
aborted (`daemon/rpc_io.rs:133`), although `hub/client.rs:151` expects such waits
to last many minutes and `rpc.rs:310` says that no timeout means wait for ever. An
error without typed data is `DaemonUnavailable` to the client
(`rpc.rs:749`), whether or not the change was applied: the error of a registry
change that was committed (`hub/registry.rs:675`, answered at
`daemon/rpc_io.rs:605`), and the fallback for a response that cannot be retained
(`daemon/rpc_io.rs:780`). The decision record
`src/doc/dev/decision-ipc-lifecycle-default-practice-2026-08-16.md:163` and `:169`
exclude that report of a committed change (`AppliedNotUnavailable`). Quiet connections hold the four global frame slots until that
timeout.

Transport. Over HTTP answers and other messages use two lanes and may overtake
one another (`bounded_transport.rs:418`), although `:50` says that order is kept;
an agent within eight outstanding requests can still be rejected there, because
its answer is released only when its POST is, and over stdio, because the reader
may run between the write of an answer and its release; `WithinLimitsKept` speaks
of the WebSocket leg for that reason. A POST whose sending fails ends the
connection with the request it answers still reserved. An error response without an id ends an HTTP
connection and is ignored on the other legs. A failed outbound channel returns
from `run_http` without the closing DELETE (`bounded_transport.rs:575`).

Capture. An update that is refused is recorded for the creation in progress
after the lock it was refused under was released (`callbacks/capture.rs:22`). The
creation's worker, which has the response already, may close the quarantine in
between, and the session is published without the update, although design.md
§2.2 (`src/doc/dev/design.md:127`) undoes the creation (`CaptureFailureUndoesCreation`;
`PublicationHonest` is about the updates sent before the response, which the
handler has finished with by then). The worker itself records the failure of an
update it replays after the write (`callbacks/capture.rs:427`), and the turn of
the session may take its ledger in between, against
`src/doc/ssot/agent-managed/COMPLIANCE.md:65` (`ReplayFailureFailsTurn`). A handler that found no binding (`callbacks/capture.rs:62`) may queue its
update after the bind that should have drained it, and the update stays there
(`acp/command_loop.rs:70` and `src/doc/dev/design.md` §2 expect it to be
captured). Updates of other sessions that a quarantine held are replayed after it
has gone, so a newer one may be stored first. A quarantined update of a session
that is being bound again is discarded. An update refused between publication and
bind is reported to nobody.

History. A `session/resume` refresh commits like a `session/load`
(`hub/conversation.rs:888`), but resuming replays nothing: it hides the agent's
layer that an earlier load had stored. A page of `wait` after the first passes
an advanced `after_seq` with a cursor that is bound to the old one
(`hub/wait.rs:118`, `store/paging.rs:94`): a wait with more than 200 unread rows,
or more than fit the byte budget, fails with an invalid cursor. A row larger than
the page budget can never be read past (`store/paging.rs:192`). A marker that a
failed commit or rollback leaves makes the next restart revert title, snapshots
and status of every turn in between. `rollback_load_replay` restores `status` but
not the columns it mirrors (`store/replay.rs:439`), although the contract
(`OPERATOR-UX-PHASE1-CONTRACT.md:25`) calls `status` a generated mirror: a close,
a bind that promotes the row during its own refresh and the rollback of that
refresh leave an open conversation with status `closed` (`StatusMirrored`;
`StatusKept` shows that nothing else breaks the mirror). It also reverts a title that a discovery wrote meanwhile. An
update whose handler read `is_loading` before the load ended may be stored after
a rollback, and then belongs to the agent's layer until the next refresh. During
a refresh readers see the old layer and the draft together.

Terminals. A failed `bind_session` leaves the session unbound with its terminals
alive; `terminal/wait_for_exit` is awaited inside the request handler
(`acp.rs:344`); a process group is killed by a number the system may have reused.

Daemon. Between the release of the lock and the exit of a process stopped with
Ctrl-C a detached worker may still run while a successor recovers its run
(`LiveRunKeepsRow` covers the time until the lock is released).


## 4. Proofs

The theorems in the `*Proofs` modules are checked by TLAPS for every value of the
constants: any number of conversations, requests, agents, clients, daemons,
terminals and messages, and any limits. They use the named assumption of each
module, which TLC evaluates on every run, and nothing else: the "nobody" values
are not identifiers, tables such as `AgentOf` and `ConnOf` are functions into
their sets, limits are naturals, a kill is tried at least once (`Attempts > 0`),
the script of the hub in `Transport` is a sequence of its own messages, and an
agent's connection sees finitely many messages and has finitely many sessions, so
that sizes and queues add up. Every inductive invariant that was new to a proof was checked by TLC on the instance of
the component's run first.

| Module | Theorem | States |
|---|---|---|
| `HubOpsProofs` | `StoreSafety` | `StoreSpec => [](StoreTypeOK /\ OneActiveRun /\ BusyHasRun /\ DeletedIsQuiet)` |
| | `StoreRowsConsistent` | `StoreSpec => []StoreConsistent` |
| | `EndingsAreFinal`, `StatusOnlyByReplay`, `DiscoveryKeepsOrigin` | the step properties `TerminalRunsFrozen`, `StatusKept`, `OriginNeverDowngraded` |
| | `LeasesExclude`, `TurnsExclude` | `[](TypeOK /\ LeaseExclusive)`, `[]OneTurnPerAgent` |
| | `HubStoreSafety`, `HubEndingsAreFinal` | the store's theorems of the running hub |
| | `HubImplementsTurns` | `Spec => ImplementsTurns`, the refinement of `Turns`, if `StoreReliable` |
| | `UpdatesAttributed` | `[]CurrentRunOwned` |
| | `WorkHasOwners`, `MemoryMatchesStore` | `[]WorkOwned`, `[]HubMatchesStore`, if `StoreReliable` |
| | `CancellationsAreTidy` | `[]CancelTidy`, if `StoreReliable` and `SupervisorReliable` |
| `AgentRegistryProofs` | `CommandsOnAcceptedConnection`, `MemoryIsFile`, `HandlesAreCurrent` | `[]CommandsCurrent`, `[]ServedIsDisk`, `[]RegistryInv` |
| | `NothingReplacedUnderCommand` | the step property `NoCommitUnderCommand` |
| `DaemonProofs` | `ServedHomeIsReachable`, `RecoverySparesLiveRuns` | `[]DaemonInv`, `[]LiveRunKeepsRow` |
| | `IdleExitIsQuiet` | the step property `IdleExitSparesWork` |
| | `DaemonIsSingleton` | `Spec => ImplementsSingleton`, the refinement of `Singleton` |
| `RpcProofs` | `NoCallOrphaned`, `CallsReportTheTruth` | `[]RpcInv`, `[]OutcomeHonest` |
| `TerminalsProofs` | `TerminalsContained` | `[]TerminalsInv` |
| `CaptureProofs` | `CreationsAreHonest`, `TurnsAreHonest` | `[]PublicationHonest`, `[]RefusedUpdateFailsTurn` |
| | `QuotasAreExact`, `NothingLostOrDoubled` | `[]CaptureInv`, `[]UpdatesExactlyOnce` |
| | `DrainsInOrder` | the step property `DrainComplete` |
| `TransportProofs` | `LimitsAreVisible`, `ConnectionBudgetsExact`, `AcknowledgementsMatch` | `[]WithinLimitsKept`, `[]BudgetsExact`, `[]NeverUndercounts` |

Store. The three parts of `StoreSafety` need one another: `CreateRun` preserves
`OneActiveRun` by its refusals, but `BusyHasRun` needs it (finalising *the* active
run may clear busy), and `DeletedIsQuiet` needs that a deleted row has neither
when a finalisation reopens it. An outcome never loses its run
(`StoreRowsConsistent`) because every write to a run row is guarded by an active
status, which is `EndingsAreFinal`.

Leases. `LeaseInv` joins the store's invariant with `RunsPlaced`, `HubTypeOK`,
`RequestsPlaced` (a request past its first step has a conversation), `LeaseHeld`
(a request in a working state is the owner in the operations table),
`SlotsOwned`, `OnePromptSlot` and `SupervisedRunsExist`. `LeaseHeld` is what
excludes two operations on one conversation: the owner is a single token, and
without it the release of one request could free another's slot.

Hub and store. `OwnInv` adds the converse, `SlotHeld`: whom the table names is at
work on that conversation. The rest rests on lemmas that say how a single run row,
slot, cache entry or request can change in one step. `RunInFlight` (an active run
is that of the request with its id, before it has finalised it) gives
`ActiveRunIsOwned`; with `ActiveIsBusy` it gives `BusyIffActive`. For the cancel
mark the operations mutex has to be followed through `cancel`: `CancelLock` (its
holder is the request in the critical section, and the slot it looked up is still
there), `CriticalRun` (the run it marked is marked or has ended), `FlagOk` and
`MarkOk` (flag and row disagree only under the mutex). `CancelTidy` further needs
that the worker of the turn waits for that mutex (`CriticalTurn`), that a turn
knows the newest generation of its cache entry (`GenBounds`) and that a runtime
in `Cancelling` has a turn that takes it back (`CancellingHeld`).

`HubImplementsTurns` builds on them. No step but a restart writes both
the table and the run rows, or more than one row (`OneRowMoves`, `TableOrRows`). A
row that moves belongs to the
holder (`RunInFlight` with `SlotHeld`) and, unless it ends, to a holder without
an acknowledged cancellation (`RowAbstracts`, by `FlagOk`); a slot is emptied only
by the request that has ended its run, and filled only under `Reservable`
(`TableAbstracts`); a crash maps to `Restart` (`CrashAbstracts`).

`StoreReliable` says that the store does not fail the calls that end a run or a
refresh; `SupervisorReliable`, that it does not fail the supervisor's and that no
client is torn down between the acknowledgement of a cancellation and the start
of its supervisor. Both are conditions on `StoreFaults` and `ClientAborts`, which
the runs `hub_core` and `hub_cancel` meet, and the code does not recover from
their violation before the next start (see Observations), so they cannot be
dropped. Everything else in `HubOpsProofs` holds with every store fault and every
lost client.

Registry. `PlaceInv` says where a request, a handle, an accepted connection, a
command and the mutation may be with respect to one another; its centre is that
the mutation holds the initialiser locks of all it affects and the writers of
every handle it has seen (`MutationHolds`), and that agents whose writer is held
execute nothing (`WritersQuiet`). `HandlesAreCurrent` needs the order of the
generation gate: connections that wait are in the queue once (`QueuePlaced`) and
an abandoned attempt waits before the one that replaces it (`CandidateLast`), so
that the last one to be accepted is the published one (`CandidateAccepted`);
`AttemptFrom` says that an attempt whose epoch is current was built from the
registry in force.

Daemon. `DaemonIInv`: the lock has one holder, which is the daemon past its
acquisition or the client that may remove files (`DaemonHolds`, `ClientHolds`);
the socket belongs to whoever listens; a worker not polled yet counts as
activity. The refinement maps the serving daemon to the owner of `Singleton`;
`LinksAlive` is what makes every served client one of that daemon's.

RPC. `CallInv` places each request in at most one of the socket, the reader's
hand, the frame channel and a task (`RequestsPlaced`), and says that a frame on
its way to the client tells whether its request was executed (`FramesPlaced`,
`WritersPlaced`). `CallsReportTheTruth` is about calls that got no answer: what an
error answer says of a change is the hub's choice, and `AppliedNotUnavailable`,
which would constrain it, does not hold. That no call is orphaned is the agreement of `close_pending`
with the insertion into the map (`NoOrphanPending`).

Terminals. `TermInv`: once the handles of a session are taken out of the map none
comes back (`UnboundPlaced`), because a handle in creation has a bound owner; the
quotas are those of a finite map.

Capture. `CreationInv` follows the knowledge of a refused update from the
handler, which has to record it before the response can be handled, to the
quarantine and the failure `publish` returns; `TurnInv` says that an operation in
progress has an open ledger, and that the handler has recorded every refusal in
it once it turns to the next message (`LedgerOpen`).

The other three theorems rest on `HoldInv` (what the creator and the binder have
in hand, and when) and on `StepKinds`, which sorts the actions by what they do to
the updates: a number is taken, an entry is accepted into one of three places or
discarded, popped, stored by the binder, replayed, moved out of the quarantine, or
a set of queues is emptied. `QuotaKept` adds to the exact counters that the entry in the
binder's hands keeps its place in the quota, which is why a failed bind may put it
back. For `NothingLostOrDoubled`, `Numbered` says that the newest number is only
in the handler's hands, that no number was accepted for two sessions and that only
accepted ones are discarded; each kind of step is then shown to keep the balance
of one update (`Balanced`). `DrainsInOrder` follows the new session alone: until
the creation has succeeded, its updates are in the quarantine in protocol order
or, once they are handed over, in the store, the binder's hands and the queue,
which concatenated are what was accepted (`FreshPlaced`, `FreshOrdered`). That the
drain of a quarantine splits it and keeps its order (`of_sessions`, a recursive
function) is shown by the least counterexample, as for the sums.

Transport. `WsInv`: a message the hub has not read has left no trace in it
(`UnreadIsNew`), a request that holds a reservation is outstanding for the agent
too (`HeldOutstanding`), hence an agent within the limit it can see leaves room
for the request being read (`ReadingFits`). `WithinLimitsKept` speaks of the
WebSocket leg only.

`ConnectionBudgetsExact` covers the three legs. `BudgetInv` adds to the property
what a transfer between the two halves of the ledger needs: a reader has reserved
what it read of its message and what it has not handed over (`RowsSound`), has
reserved nothing before its leg and its stream exist (`ReadersPlaced`), and the
message it reads is in no other place, so that what `track` adds was not counted
before (`ReadIsNew`). A reservation then moves from `partial` to `bytes` without
changing their sum, the release of an answer takes one message out of the sum, and
a leg that ends drops all its readers, after which `partial` is zero. The sums are
those of `FiniteSetsExt`, which adds the elements in an order fixed by `CHOOSE`;
`SumTheorems` shows, by the least counterexample, that the sum exists, is unique
and does not depend on that order.

`AcknowledgementsMatch` covers the three legs too, and every order in which a proxy
may deliver. Equal payloads are interchangeable to the ledger, so the invariant
does not say which reservation belongs to which message: `Reserved` (in
`CountInv`) says that the messages the hub retains can be given reservations one
to one, each of its own kind and identity and at least its size, with every
reservation given away, and that a request has the one it made. Handling a message
releases the smallest reservation of its identity; the message that one was given
to takes the one of the handled message, which is no smaller (`MatchingShrinks`).
A new message brings its own (`MatchingGrows`). That a step adds or takes no more
than this needs `Places`: a message is in at most one of the places it passes
through (with the agent, waiting for the event queue, in it, in the inbox, worked
on, answered, on the way out) and at most once there. `Moves` lists the five
things a step can do to the messages, and `StepMoves` shows that no step of an open
connection does anything else. `MatchingCounts` and `SumOfMatched` turn the
matching into the counts and the sums of the property. Once the connection has
ended nothing is claimed, and it never opens again (`EndedForGood`).

Only model-checked:

* `HistoryStable`, `ReadsWhole` and the refinement `ImplementsLayers`
  (`Projection`): pages are prefixes cut at a sum of sizes, and the layers are
  filters of the rows in `seq` order;
* the liveness properties `CancelResolves`, `RequestsEnd`, `StartupConverges`,
  `CallsReturn`, `CallbacksAnswered` and `WaitReturns`: fairness is beyond the
  proof system.

## 5. Not modelled, and the plan

Left out: the command line and the MCP server (argument parsing, output formats
and forwarding: no state of their own), the vendor adapters (agents, to the hub),
permission answers and file access (I/O of a single request), the full-text
search, offset pages and the merged transcript (pure views of committed rows),
schema migrations, `hard_delete_conversation`, refresh markers of releases without
before images, and functions only tests call (`set_conversation_lifecycle`,
`begin_agent_session_import`, `stage_load_replay`).

Next, in this order:

1. Proofs: `CursorStable` and the refinement of `LayeredHistory` over
   `Projection`.
2. The transcript merge (`store/transcript_view.rs`) as operators checked against
   a reference definition.
