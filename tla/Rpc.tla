-------------------------------- MODULE Rpc --------------------------------
(***************************************************************************)
(* JSON-RPC between clients and the daemon: RpcClient (rpc.rs) at one end  *)
(* of a connection, handle_client_io (daemon/rpc_io.rs) at the other, and  *)
(* the daemon's global admission limits (ActivityTracker, daemon.rs) that  *)
(* connections share.                                                      *)
(*                                                                         *)
(* At the daemon a reader task takes one frame at a time under a global    *)
(* frame slot and hands it through a channel of capacity one to the        *)
(* connection's loop, which admits it (a permit of the connection and a    *)
(* global one) and spawns a task, or answers that it is overloaded. A task *)
(* dispatches, encodes its response within global byte budgets and writes  *)
(* it under the writer mutex and a timeout. Semaphores are counted from    *)
(* their holders: a permit lives as long as the value that owns it.        *)
(*                                                                         *)
(* Frames count one byte each. A request is a model value; its method      *)
(* class and the size of its answer are constants.                         *)
(***************************************************************************)
EXTENDS Naturals, Sequences, FiniteSets

CONSTANTS
  Conns, Reqs,
  Pushes,        \* notifications the daemon sends (hub/conv/update)
  ConnOf,        \* ConnOf[x]: the connection of a request or notification
  Mutate,        \* is_mutate_rpc
  Long,          \* requests with timeout None (a send that waits)
  Failing,       \* bound: requests the hub may answer with an error
  Oversized,     \* whose result is beyond MAX_RPC_LINE_BYTES
  HugeId,        \* ids that do not fit MAX_RPC_FALLBACK_FRAME_BYTES
  PerClient,     \* MAX_INFLIGHT_RPC_PER_CLIENT
  Global,        \* MAX_INFLIGHT_RPC_GLOBAL
  FrameSlots,    \* MAX_BUFFERED_RPC_FRAMES_GLOBAL
  RequestBytes, ResponseBytes, FallbackBytes, \* RpcByteAdmission
  PipeCap,       \* bound: frames the socket holds for a client that does not read
  MaxGone,       \* bound: client processes that die
  Nothing        \* no request, no frame

ASSUME RpcAssumption ==
  /\ ConnOf \in [Reqs \cup Pushes -> Conns] /\ Reqs \cap Pushes = {}
  /\ Mutate \subseteq Reqs /\ Long \subseteq Reqs /\ Failing \subseteq Reqs
  /\ Oversized \subseteq Reqs \cup Pushes /\ HugeId \subseteq Reqs
  /\ {Nothing, "eof", "error"} \cap (Reqs \cup Pushes) = {}
  /\ {PerClient, Global, FrameSlots, RequestBytes, ResponseBytes,
      FallbackBytes, PipeCap, MaxGone} \subseteq Nat

VARIABLES
  \* the client
  cst,      \* cst[r]: how far request_value_timeout is
  reply,    \* reply[r]: what its oneshot channel holds
  outcome,  \* outcome[r]: what it returned
  pending,  \* the keys of RpcClientInner.pending
  closed,   \* connections whose RpcClientInner.closed is set
  drained,  \* connections whose close_pending has emptied the map
  gone,     \* connections whose client process is dead
  \* the socket
  up,       \* up[k]: frames on their way to the daemon
  down,     \* down[k]: frames on their way to the client
  shut,     \* connections whose writer was shut down after a terminal response
  \* the daemon
  rd,       \* rd[k]: the frame reader
  hand,     \* hand[k]: what the reader has for the loop
  chan,     \* chan[k]: the channel between them
  lp,       \* lp[k]: the loop of handle_client_io
  own,      \* own[k]: what the loop itself is writing
  task,     \* task[x]: the task or the delivery of x
  resp,     \* resp[x]: its encoded response
  ran       \* requests whose change or answer the hub has made

client == <<cst, reply, outcome, pending, closed, drained, gone>>
socket == <<up, down, shut>>
reader == <<rd, hand, chan>>
tasks  == <<task, resp, ran>>
vars   == <<client, socket, reader, lp, own, tasks>>

Torn == [of |-> Nothing, kind |-> "torn"]
Of(k) == {x \in Reqs \cup Pushes : ConnOf[x] = k}

Init ==
  /\ cst = [r \in Reqs |-> "new"] /\ reply = [r \in Reqs |-> "none"]
  /\ outcome = [r \in Reqs |-> "none"]
  /\ pending = {} /\ closed = {} /\ drained = {} /\ gone = {} /\ shut = {}
  /\ up = [k \in Conns |-> <<>>] /\ down = [k \in Conns |-> <<>>]
  /\ rd = [k \in Conns |-> "slot"] /\ hand = [k \in Conns |-> Nothing]
  /\ chan = [k \in Conns |-> <<>>]
  /\ lp = [k \in Conns |-> "select"] /\ own = [k \in Conns |-> Nothing]
  /\ task = [x \in Reqs \cup Pushes |-> "none"]
  /\ resp = [x \in Reqs \cup Pushes |-> "none"]
  /\ ran = {}

-----------------------------------------------------------------------------
(* The daemon's admission limits, counted from the holders of permits. *)

Busy == {"dispatch", "wait", "write"}
InFlight(k) == {r \in Of(k) \cap Reqs : task[r] \in Busy /\ own[k] # r}
AllInFlight == UNION {InFlight(k) : k \in Conns}

\* A frame and its slot: in the reader's hand, in the channel, or being
\* answered by the loop.
Buffered(k) == {r \in Reqs : hand[k] = r \/ own[k] = r \/ \E i \in 1..Len(chan[k]) : chan[k][i] = r}
AllBuffered == UNION {Buffered(k) : k \in Conns}
FrameSlotsFree ==
  FrameSlots > Cardinality(AllBuffered) + Cardinality({k \in Conns : rd[k] = "data"})
RequestBytesFree == RequestBytes > Cardinality(AllBuffered) + Cardinality(AllInFlight)

Retained(kinds) == {x \in Reqs \cup Pushes : task[x] \in {"wait", "write"} /\ resp[x] \in kinds}
ResponsesFree == ResponseBytes > Cardinality(Retained({"result", "typed", "untyped", "overload"}))
FallbacksFree == FallbackBytes > Cardinality(Retained({"limited", "large", "terminal"}))

\* encode_response_with_fallback: the response itself; an error with typed data
\* if it finds no budget, one without if it is too large; if the id does not
\* fit, an error without it that closes the connection; or nothing at all.
encode_response_with_fallback(x, answer) ==
  LET big == answer = "result" /\ x \in Oversized IN
  IF ResponsesFree /\ ~big THEN answer
  ELSE IF ~FallbacksFree THEN "fail"
  ELSE IF x \in HugeId THEN "terminal"
  ELSE IF ResponsesFree THEN "large" ELSE "limited"

-----------------------------------------------------------------------------
(* The frame reader: read_bounded_frame in a loop. *)

read_slot(k) ==
  /\ rd[k] = "slot" /\ FrameSlotsFree
  /\ rd' = [rd EXCEPT ![k] = "data"]
  /\ UNCHANGED <<client, socket, hand, chan, lp, own, tasks>>

\* What the reader got and is about to send to the loop.
Reads(k, f) ==
  /\ rd' = [rd EXCEPT ![k] = "send"]
  /\ hand' = [hand EXCEPT ![k] = f]
  /\ UNCHANGED <<client, down, shut, chan, lp, own, tasks>>

read_frame(k) ==
  /\ rd[k] = "data" /\ up[k] # <<>>
  /\ up' = [up EXCEPT ![k] = Tail(@)]
  /\ Reads(k, IF RequestBytesFree THEN Head(up[k]) ELSE "error")

\* The client is gone, between two frames or within one.
read_eof(k) ==
  /\ rd[k] = "data" /\ up[k] = <<>> /\ k \in gone
  /\ \E f \in {"eof", "error"} : Reads(k, f)
  /\ UNCHANGED up

\* Mutant: an idle client may keep its frame slot.
read_without_timeout(k) == FALSE /\ Reads(k, "error") /\ UNCHANGED up

\* RPC_FRAME_READ_TIMEOUT without a byte from the client.
read_timeout(k) ==
  /\ rd[k] = "data" /\ up[k] = <<>> /\ k \notin gone
  /\ Reads(k, "error")
  /\ UNCHANGED up

send_frame(k) ==
  /\ rd[k] = "send" /\ chan[k] = <<>>
  /\ chan' = [chan EXCEPT ![k] = <<hand[k]>>]
  /\ hand' = [hand EXCEPT ![k] = Nothing]
  /\ rd' = [rd EXCEPT ![k] = IF hand[k] \in Reqs THEN "slot" ELSE "done"]
  /\ UNCHANGED <<client, socket, lp, own, tasks>>

-----------------------------------------------------------------------------
(* The loop of handle_client_io and the request tasks. *)

\* break: the frame reader is aborted and joined; with abort_requests the
\* tasks are aborted too and stop where they are: a dispatch may or may not
\* have executed its request, a writer may have written part of its frame.
\* `t` and `sent` are the tasks and the stream after the step that broke.
LeaveLoop(k, aborting, t, sent) ==
  LET hit  == {r \in InFlight(k) : aborting /\ t[r] \in Busy}
      torn == IF \E r \in hit : t[r] = "write" THEN <<Torn>> ELSE <<>>
  IN /\ lp' = [lp EXCEPT ![k] = IF aborting THEN "abort" ELSE "drain"]
     /\ own' = [own EXCEPT ![k] = Nothing]
     /\ rd' = [rd EXCEPT ![k] = "done"]
     /\ hand' = [hand EXCEPT ![k] = Nothing]
     /\ chan' = [chan EXCEPT ![k] = <<>>]
     /\ task' = [x \in DOMAIN t |-> IF x \in hit THEN "end" ELSE t[x]]
     /\ down' = [sent EXCEPT ![k] = @ \o torn]
     /\ \E run \in SUBSET {r \in hit : t[r] = "dispatch"} : ran' = ran \cup run
     /\ resp' = [x \in DOMAIN t |-> IF task'[x] \in {"wait", "write"} THEN resp[x] ELSE "none"]

\* The loop starts to write x itself and does nothing else meanwhile.
Writes(k, x, kind) ==
  /\ own' = [own EXCEPT ![k] = x]
  /\ lp' = [lp EXCEPT ![k] = "own"]
  /\ task' = [task EXCEPT ![x] = "wait"]
  /\ resp' = [resp EXCEPT ![x] = kind]
  /\ UNCHANGED <<rd, hand, down, ran>>

\* write_overload_response: the request is answered by the loop.
write_overload_response(k, r) ==
  LET kind == encode_response_with_fallback(r, "overload") IN
  /\ chan' = [chan EXCEPT ![k] = <<>>]
  /\ \/ kind # "fail" /\ Writes(k, r, kind)
     \/ kind = "fail" /\ LeaveLoop(k, TRUE, [task EXCEPT ![r] = "end"], down)

Admits(k) == Cardinality(InFlight(k)) < PerClient /\ Cardinality(AllInFlight) < Global

recv_frame(k) ==
  /\ lp[k] = "select" /\ chan[k] # <<>>
  /\ LET f == Head(chan[k]) IN
       \/ f \notin Reqs /\ LeaveLoop(k, f = "error", task, down)
       \/ /\ f \in Reqs /\ Admits(k)
          /\ chan' = [chan EXCEPT ![k] = <<>>]
          /\ task' = [task EXCEPT ![f] = "dispatch"]
          /\ UNCHANGED <<rd, hand, lp, own, down, resp, ran>>
       \/ f \in Reqs /\ ~Admits(k) /\ write_overload_response(k, f)
  /\ UNCHANGED <<client, up, shut>>

\* A notification reaches the loop; one that cannot be encoded is dropped.
push(k, p) ==
  /\ lp[k] = "select" /\ ConnOf[p] = k /\ task[p] = "none"
  /\ IF p \notin Oversized /\ ResponsesFree
       THEN Writes(k, p, "result") /\ UNCHANGED chan
       ELSE /\ task' = [task EXCEPT ![p] = "end"]
            /\ UNCHANGED <<lp, own, rd, hand, chan, down, resp, ran>>
  /\ UNCHANGED <<client, up, shut>>

\* handle_rpc_line: the hub executes the request and returns a result, or an
\* error, before or after the change was applied; hub_error_to_rpc keeps the
\* type of some errors and answers the others with INTERNAL_ERROR. A response
\* that cannot be encoded at all fails the task.
handle_rpc_line(r) ==
  /\ task[r] = "dispatch"
  /\ \E answer \in {"result", "typed", "untyped"}, applied \in BOOLEAN :
       /\ IF answer = "result" THEN applied ELSE r \in Failing
       /\ ran' = IF applied THEN ran \cup {r} ELSE ran
       /\ LET kind == encode_response_with_fallback(r, answer) IN
            /\ task' = [task EXCEPT ![r] = IF kind = "fail" THEN "err" ELSE "wait"]
            /\ resp' = [resp EXCEPT ![r] = IF kind = "fail" THEN "none" ELSE kind]
  /\ UNCHANGED <<client, socket, reader, lp, own>>

\* deliver_response: the writer mutex is free for x, or x has it. A writer
\* that is not blocked finishes in one poll: only a full socket makes it keep
\* the mutex, and lets an abort or the timeout cut its frame short.
HasWriter(x) ==
  \/ task[x] = "write"
  \/ task[x] = "wait" /\ \A y \in Of(ConnOf[x]) : task[y] # "write"

write_blocked(x) ==
  /\ task[x] = "wait" /\ HasWriter(x)
  /\ ConnOf[x] \notin gone \cup shut /\ Len(down[ConnOf[x]]) >= PipeCap
  /\ task' = [task EXCEPT ![x] = "write"]
  /\ UNCHANGED <<client, socket, reader, lp, own, resp, ran>>

\* what becomes of the delivery of x, the loop's own writing or a task's,
Delivered(x, result, sent) ==
  LET k == ConnOf[x] IN
  \/ /\ own[k] # x
     /\ task' = [task EXCEPT ![x] = result]
     /\ resp' = [resp EXCEPT ![x] = "none"]
     /\ down' = sent
     /\ UNCHANGED <<reader, lp, own, ran>>
  \/ /\ own[k] = x /\ result = "ok"
     /\ task' = [task EXCEPT ![x] = "end"]
     /\ resp' = [resp EXCEPT ![x] = "none"]
     /\ lp' = [lp EXCEPT ![k] = "select"]
     /\ own' = [own EXCEPT ![k] = Nothing]
     /\ down' = sent
     /\ UNCHANGED <<reader, ran>>
  \/ /\ own[k] = x /\ result # "ok"
     /\ LeaveLoop(k, TRUE, [task EXCEPT ![x] = "end"], sent)

\* the frame written whole, and the writer shut down after a terminal one,
write_all(x) ==
  LET k == ConnOf[x]
      last == resp[x] = "terminal"
      frame == [of |-> IF last THEN Nothing ELSE x, kind |-> resp[x]]
  IN /\ HasWriter(x) /\ k \notin gone \cup shut /\ Len(down[k]) < PipeCap
     /\ shut' = IF last THEN shut \cup {k} ELSE shut
     /\ Delivered(x, IF last THEN "close" ELSE "ok", [down EXCEPT ![k] = Append(@, frame)])
     /\ UNCHANGED <<client, up>>

\* a writer that fails,
write_error(x) ==
  /\ HasWriter(x) /\ ConnOf[x] \in gone \cup shut
  /\ Delivered(x, "err", down)
  /\ UNCHANGED <<client, up, shut>>

\* or RPC_WRITE_TIMEOUT, which also covers the wait for the mutex; a frame cut
\* short stays in the stream.
write_timeout(x) ==
  LET k == ConnOf[x] IN
  /\ \/ /\ task[x] = "write" /\ k \notin gone \cup shut /\ Len(down[k]) >= PipeCap
        /\ Delivered(x, "err", [down EXCEPT ![k] = Append(@, Torn)])
     \/ /\ task[x] = "wait" /\ \E y \in Of(k) : task[y] = "write"
        /\ Delivered(x, "err", down)
  /\ UNCHANGED <<client, up, shut>>

\* requests.join_next(), in the loop and in the cleanup after it.
join_next(r) ==
  LET k == ConnOf[r] IN
  /\ lp[k] \in {"select", "drain", "abort"} /\ task[r] \in {"ok", "close", "err"}
  /\ IF task[r] = "ok"
       THEN task' = [task EXCEPT ![r] = "end"] /\ UNCHANGED <<reader, lp, own, resp, ran, down>>
       ELSE LeaveLoop(k, TRUE, [task EXCEPT ![r] = "end"], down)
  /\ UNCHANGED <<client, up, shut>>

\* Every task has been joined: handle_client_io returns, the stream is closed.
close_connection(k) ==
  /\ lp[k] \in {"drain", "abort"}
  /\ \A r \in Of(k) : task[r] \notin Busy \cup {"ok", "close", "err"}
  /\ lp' = [lp EXCEPT ![k] = "closed"]
  /\ up' = [up EXCEPT ![k] = <<>>]
  /\ UNCHANGED <<client, down, shut, reader, own, tasks>>

-----------------------------------------------------------------------------
(* The client: RpcClient. *)

Alive(r) == ConnOf[r] \notin gone

\* Mutant: `closed` is read before the lock is taken.
request_unchecked(r) ==
  /\ cst[r] = "new" /\ Alive(r)
  /\ cst' = [cst EXCEPT ![r] = "pending"]
  /\ pending' = pending \cup {r}
  /\ UNCHANGED <<reply, outcome, closed, drained, gone, socket, reader, lp, own, tasks>>

\* request_value_timeout registers the request unless the connection is
\* closed, both under the lock of the map.
request_value(r) ==
  /\ cst[r] = "new" /\ Alive(r)
  /\ IF ConnOf[r] \in closed
       THEN /\ cst' = [cst EXCEPT ![r] = "done"]
            /\ outcome' = [outcome EXCEPT ![r] = "unavailable"]
            /\ UNCHANGED pending
       ELSE /\ cst' = [cst EXCEPT ![r] = "pending"]
            /\ pending' = pending \cup {r}
            /\ UNCHANGED outcome
  /\ UNCHANGED <<reply, closed, drained, gone, socket, reader, lp, own, tasks>>

\* The request returns; PendingRegistration::drop removes its key.
Returns(r, out) ==
  /\ cst' = [cst EXCEPT ![r] = "done"]
  /\ outcome' = [outcome EXCEPT ![r] = out]
  /\ pending' = pending \ {r}

\* write_line queues the line unless the connection is closed; writer_loop
\* checks that again and writes. A failed write starts close_pending.
write_line(r) ==
  LET k == ConnOf[r] IN
  /\ cst[r] = "pending" /\ Alive(r)
  /\ IF k \in closed \/ lp[k] = "closed"
       THEN /\ Returns(r, "unavailable")
            /\ closed' = closed \cup {k}
            /\ UNCHANGED up
       ELSE /\ up' = [up EXCEPT ![k] = Append(@, r)]
            /\ cst' = [cst EXCEPT ![r] = "written"]
            /\ UNCHANGED <<outcome, pending, closed>>
  /\ UNCHANGED <<reply, drained, gone, down, shut, reader, lp, own, tasks>>

\* reader_loop and handle_line: a response completes the request it names; a
\* frame that does not parse, or the end of the stream, starts close_pending.
reader_loop(k) ==
  /\ k \notin closed \cup gone
  /\ \/ /\ down[k] # <<>>
        /\ LET f == Head(down[k]) IN
             IF f.kind = "torn"
               THEN /\ Len(down[k]) > 1 \/ lp[k] = "closed"
                    /\ closed' = closed \cup {k} /\ UNCHANGED <<pending, reply>>
               ELSE /\ pending' = pending \ {f.of}
                    /\ reply' = [r \in Reqs |-> IF r = f.of /\ r \in pending THEN f.kind ELSE reply[r]]
                    /\ UNCHANGED closed
        /\ down' = [down EXCEPT ![k] = Tail(@)]
     \/ /\ down[k] = <<>> /\ lp[k] = "closed"
        /\ closed' = closed \cup {k}
        /\ UNCHANGED <<pending, reply, down>>
  /\ UNCHANGED <<cst, outcome, drained, gone, up, shut, reader, lp, own, tasks>>

\* close_pending, second half: under its lock every sender left in the map
\* gets the error.
close_pending(k) ==
  /\ k \in closed \ (drained \cup gone)
  /\ reply' = [r \in Reqs |-> IF r \in pending /\ ConnOf[r] = k THEN "drop" ELSE reply[r]]
  /\ pending' = {r \in pending : ConnOf[r] # k}
  /\ drained' = drained \cup {k}
  /\ UNCHANGED <<cst, outcome, closed, gone, socket, reader, lp, own, tasks>>

\* Mutant: every lost reply is an unavailable daemon.
AlwaysUnavailable(r) == "unavailable"

\* A lost reply: reply_lost_after_write and reclassify_mutate_connection_loss.
LostReply(r) == IF r \in Mutate THEN "reply_lost" ELSE "unavailable"

\* rpc_error_to_hub_error: an error without typed data is an unavailable daemon
\* too, whose "daemon request failed" no reclassification looks at.
receive(r) ==
  /\ cst[r] = "written" /\ reply[r] # "none" /\ Alive(r)
  /\ Returns(r, CASE reply[r] = "result"               -> "ok"
                  [] reply[r] \in {"typed", "limited"} -> "error"
                  [] reply[r] = "drop"                 -> LostReply(r)
                  [] OTHER                             -> "failed")
  /\ UNCHANGED <<reply, closed, drained, gone, socket, reader, lp, own, tasks>>

request_timeout(r) ==
  /\ cst[r] = "written" /\ reply[r] = "none" /\ r \notin Long /\ Alive(r)
  /\ Returns(r, LostReply(r))
  /\ UNCHANGED <<reply, closed, drained, gone, socket, reader, lp, own, tasks>>

\* The client process ends, with or without calls in progress.
die(k) ==
  /\ k \notin gone /\ Cardinality(gone) < MaxGone
  /\ gone' = gone \cup {k}
  /\ cst' = [r \in Reqs |-> IF ConnOf[r] = k THEN "done" ELSE cst[r]]
  /\ reply' = [r \in Reqs |-> IF ConnOf[r] = k THEN "none" ELSE reply[r]]
  /\ pending' = {r \in pending : ConnOf[r] # k}
  /\ down' = [down EXCEPT ![k] = <<>>]
  /\ UNCHANGED <<outcome, closed, drained, up, shut, reader, lp, own, tasks>>

-----------------------------------------------------------------------------
ReaderStep(k) == read_slot(k) \/ read_frame(k) \/ read_eof(k) \/ read_timeout(k) \/ send_frame(k)
LoopStep(k) ==
  recv_frame(k) \/ close_connection(k) \/ (\E r \in Of(k) \cap Reqs : join_next(r))
TaskStep(x) ==
  \/ x \in Reqs /\ handle_rpc_line(x)
  \/ write_blocked(x) \/ write_all(x) \/ write_error(x) \/ write_timeout(x)
CallStep(r) ==
  request_value(r) \/ write_line(r) \/ receive(r) \/ request_timeout(r)

Next ==
  \/ \E k \in Conns :
       \/ ReaderStep(k) \/ LoopStep(k) \/ reader_loop(k) \/ close_pending(k) \/ die(k)
       \/ \E p \in Pushes : push(k, p)
  \/ \E x \in Reqs \cup Pushes : TaskStep(x)
  \/ \E r \in Reqs : CallStep(r)

Spec == Init /\ [][Next]_vars

\* Tasks are scheduled, timeouts expire, the hub's handlers return, and a
\* client that lives reads its socket. Nobody has to issue a request or die.
FairSpec ==
  /\ Spec
  /\ \A k \in Conns : WF_vars(ReaderStep(k)) /\ WF_vars(LoopStep(k))
                      /\ WF_vars(reader_loop(k)) /\ WF_vars(close_pending(k))
  /\ \A x \in Reqs \cup Pushes : WF_vars(TaskStep(x))
  /\ \A r \in Reqs : WF_vars(CallStep(r) /\ cst[r] # "new")

-----------------------------------------------------------------------------
(* Properties. *)

Answers == {"result", "typed", "untyped", "overload", "limited", "large"}

RpcTypeOK ==
  /\ cst \in [Reqs -> {"new", "pending", "written", "done"}]
  /\ reply \in [Reqs -> Answers \cup {"none", "drop"}]
  /\ outcome \in [Reqs -> {"none", "ok", "error", "unavailable", "failed", "reply_lost"}]
  /\ pending \in SUBSET Reqs
  /\ closed \in SUBSET Conns /\ drained \in SUBSET closed
  /\ gone \in SUBSET Conns /\ shut \in SUBSET Conns
  /\ up \in [Conns -> Seq(Reqs)] /\ ran \in SUBSET Reqs
  /\ \A k \in Conns : \A i \in 1..Len(down[k]) :
       down[k][i] \in [of : Reqs \cup Pushes \cup {Nothing},
                       kind : Answers \cup {"terminal", "torn"}]
  /\ rd \in [Conns -> {"slot", "data", "send", "done"}]
  /\ hand \in [Conns -> Reqs \cup {"eof", "error", Nothing}]
  /\ \A k \in Conns : Len(chan[k]) <= 1
  /\ lp \in [Conns -> {"select", "own", "drain", "abort", "closed"}]
  /\ own \in [Conns -> Reqs \cup Pushes \cup {Nothing}]
  /\ task \in [Reqs \cup Pushes -> Busy \cup {"none", "ok", "close", "err", "end"}]
  /\ resp \in [Reqs \cup Pushes -> Answers \cup {"none", "terminal"}]

\* No request is left behind in the map of a closed connection: its sender
\* would never be answered, and a request without a timeout would hang
\* (rpc.rs, request_value_timeout and close_pending, both under one lock).
NoOrphanPending == \A r \in pending : ConnOf[r] \notin drained

\* What a call reports agrees with what the daemon did and will do. A success
\* was executed; a request refused for overload never is; and a request that
\* changes the hub and got no answer is reported as "daemon unavailable" only
\* when it never reached the daemon, otherwise as a lost reply: no timeout, no
\* close, no torn frame and no end of the daemon denies a change that was or
\* will be made (rpc.rs, is_mutate_rpc, reply_lost_after_write and
\* reclassify_mutate_connection_loss; rpc_io.rs, write_overload_response).
OutcomeHonest ==
  \A r \in Reqs :
    /\ outcome[r] = "ok" => r \in ran
    /\ reply[r] = "overload" => r \notin ran /\ task[r] # "dispatch"
    /\ r \in Mutate /\ outcome[r] = "unavailable" => r \notin ran /\ task[r] # "dispatch"

\* A change that was made is not reported as an unavailable daemon, by an answer
\* either. The code does not keep this: an error after the change was applied
\* is answered without typed data (hub/registry.rs, mutate_registry; rpc_io.rs,
\* hub_error_to_rpc), and the client reads that as DaemonUnavailable (rpc.rs,
\* rpc_error_to_hub_error).
AppliedNotUnavailable ==
  \A r \in Mutate : outcome[r] \in {"unavailable", "failed"} => r \notin ran

\* Every call that was begun is over in the end, one without a timeout included:
\* whatever the other connections hold of the frame slots, the permits and the
\* byte budgets, and however the connection ends (rpc_io.rs,
\* read_bounded_frame and deliver_response; rpc.rs, reader_loop).
CallsReturn ==
  <>[](\A r \in Reqs : cst[r] \in {"new", "done"})

\* The connections are in states the code has, and no request waits in the map
\* of a connection whose reader has ended and drained it, where no answer, no
\* close and no other timeout than its own would ever reach it.
RpcInv ==
  RpcTypeOK /\ NoOrphanPending
=============================================================================
