----------------------------- MODULE Transport -----------------------------
(***************************************************************************)
(* The bounded transport between the hub and one agent: the inbound flow   *)
(* ledger (crates/hub/src/bounded_transport/flow.rs), the readers that     *)
(* charge it (stdio lines, SSE streams, WebSocket frames), the dispatch    *)
(* handler that acknowledges what the hub has consumed (acp.rs), and the   *)
(* HTTP POST lanes that carry the hub's own messages                       *)
(* (bounded_transport.rs, bounded_transport/wire.rs).                      *)
(*                                                                         *)
(* The three legs share the ledger and differ in who releases what and     *)
(* when; `leg' is chosen in Init.  Payloads are abstracted to a kind, a    *)
(* canonical identity and a wire size; serialisation, headers and URLs are *)
(* left out.                                                               *)
(***************************************************************************)
EXTENDS Integers, Sequences, FiniteSets, FiniteSetsExt, SequencesExt

CONSTANTS
  In,            \* the messages the agent may send, each at most once
  Kind(_),       \* "req", "note" or "resp"
  Ident(_),      \* canonical identity of a notification or a response
  Size(_),       \* bytes on the wire
  ReqId(_),      \* JSON-RPC id of a request
  StreamOf(_),   \* the SSE stream a message travels on
  Trigger(_),    \* the operation the agent has received before it sends it
  Opens(_),      \* the session a response to session/new or fork opens, or None
  Script,        \* what the hub sends, in order: records [op, session, after]
  Legs,          \* legs to explore: subset of {"stdio", "ws", "http"}
  Proxied,       \* TRUE: a proxy may reorder what it forwards to the hub
  MaxFrames, MaxBytes, MaxRequests,  \* the limits of the inbound ledger
  MaxSse,        \* MAX_SSE_STREAMS
  SseDepth,      \* SSE_QUEUE_DEPTH
  MaxPosts,      \* MAX_PENDING_HTTP_POST_FRAMES, with bodies of one unit
  None

(* The connection-wide stream; every other stream belongs to a session.    *)
Main == "main"

(* The script is a sequence of the hub's own requests and notifications:   *)
(* answers, and the error of the SDK, are sent besides it.                 *)
Scripted == {Script[i] : i \in DOMAIN Script}

ASSUME TransportAssumption ==
  /\ IsFiniteSet(In) /\ None \notin In
  /\ \A m \in In : Kind(m) \in {"req", "note", "resp"} /\ Size(m) \in Nat \ {0}
  /\ Script \in Seq(Scripted) /\ \A o \in Scripted : o.op \notin {"answer", "error"}
  /\ None \notin {Main, "budget", "requests", "duplicate"}
  /\ Legs \subseteq {"stdio", "ws", "http"}
  /\ Proxied \in BOOLEAN
  /\ {MaxFrames, MaxBytes, MaxRequests, MaxSse, SseDepth, MaxPosts} \subseteq Nat

Streams == ({Main} \cup {StreamOf(m) : m \in In} \cup {Opens(m) : m \in In}
             \cup {o.session : o \in Scripted}) \ {None}

VARIABLES
  leg,       \* the kind of transport
  conn,      \* "fresh" until the leg is up, "open", "ended"
  fail,      \* why the leg ended, or None
  frames, bytes, partial,  \* counters of FlowBudget
  held,      \* its reservations: requests, notifications and responses
  reader,    \* per stream: own partial bytes, message being read, payloads
  tasks,     \* streams whose reader runs
  unsent,    \* messages the agent has not begun to send
  excess,    \* the agent has exceeded the request limit as it can see it
  events,    \* the SSE event queue
  inbox,     \* messages delivered to the protocol handler
  handled,   \* responses that have reached the hub's caller
  working,   \* requests whose handler has not answered
  answers,   \* answers and protocol errors on their way to the transport
  script,    \* what is left of Script
  opened,    \* open_session_streams
  lanes,     \* per lane: POSTs queued and in flight
  posts,     \* PostBudget.frames
  got        \* what the agent has received, in order

ledger == <<frames, bytes, partial, held>>
out    == <<answers, script, opened, lanes, posts, got>>
vars   == <<leg, conn, fail, ledger, reader, tasks, unsent, excess, events,
            inbox, handled, working, out>>

Sum(S) == MapThenSumSet(Size, S)
owned == MapThenSumSet(LAMBDA s : reader[s].own, Streams)
OfKind(k) == {m \in held : Kind(m) = k}
Idle == [own |-> 0, msg |-> None, read |-> 0, ready |-> <<>>, sending |-> None]
EmptyLane == [queued |-> <<>>, flight |-> None]

Init ==
  /\ leg \in Legs
  /\ conn = IF leg = "http" THEN "fresh" ELSE "open"
  /\ fail = None
  /\ frames = 0 /\ bytes = 0 /\ partial = 0 /\ held = {}
  /\ reader = [s \in Streams |-> Idle]
  /\ tasks = IF leg = "http" THEN {} ELSE {Main}
  /\ unsent = In
  /\ excess = FALSE
  /\ events = <<>> /\ inbox = <<>> /\ handled = {} /\ working = {}
  /\ answers = {} /\ script = Script /\ opened = {}
  /\ lanes = [l \in {"ordered", "response"} |-> EmptyLane]
  /\ posts = 0 /\ got = <<>>

-----------------------------------------------------------------------------
(* The leg returns: readers are dropped, which gives their partial bytes   *)
(* back, the POST queues are cleared, which gives the POST budget back.    *)
end_leg(why) ==
  /\ conn' = "ended" /\ fail' = why
  /\ reader' = [s \in Streams |-> Idle]
  /\ tasks' = {}
  /\ lanes' = [l \in DOMAIN lanes |-> EmptyLane]
  /\ posts' = 0
  /\ UNCHANGED <<leg, unsent, excess, events, inbox, handled, working, answers, script, opened, got>>

(* FlowBudget::track, given the partial bytes that remain reserved: why a  *)
(* message is refused, or None.                                            *)
refused(m, rest) ==
  IF frames + 1 > MaxFrames \/ bytes + Size(m) + rest > MaxBytes THEN "budget"
  ELSE IF Kind(m) # "req" THEN None
  ELSE IF Cardinality(OfKind("req")) >= MaxRequests THEN "requests"
  ELSE IF \E q \in OfKind("req") : ReqId(q) = ReqId(m) THEN "duplicate"
  ELSE None

track(m) ==
  /\ frames' = frames + 1
  /\ bytes' = bytes + Size(m)
  /\ held' = held \cup {m}

(* FlowBudget::release; the code saturates at zero.                        *)
release(m) ==
  /\ frames' = frames - 1
  /\ bytes' = bytes - Size(m)
  /\ held' = held \ {m}

(* The reservation an acknowledgement releases: the smallest one with the  *)
(* same canonical identity.                                                *)
matching(m) == {h \in held : Kind(h) = Kind(m) /\ Ident(h) = Ident(m)}
smallest(S) == CHOOSE m \in S : \A n \in S : Size(m) <= Size(n)

(* Mutant: an acknowledgement releases the largest match.                  *)
acknowledged_any(m) ==
  CHOOSE h \in matching(m) : \A n \in matching(m) : Size(n) <= Size(h)

acknowledged(m) == smallest(matching(m))

-----------------------------------------------------------------------------
(* Inbound.  The agent begins a message on a running, idle stream.  What   *)
(* it can see of the request limit is what it has sent and got answers to. *)
Answer(q) == [op |-> "answer", req |-> q]
Error == [op |-> "error"]
received(op) == \E i \in DOMAIN got : got[i].op = op

agent_outstanding ==
  {q \in In \ unsent : Kind(q) = "req" /\ Answer(q) \notin ToSet(got)}

agent_sends(m) ==
  /\ conn = "open" /\ m \in unsent
  /\ LET s == IF leg = "http" THEN StreamOf(m) ELSE Main IN
     /\ s \in tasks /\ reader[s].msg = None
     /\ reader' = [reader EXCEPT ![s].msg = m, ![s].read = 0]
  /\ received(Trigger(m))
  /\ unsent' = unsent \ {m}
  /\ excess' = (excess \/ (Kind(m) = "req"
                  /\ (\/ Cardinality(agent_outstanding) >= MaxRequests
                      \/ \E q \in agent_outstanding : ReqId(q) = ReqId(m))))
  /\ UNCHANGED <<leg, conn, fail, ledger, tasks, events, inbox, handled, working, out>>

(* read_bounded_line: every chunk of a line is reserved before it is kept; *)
(* a refusal drops the reader's reservation and ends the leg.              *)
read_bounded_line(s, k) ==
  /\ leg = "stdio" /\ s \in tasks
  /\ reader[s].msg # None /\ k \in 1..(Size(reader[s].msg) - reader[s].read)
  /\ IF bytes + partial + k > MaxBytes
     THEN end_leg("partial") /\ partial' = partial - reader[s].own
          /\ UNCHANGED <<frames, bytes, held>>
     ELSE /\ partial' = partial + k
          /\ reader' = [reader EXCEPT ![s].own = @ + k, ![s].read = @ + k]
          /\ UNCHANGED <<leg, conn, fail, frames, bytes, held, tasks, unsent, excess,
                         events, inbox, handled, working, out>>

(* Mutant: the transfer tracks the line but leaves its partial bytes.      *)
admit_kept_partial(s) ==
  LET m == reader[s].msg IN
  /\ leg = "stdio" /\ s \in tasks /\ m # None /\ reader[s].read = Size(m)
  /\ partial' = partial
  /\ IF refused(m, partial') # None
     THEN end_leg(refused(m, partial')) /\ UNCHANGED <<frames, bytes, held>>
     ELSE /\ track(m)
          /\ reader' = [reader EXCEPT ![s] = Idle]
          /\ inbox' = Append(inbox, m)
          /\ UNCHANGED <<leg, conn, fail, tasks, unsent, excess, events, handled, working, out>>

(* RetainedStdioLine::admit: the partial bytes of the whole line become a  *)
(* reservation of the ledger under one lock.                               *)
admit(s) ==
  LET m == reader[s].msg IN
  /\ leg = "stdio" /\ s \in tasks /\ m # None /\ reader[s].read = Size(m)
  /\ partial' = partial - reader[s].own
  /\ IF refused(m, partial') # None
     THEN end_leg(refused(m, partial')) /\ UNCHANGED <<frames, bytes, held>>
     ELSE /\ track(m)
          /\ reader' = [reader EXCEPT ![s] = Idle]
          /\ inbox' = Append(inbox, m)
          /\ UNCHANGED <<leg, conn, fail, tasks, unsent, excess, events, handled, working, out>>

(* The WebSocket reader charges a whole frame and delivers it.             *)
ws_inbound ==
  LET m == reader[Main].msg IN
  /\ leg = "ws" /\ conn = "open" /\ m # None
  /\ partial' = partial
  /\ IF refused(m, partial) # None
     THEN end_leg(refused(m, partial)) /\ UNCHANGED <<frames, bytes, held>>
     ELSE /\ track(m)
          /\ reader' = [reader EXCEPT ![Main] = Idle]
          /\ inbox' = Append(inbox, m)
          /\ UNCHANGED <<leg, conn, fail, tasks, unsent, excess, events, handled, working, out>>

(* A stream of read_sse returns: its reservation is dropped with it, the   *)
(* loop of run_http learns of it later.                                    *)
sse_return(s) ==
  /\ tasks' = tasks \ {s}
  /\ reader' = [reader EXCEPT ![s] = Idle]
  /\ fail' = IF fail = None THEN "sse" ELSE fail

(* One chunk of an SSE stream: k payload bytes of the message being read   *)
(* and one byte of framing are reserved, then the framing is given back.   *)
(* The chunk that completes an event leaves it among the ready payloads;   *)
(* a chunk with a second event is read in two such steps.                  *)
read_sse(s, k) ==
  LET r == reader[s]
      done == r.read + k = Size(r.msg) IN
  /\ leg = "http" /\ conn = "open" /\ s \in tasks
  /\ r.msg # None /\ Len(r.ready) < 2 /\ r.sending = None
  /\ k \in 1..(Size(r.msg) - r.read)
  /\ IF bytes + partial + k + 1 > MaxBytes
     THEN sse_return(s) /\ partial' = partial - r.own
     ELSE /\ partial' = partial + k
          /\ reader' = [reader EXCEPT ![s].own = @ + k, ![s].read = IF done THEN 0 ELSE @ + k,
                          ![s].msg = IF done THEN None ELSE @,
                          ![s].ready = IF done THEN Append(@, r.msg) ELSE @]
          /\ UNCHANGED <<tasks, fail>>
  /\ UNCHANGED <<leg, conn, frames, bytes, held, unsent, excess, events, inbox,
                 handled, working, out>>

(* PartialReservation::transfer_message for the next ready payload, before *)
(* the stream waits for room in the event queue.                           *)
transfer_message(s) ==
  LET r == reader[s]
      m == Head(r.ready) IN
  /\ leg = "http" /\ conn = "open" /\ s \in tasks
  /\ r.ready # <<>> /\ r.sending = None
  /\ IF refused(m, partial - Size(m)) # None
     THEN /\ tasks' = tasks \ {s}
          /\ reader' = [reader EXCEPT ![s] = Idle]
          /\ fail' = IF fail = None THEN refused(m, partial - Size(m)) ELSE fail
          /\ partial' = partial - r.own
          /\ UNCHANGED <<frames, bytes, held>>
     ELSE /\ track(m)
          /\ partial' = partial - Size(m)
          /\ reader' = [reader EXCEPT ![s].own = @ - Size(m), ![s].ready = Tail(@),
                                      ![s].sending = m]
          /\ UNCHANGED <<tasks, fail>>
  /\ UNCHANGED <<leg, conn, unsent, excess, events, inbox, handled, working, out>>

sse_send(s) ==
  /\ conn = "open" /\ reader[s].sending # None /\ Len(events) < SseDepth
  /\ events' = Append(events, reader[s].sending)
  /\ reader' = [reader EXCEPT ![s].sending = None]
  /\ UNCHANGED <<leg, conn, fail, ledger, tasks, unsent, excess, inbox, handled, working, out>>

(* The agent closes a stream, which read_sse sees once it has passed on    *)
(* what it read, or the whole leg (end of output, exit of the child,       *)
(* WebSocket close).                                                       *)
stream_closed(s) ==
  /\ conn = "open" /\ s \in tasks
  /\ reader[s].ready = <<>> /\ reader[s].sending = None
  /\ partial' = partial - reader[s].own
  /\ UNCHANGED <<frames, bytes, held>>
  /\ IF leg = "http"
     THEN sse_return(s)
          /\ UNCHANGED <<leg, conn, unsent, excess, events, inbox, handled, working, out>>
     ELSE end_leg("closed")

(* HttpLoopEvent::SseFailure: any stream that ends, ends the connection.   *)
sse_failure ==
  /\ leg = "http" /\ conn = "open" /\ fail # None
  /\ partial' = partial - owned
  /\ end_leg(fail)
  /\ UNCHANGED <<frames, bytes, held>>

-----------------------------------------------------------------------------
(* Consumption: the dispatch handler acknowledges a notification or a      *)
(* response before it is handled; a request keeps its reservation until    *)
(* its answer has left.  A notification handler may fail: the SDK then     *)
(* sends a protocol error with id null.                                    *)
dispatched == IF Proxied THEN DOMAIN inbox ELSE {1} \cap DOMAIN inbox

on_receive_dispatch(i) ==
  LET m == inbox[i] IN
  /\ conn # "ended" /\ i \in dispatched
  /\ inbox' = RemoveAt(inbox, i)
  /\ \/ /\ Kind(m) = "req"
        /\ working' = working \cup {m}
        /\ UNCHANGED <<frames, bytes, held, handled, answers>>
     \/ /\ Kind(m) # "req" /\ matching(m) # {}
        /\ release(acknowledged(m))
        /\ \/ answers' = answers
           \/ Kind(m) = "note" /\ answers' = answers \cup {Error}
        /\ handled' = handled \cup ({m} \cap {r \in In : Kind(r) = "resp"})
        /\ UNCHANGED working
     \/ /\ Kind(m) # "req" /\ matching(m) = {}
        /\ answers' = answers \cup {Error}
        /\ UNCHANGED <<frames, bytes, held, handled, working>>
  /\ UNCHANGED <<leg, conn, fail, partial, reader, tasks, unsent, excess, events,
                 script, opened, lanes, posts, got>>

(* A request handler answers.                                              *)
respond(q) ==
  /\ conn = "open" /\ q \in working
  /\ working' = working \ {q}
  /\ answers' = answers \cup {Answer(q)}
  /\ UNCHANGED <<leg, conn, fail, ledger, reader, tasks, unsent, excess, events,
                 inbox, handled, script, opened, lanes, posts, got>>

-----------------------------------------------------------------------------
(* Outbound.  What the transport may take next from its channel: the next  *)
(* message of the script, once the response it depends on was handled, or  *)
(* an answer.                                                              *)
scripted ==
  {script[i] : i \in {j \in DOMAIN script :
     j = 1 /\ (script[j].after \in handled \cup {None})}}
outgoing == scripted \cup answers
taken(o) ==
  /\ script' = IF o \in scripted THEN Tail(script) ELSE script
  /\ answers' = answers \ {o}

(* complete_outbound_response: an answer releases its request; an error    *)
(* with id null that answers nothing releases nothing.                     *)
complete_outbound_response(o) ==
  IF o.op = "answer" /\ o.req \in held THEN release(o.req)
  ELSE UNCHANGED <<frames, bytes, held>>

(* The stdio sink: the line and its newline reach the child, then the      *)
(* reservation is released; the reader may run in between.                 *)
stdio_write(o) ==
  /\ leg = "stdio" /\ conn = "open" /\ o \in outgoing /\ lanes["ordered"].flight = None
  /\ taken(o)
  /\ got' = Append(got, o)
  /\ lanes' = [lanes EXCEPT !["ordered"].flight = [post |-> o, arrived |-> TRUE]]
  /\ UNCHANGED <<leg, conn, fail, ledger, reader, tasks, unsent, excess, events,
                 inbox, handled, working, opened, posts>>

stdio_written ==
  /\ leg = "stdio" /\ conn = "open" /\ lanes["ordered"].flight # None
  /\ complete_outbound_response(lanes["ordered"].flight.post)
  /\ lanes' = [lanes EXCEPT !["ordered"].flight = None]
  /\ UNCHANGED <<leg, conn, fail, partial, reader, tasks, unsent, excess, events,
                 inbox, handled, working, answers, script, opened, posts, got>>

(* Mutant: the reservation of an answered request is never released.       *)
ws_outbound_kept(o) ==
  /\ leg = "ws" /\ conn = "open" /\ o \in outgoing
  /\ taken(o)
  /\ got' = Append(got, o)
  /\ UNCHANGED <<leg, conn, fail, ledger, reader, tasks, unsent, excess, events,
                 inbox, handled, working, opened, lanes, posts>>

(* The WebSocket loop sends and releases without reading in between.       *)
ws_outbound(o) ==
  /\ leg = "ws" /\ conn = "open" /\ o \in outgoing
  /\ taken(o)
  /\ got' = Append(got, o)
  /\ complete_outbound_response(o)
  /\ UNCHANGED <<leg, conn, fail, partial, reader, tasks, unsent, excess, events,
                 inbox, handled, working, opened, lanes, posts>>

(* ClientState::initialize, the first HTTP message.  Its response is in    *)
(* the body: charged, delivered, and if it is an error the connection      *)
(* stays unusable; if it names no connection the leg ends after that.      *)
(* The connection's own stream starts on success.                          *)
Outcomes == {"accepted", "rejected", "anonymous"}

initialize(m, outcome) ==
  /\ leg = "http" /\ conn = "fresh" /\ m \in unsent /\ Kind(m) = "resp"
  /\ script # <<>> /\ Head(script).op = "initialize" /\ Trigger(m) = "initialize"
  /\ partial' = partial
  /\ IF refused(m, partial) # None
     THEN end_leg(refused(m, partial)) /\ UNCHANGED <<frames, bytes, held>>
     ELSE /\ track(m)
          /\ inbox' = Append(inbox, m)
          /\ unsent' = unsent \ {m}
          /\ got' = Append(got, Head(script))
          /\ script' = Tail(script)
          /\ conn' = CASE outcome = "accepted" -> "open"
                       [] outcome = "rejected" -> "fresh"
                       [] OTHER -> "ended"
          /\ fail' = IF outcome = "anonymous" THEN "initialize" ELSE fail
          /\ tasks' = IF outcome = "accepted" THEN tasks \cup {Main} ELSE tasks
          /\ UNCHANGED <<leg, reader, excess, events, handled, working, answers, opened,
                         lanes, posts>>

(* The request cannot be sent, its status is a failure, or its body is too *)
(* large or malformed: the leg ends with nothing charged or delivered.     *)
initialize_fails ==
  /\ leg = "http" /\ conn = "fresh"
  /\ script # <<>> /\ Head(script).op = "initialize"
  /\ end_leg("initialize") /\ UNCHANGED ledger

not_initialized ==
  /\ leg = "http" /\ conn = "fresh"
  /\ \E o \in outgoing : o.op # "initialize"
  /\ end_leg("first") /\ UNCHANGED ledger

(* PostQueue::push.  An idle lane starts the POST at once, a busy one      *)
(* queues it within the budget the two lanes share.                        *)
push(l, o) ==
  IF lanes[l].flight = None
  THEN /\ lanes' = [lanes EXCEPT ![l].flight = [post |-> o, arrived |-> FALSE]]
       /\ posts' = posts
  ELSE /\ lanes' = [lanes EXCEPT ![l].queued = Append(@, o)]
       /\ posts' = posts + 1

(* Mutant: one lane for everything.                                        *)
single_lane(o) == "ordered"

lane_of(o) == IF o.op \in {"answer", "error"} THEN "response" ELSE "ordered"

(* HttpLoopEvent::Outgoing: the session's stream is opened by the first    *)
(* message that names it, then the POST is queued.                         *)
new_session(o) == IF o \in scripted THEN {o.session} \ (opened \cup {None}) ELSE {}

http_outgoing(o) ==
  LET l == lane_of(o) IN
  /\ leg = "http" /\ conn = "open" /\ o \in outgoing
  /\ IF \/ new_session(o) # {} /\ Cardinality(tasks) >= MaxSse
        \/ lanes[l].flight # None /\ posts + 1 > MaxPosts
     THEN /\ end_leg("limit")
          /\ partial' = partial - owned
          /\ UNCHANGED <<frames, bytes, held>>
     ELSE /\ opened' = opened \cup new_session(o)
          /\ tasks' = tasks \cup new_session(o)
          /\ push(l, o)
          /\ taken(o)
          /\ UNCHANGED <<leg, conn, fail, ledger, reader, unsent, excess, events,
                         inbox, handled, working, got>>

(* HttpLoopEvent::Sse: deliver the message; the response that creates a    *)
(* session opens the session's stream.                                     *)
response_session(m) ==
  IF Kind(m) = "resp" THEN {Opens(m)} \ (opened \cup {None}) ELSE {}

http_event ==
  LET m == Head(events) IN
  /\ leg = "http" /\ conn = "open" /\ events # <<>>
  /\ opened' = opened \cup response_session(m)
  /\ IF response_session(m) # {} /\ Cardinality(tasks) >= MaxSse
     THEN /\ conn' = "ended" /\ fail' = "limit" /\ tasks' = {}
          /\ reader' = [s \in Streams |-> Idle]
          /\ lanes' = [x \in DOMAIN lanes |-> EmptyLane] /\ posts' = 0
          /\ partial' = partial - owned
     ELSE /\ tasks' = tasks \cup response_session(m)
          /\ UNCHANGED <<conn, fail, reader, lanes, posts, partial>>
  /\ events' = Tail(events)
  /\ inbox' = Append(inbox, m)
  /\ UNCHANGED <<leg, frames, bytes, held, unsent, excess, handled, working, answers,
                 script, got>>

(* Mutant: the reservation leaks when the POST starts.                     *)
start_next_leaks(l) ==
  /\ leg = "http" /\ conn = "open" /\ lanes[l].flight = None /\ lanes[l].queued # <<>>
  /\ lanes' = [lanes EXCEPT ![l].flight =
                  [post |-> Head(lanes[l].queued), arrived |-> FALSE],
                            ![l].queued = Tail(@)]
  /\ UNCHANGED <<leg, conn, fail, ledger, reader, tasks, unsent, excess, events,
                 inbox, handled, working, answers, script, opened, posts, got>>

(* PostQueue::start_next, when the loop polls the lane: the reservation of *)
(* the oldest queued POST is dropped and it is sent.                       *)
start_next(l) ==
  /\ leg = "http" /\ conn = "open" /\ lanes[l].flight = None /\ lanes[l].queued # <<>>
  /\ lanes' = [lanes EXCEPT ![l].flight =
                  [post |-> Head(lanes[l].queued), arrived |-> FALSE],
                            ![l].queued = Tail(@)]
  /\ posts' = posts - 1
  /\ UNCHANGED <<leg, conn, fail, ledger, reader, tasks, unsent, excess, events,
                 inbox, handled, working, answers, script, opened, got>>

(* External: a POST reaches the agent, which answers it later.             *)
post_arrives(l) ==
  LET f == lanes[l].flight IN
  /\ leg = "http" /\ conn = "open" /\ f # None /\ ~f.arrived
  /\ got' = Append(got, f.post)
  /\ lanes' = [lanes EXCEPT ![l].flight.arrived = TRUE]
  /\ UNCHANGED <<leg, conn, fail, ledger, reader, tasks, unsent, excess, events,
                 inbox, handled, working, answers, script, opened, posts>>

(* The POST's future resolves: an answer's request is completed by its     *)
(* exact id, which fails for an error with id null, then the HTTP status   *)
(* decides.  A failure ends the connection.                                *)
post_done(l, ok) ==
  LET f == lanes[l].flight IN
  /\ leg = "http" /\ conn = "open" /\ f # None /\ f.arrived
  /\ complete_outbound_response(f.post)
  /\ IF ok /\ f.post.op # "error"
     THEN /\ lanes' = [lanes EXCEPT ![l].flight = None]
          /\ UNCHANGED <<leg, conn, fail, partial, reader, tasks, unsent, excess,
                         events, inbox, handled, working, answers, script, opened, posts, got>>
     ELSE /\ end_leg("post")
          /\ partial' = partial - owned

(* The POST cannot be sent or its response is lost: the connection ends    *)
(* and the request that an answer carried is not completed.                *)
post_fails(l) ==
  /\ leg = "http" /\ conn = "open" /\ lanes[l].flight # None
  /\ end_leg("post")
  /\ partial' = partial - owned
  /\ UNCHANGED <<frames, bytes, held>>

Sizes == 1..Max({Size(m) : m \in In})

Next ==
  \/ \E m \in In : agent_sends(m) \/ \E r \in Outcomes : initialize(m, r)
  \/ \E s \in Streams :
       \/ \E k \in Sizes : read_bounded_line(s, k) \/ read_sse(s, k)
       \/ admit(s) \/ transfer_message(s) \/ sse_send(s) \/ stream_closed(s)
  \/ ws_inbound \/ sse_failure \/ initialize_fails \/ not_initialized
  \/ http_event \/ stdio_written
  \/ \E i \in DOMAIN inbox : on_receive_dispatch(i)
  \/ \E q \in working : respond(q)
  \/ \E o \in outgoing : stdio_write(o) \/ ws_outbound(o) \/ http_outgoing(o)
  \/ \E l \in DOMAIN lanes :
       \/ start_next(l) \/ post_arrives(l) \/ post_fails(l)
       \/ \E ok \in BOOLEAN : post_done(l, ok)

Spec == Init /\ [][Next]_vars

(* Fairness: the tasks of the hub run, its request handlers answer, and a  *)
(* live agent finishes the line or event it is sending and accepts POSTs.  *)
(* It answers the POST of an answer, but may keep the POST of a prompt     *)
(* open until the hub has answered its own requests.  The work of a run is *)
(* finite, so it is enough that some step is taken while one is possible.  *)
Progress ==
  \/ \E s \in Streams :
       \/ \E k \in Sizes : read_bounded_line(s, k) \/ read_sse(s, k)
       \/ admit(s) \/ transfer_message(s) \/ sse_send(s)
  \/ ws_inbound \/ sse_failure \/ http_event \/ stdio_written
  \/ \E i \in DOMAIN inbox : on_receive_dispatch(i)
  \/ \E q \in working : respond(q)
  \/ \E o \in outgoing : stdio_write(o) \/ ws_outbound(o) \/ http_outgoing(o)
  \/ \E l \in DOMAIN lanes : start_next(l) \/ post_arrives(l)
  \/ /\ lanes["response"].flight # None
     /\ \E ok \in BOOLEAN : post_done("response", ok)

Fairness == WF_vars(Progress)

FairSpec == Spec /\ Fairness

-----------------------------------------------------------------------------
(* Type invariant.                                                         *)
TransportTypeOK ==
  /\ conn \in {"fresh", "open", "ended"}
  /\ {frames, bytes, partial, posts} \subseteq Nat
  /\ held \subseteq In /\ working \subseteq In /\ unsent \subseteq In
  /\ tasks \subseteq Streams /\ opened \subseteq Streams
  /\ \A s \in Streams : reader[s].own \in Nat

(* The ledger is exact: its counters are what is reserved, the partial     *)
(* bytes are the sum of what the readers still own (so every exit of a     *)
(* reader gives back what it took), and the limits hold at every moment,   *)
(* on every leg and on every error path.                                   *)
LedgerExact ==
  /\ frames = Cardinality(held) /\ bytes = Sum(held)
  /\ partial = owned
  /\ frames <= MaxFrames /\ bytes + partial <= MaxBytes
  /\ Cardinality(OfKind("req")) <= MaxRequests

(* What the hub retains of the agent's output on an open connection: the   *)
(* messages queued for it, and the requests it has not finished answering. *)
retained ==
  ToSet(events) \cup ToSet(inbox) \cup working
    \cup ({reader[s].sending : s \in Streams} \ {None})
    \cup {q \in In : Kind(q) = "req" /\ Answer(q) \in answers}

(* The acknowledgement by canonical identity never undercounts: for every  *)
(* identity there are as many reservations as retained messages (so no     *)
(* acknowledgement misses), and they are worth at least as many bytes,     *)
(* whatever the order in which a proxy delivers equal payloads.            *)
NeverUndercounts ==
  conn # "ended" =>
    \A m \in In \ unsent :
      LET same == {n \in retained : Kind(n) = Kind(m) /\ Ident(n) = Ident(m)} IN
      IF Kind(m) = "req" THEN m \in retained => m \in held
      ELSE Cardinality(same) = Cardinality(matching(m)) /\ Sum(same) <= Sum(matching(m))

(* The POST budget the two lanes share is exactly the number of queued     *)
(* bodies, through pushes, starts, failures and the end of the connection. *)
PostBudgetExact ==
  /\ posts = Len(lanes["ordered"].queued) + Len(lanes["response"].queued)
  /\ posts <= MaxPosts

(* An agent that keeps within eight unanswered requests, and reuses no id  *)
(* before its answer, is not disconnected by these limits.  The WebSocket  *)
(* loop guarantees it because it releases a request before it reads again. *)
WithinLimitsKept ==
  leg = "ws" /\ fail \in {"requests", "duplicate"} => excess

(* Every request of the agent is answered or the connection ends, although *)
(* the agent may leave the POST of the prompt unanswered until then: the   *)
(* answers have a lane of their own.                                       *)
CallbacksAnswered ==
  \A q \in In : Kind(q) = "req" =>
    (q \in held ~> (Answer(q) \in ToSet(got) \/ conn = "ended"))

(* Both budgets of a connection count exactly what is held, the ledger of  *)
(* the agent's output and the one of the queued POSTs: no path leaks what  *)
(* it reserved or returns it twice, and the limits hold.                   *)
BudgetsExact ==
  TransportTypeOK /\ LedgerExact /\ PostBudgetExact
=============================================================================
