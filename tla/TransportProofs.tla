-------------------------- MODULE TransportProofs --------------------------
(***************************************************************************)
(* Proofs about the bounded transport.  On the WebSocket leg the request   *)
(* limit that the agent can see (requests it has begun to send and got no  *)
(* answer to) is never below the one the hub enforces (requests that hold  *)
(* a reservation), because the loop sends an answer and releases its       *)
(* request before it reads again.  An agent that keeps within the limit it *)
(* can see is therefore never disconnected for it.                         *)
(*                                                                         *)
(* On every leg the two budgets of the connection count exactly what is    *)
(* held, and while it is open what the hub retains of the agent's output   *)
(* is covered by reservations of the same identity.                        *)
(***************************************************************************)
EXTENDS Transport, SumTheorems, SequenceTheorems

Outputs == Scripted \cup {Answer(q) : q \in In} \cup {Error}

(* A reader of the WebSocket leg holds at most the message being read.     *)
WsReader == [own : Nat, msg : In \cup {None}, read : Nat, ready : {<<>>}, sending : {None}]

(* What the WebSocket leg uses of the state has its type.                  *)
WsTypes ==
  /\ held \subseteq In /\ unsent \subseteq In /\ working \subseteq In
  /\ IsFiniteSet(In \ unsent)
  /\ reader \in [Streams -> WsReader]
  /\ inbox \in Seq(In)
  /\ answers \subseteq {Answer(q) : q \in In} \cup {Error}
  /\ script \in Seq(Scripted) /\ got \in Seq(Outputs)
  /\ excess \in BOOLEAN

(* What the agent has not sent, or the hub has not read.                   *)
Unread == unsent \cup ({reader[Main].msg} \ {None})

(* Such a message has left no trace in the hub.                            *)
UnreadIsNew ==
  /\ reader[Main].msg # None => reader[Main].msg \notin unsent
  /\ \A m \in Unread :
       /\ m \notin held /\ m \notin working /\ m \notin ToSet(inbox)
       /\ Answer(m) \notin answers /\ Answer(m) \notin ToSet(got)

(* A request that holds a reservation is outstanding for the agent too.    *)
HeldOutstanding == OfKind("req") \subseteq agent_outstanding

(* As long as the agent has kept within the limit there is room for the    *)
(* request being read, and nobody else uses its id.                        *)
ReadingFits ==
  LET m == reader[Main].msg IN
  ~excess /\ m # None /\ Kind(m) = "req" =>
    /\ Cardinality(OfKind("req")) < MaxRequests
    /\ \A q \in OfKind("req") : ReqId(q) # ReqId(m)

WsInv == WsTypes /\ UnreadIsNew /\ HeldOutstanding /\ ReadingFits /\ WithinLimitsKept

WsLegInv == leg = "ws" => WsInv

-----------------------------------------------------------------------------
(* What an appended element does to the elements of a sequence.            *)
LEMMA AppendSet ==
  ASSUME NEW S, NEW s \in Seq(S), NEW x \in S
  PROVE  Append(s, x) \in Seq(S) /\ ToSet(Append(s, x)) = ToSet(s) \cup {x}
<1>1. /\ Append(s, x) \in Seq(S) /\ Len(s) \in Nat /\ DOMAIN s = 1..Len(s)
      /\ DOMAIN Append(s, x) = 1..(Len(s) + 1)
      /\ \A i \in 1..Len(s) : Append(s, x)[i] = s[i]
      /\ Append(s, x)[Len(s) + 1] = x
  BY AppendProperties, LenProperties
<1>2. ASSUME NEW y \in ToSet(Append(s, x)) PROVE y \in ToSet(s) \cup {x}
  <2>1. PICK i \in 1..(Len(s) + 1) : Append(s, x)[i] = y
    BY <1>1, <1>2 DEF ToSet
  <2>2. i \in 1..Len(s) \/ i = Len(s) + 1
    BY <1>1
  <2> QED
    BY <1>1, <2>1, <2>2 DEF ToSet
<1>3. ASSUME NEW y \in ToSet(s) PROVE y \in ToSet(Append(s, x))
  <2>1. PICK i \in 1..Len(s) : s[i] = y
    BY <1>1, <1>3 DEF ToSet
  <2>2. i \in 1..(Len(s) + 1) /\ Append(s, x)[i] = y
    BY <1>1, <2>1
  <2> QED
    BY <1>1, <2>2 DEF ToSet
<1>4. x \in ToSet(Append(s, x))
  <2>1. Len(s) + 1 \in 1..(Len(s) + 1)
    BY <1>1
  <2> QED
    BY <1>1, <2>1 DEF ToSet
<1> QED
  BY <1>1, <1>2, <1>3, <1>4

(* The same for an element that is removed.                                *)
LEMMA RemoveSet ==
  ASSUME NEW S, NEW s \in Seq(S), NEW i \in DOMAIN s
  PROVE  RemoveAt(s, i) \in Seq(S) /\ ToSet(RemoveAt(s, i)) \subseteq ToSet(s)
<1>1. DOMAIN s = 1..Len(s) /\ Len(s) \in Nat /\ i \in 1..Len(s)
  BY LenProperties
<1> DEFINE a == SubSeq(s, 1, i - 1)
           b == SubSeq(s, i + 1, Len(s))
<1>2. /\ a \in Seq(S) /\ Len(a) = i - 1 /\ \A k \in 1..(i - 1) : a[k] = s[k]
  BY <1>1
<1>3. /\ b \in Seq(S) /\ Len(b) = Len(s) - i /\ \A k \in 1..(Len(s) - i) : b[k] = s[i + k]
  BY <1>1
<1> HIDE DEF a, b
<1>4. /\ a \o b \in Seq(S) /\ DOMAIN (a \o b) = 1..(Len(s) - 1)
      /\ \A k \in 1..(Len(s) - 1) : (a \o b)[k] = IF k <= i - 1 THEN a[k] ELSE b[k - (i - 1)]
  <2>1. /\ a \o b \in Seq(S) /\ Len(a \o b) = Len(a) + Len(b)
        /\ \A k \in 1..(Len(a) + Len(b)) :
             (a \o b)[k] = IF k <= Len(a) THEN a[k] ELSE b[k - Len(a)]
    BY <1>2, <1>3, ConcatProperties
  <2>2. Len(a) + Len(b) = Len(s) - 1
    BY <1>1, <1>2, <1>3
  <2>3. DOMAIN (a \o b) = 1..Len(a \o b)
    BY <2>1, LenProperties
  <2> QED
    BY <1>2, <2>1, <2>2, <2>3
<1>5. ASSUME NEW k \in 1..(Len(s) - 1) PROVE \E j \in 1..Len(s) : (a \o b)[k] = s[j]
  <2>1. CASE k <= i - 1
    <3>1. k \in 1..(i - 1) /\ k \in 1..Len(s)
      BY <1>1, <2>1
    <3> QED
      BY <1>2, <1>4, <2>1, <3>1
  <2>2. CASE ~(k <= i - 1)
    <3>1. k - (i - 1) \in 1..(Len(s) - i) /\ i + (k - (i - 1)) = k + 1 /\ k + 1 \in 1..Len(s)
      BY <1>1, <2>2
    <3> QED
      BY <1>3, <1>4, <2>2, <3>1
  <2> QED
    BY <2>1, <2>2
<1>6. RemoveAt(s, i) = a \o b
  BY DEF RemoveAt, a, b
<1>7. ASSUME NEW y \in ToSet(a \o b) PROVE y \in ToSet(s)
  <2>1. PICK k \in 1..(Len(s) - 1) : (a \o b)[k] = y
    BY <1>4, <1>7 DEF ToSet
  <2> QED
    BY <1>1, <1>5, <2>1 DEF ToSet
<1> QED
  BY <1>4, <1>6, <1>7

(* The reservations of requests are finitely many, and no more than what   *)
(* the agent sees.                                                         *)
LEMMA Counts ==
  ASSUME WsTypes, HeldOutstanding
  PROVE  /\ IsFiniteSet(OfKind("req"))
         /\ Cardinality(OfKind("req")) \in Nat /\ Cardinality(agent_outstanding) \in Nat
         /\ Cardinality(OfKind("req")) <= Cardinality(agent_outstanding)
<1>1. IsFiniteSet(agent_outstanding)
  <2>1. agent_outstanding \in SUBSET (In \ unsent)
    BY DEF agent_outstanding
  <2> QED
    BY <2>1, FS_Subset DEF WsTypes
<1>2. IsFiniteSet(OfKind("req")) /\ Cardinality(OfKind("req")) <= Cardinality(agent_outstanding)
  <2>1. OfKind("req") \in SUBSET agent_outstanding
    BY DEF HeldOutstanding
  <2> QED
    BY <1>1, <2>1, FS_Subset
<1> QED
  BY <1>1, <1>2, FS_CardinalityType

(* The stream of the connection exists.                                    *)
LEMMA MainStream == Main \in Streams
  BY TransportAssumption DEF Streams

(* A step that adds no reservation and begins no message leaves room for   *)
(* the one being read.                                                     *)
LEMMA FitsKept ==
  ASSUME WsTypes, HeldOutstanding, ReadingFits,
         held' \subseteq held, reader'[Main].msg \in {reader[Main].msg, None}, excess' = excess
  PROVE  ReadingFits'
<1>1. OfKind("req")' \in SUBSET OfKind("req")
  BY DEF OfKind
<1>2. /\ Cardinality(OfKind("req")') \in Nat
      /\ Cardinality(OfKind("req")') <= Cardinality(OfKind("req"))
  BY <1>1, Counts, FS_Subset, FS_CardinalityType
<1>3. Cardinality(OfKind("req")) \in Nat /\ MaxRequests \in Nat
  BY Counts, TransportAssumption
<1> QED
  BY <1>1, <1>2, <1>3 DEF ReadingFits

-----------------------------------------------------------------------------
(* The agent begins a message: its view of the limit is checked here, and  *)
(* covers the hub's.                                                       *)
LEMMA SendStep ==
  ASSUME WsInv, leg = "ws", NEW m \in In, agent_sends(m)
  PROVE  WsInv'
<1>1. /\ m \in unsent /\ reader[Main].msg = None /\ unsent' = unsent \ {m}
      /\ reader' = [reader EXCEPT ![Main].msg = m, ![Main].read = 0]
      /\ excess' = (excess \/ (Kind(m) = "req"
                      /\ (\/ Cardinality(agent_outstanding) >= MaxRequests
                          \/ \E q \in agent_outstanding : ReqId(q) = ReqId(m))))
      /\ UNCHANGED <<leg, fail, held, inbox, working, answers, script, got>>
  BY DEF agent_sends, ledger, out
<1>2. /\ reader'[Main].msg = m
      /\ reader' \in [Streams -> WsReader]
  <2>1. /\ reader'[Main] = [[reader[Main] EXCEPT !.msg = m] EXCEPT !.read = 0]
        /\ DOMAIN reader' = Streams /\ \A s \in Streams \ {Main} : reader'[s] = reader[s]
    BY <1>1, MainStream DEF WsInv, WsTypes
  <2>2. \E r \in WsReader : r = [reader[Main] EXCEPT !.msg = m] /\ r.msg = m
    <3>1. reader[Main] \in WsReader
      BY MainStream DEF WsInv, WsTypes
    <3>2. \A r \in WsReader : [r EXCEPT !.msg = m] \in WsReader /\ [r EXCEPT !.msg = m].msg = m
      BY DEF WsReader
    <3> QED
      BY <3>1, <3>2
  <2>3. reader'[Main] \in WsReader /\ reader'[Main].msg = m
    <3>1. PICK r \in WsReader : r = [reader[Main] EXCEPT !.msg = m] /\ r.msg = m
      BY <2>2
    <3>2. [r EXCEPT !.read = 0] \in WsReader /\ [r EXCEPT !.read = 0].msg = m
      BY <3>1 DEF WsReader
    <3> QED
      BY <2>1, <3>1, <3>2
  <2>4. \A s \in Streams : reader'[s] \in WsReader
    BY <2>1, <2>3 DEF WsInv, WsTypes
  <2>5. reader' = [s \in Streams |-> reader'[s]]
    BY <1>1 DEF WsInv, WsTypes
  <2> QED
    BY <2>3, <2>4, <2>5
<1>3. WsTypes'
  <2>1. In \ unsent' = (In \ unsent) \cup {m}
    BY <1>1
  <2>2. IsFiniteSet(In \ unsent')
    <3>1. IsFiniteSet(In \ unsent)
      BY DEF WsInv, WsTypes
    <3>2. IsFiniteSet((In \ unsent) \cup {m})
      BY <3>1, FS_AddElement
    <3> QED
      BY <2>1, <3>2
  <2> QED
    BY <1>1, <1>2, <2>2 DEF WsInv, WsTypes
<1>4. UnreadIsNew'
  BY <1>1, <1>2 DEF WsInv, UnreadIsNew, Unread
<1>5. HeldOutstanding'
  BY <1>1 DEF WsInv, HeldOutstanding, OfKind, agent_outstanding
<1>6. ReadingFits'
  <2>1. ASSUME ~excess', Kind(m) = "req"
        PROVE  /\ Cardinality(OfKind("req")) < MaxRequests
               /\ \A q \in OfKind("req") : ReqId(q) # ReqId(m)
    <3>1. /\ ~(Cardinality(agent_outstanding) >= MaxRequests)
          /\ \A q \in agent_outstanding : ReqId(q) # ReqId(m)
      BY <1>1, <2>1
    <3>2. MaxRequests \in Nat
      BY TransportAssumption
    <3> QED
      BY <3>1, <3>2, Counts DEF WsInv, HeldOutstanding
  <2>2. OfKind("req")' = OfKind("req")
    BY <1>1 DEF OfKind
  <2> QED
    BY <1>2, <2>1, <2>2 DEF ReadingFits
<1>7. WithinLimitsKept'
  BY <1>1 DEF WsInv, WsTypes, WithinLimitsKept
<1> QED
  BY <1>3, <1>4, <1>5, <1>6, <1>7 DEF WsInv

(* The leg ends: nothing is read any more.                                 *)
LEMMA EndStep ==
  ASSUME WsInv, leg = "ws", NEW why, end_leg(why), UNCHANGED held,
         why \in {"requests", "duplicate"} => excess
  PROVE  WsInv'
<1>1. /\ fail' = why /\ reader' = [s \in Streams |-> Idle]
      /\ UNCHANGED <<leg, held, unsent, excess, inbox, working, answers, script, got>>
  BY DEF end_leg
<1>2. /\ reader'[Main].msg = None
      /\ reader' \in [Streams -> WsReader]
  BY <1>1, MainStream DEF WsReader, Idle
<1>3. WsTypes'
  BY <1>1, <1>2 DEF WsInv, WsTypes
<1>4. UnreadIsNew'
  BY <1>1, <1>2 DEF WsInv, UnreadIsNew, Unread
<1>5. HeldOutstanding'
  BY <1>1 DEF WsInv, HeldOutstanding, OfKind, agent_outstanding
<1>6. ReadingFits'
  BY <1>2 DEF ReadingFits
<1>7. WithinLimitsKept'
  BY <1>1 DEF WithinLimitsKept
<1> QED
  BY <1>3, <1>4, <1>5, <1>6, <1>7 DEF WsInv

(* The loop reads a whole frame: it is refused for the request limit only  *)
(* if the agent has exceeded it, else it is charged and delivered.         *)
LEMMA InboundStep ==
  ASSUME WsInv, leg = "ws", ws_inbound
  PROVE  WsInv'
<1> DEFINE m == reader[Main].msg
<1>1. m # None /\ m \in In /\ m \in Unread
  BY MainStream DEF ws_inbound, WsInv, WsTypes, WsReader, Unread
<1>2. CASE refused(m, partial) # None
  <2>1. end_leg(refused(m, partial)) /\ UNCHANGED held
    BY <1>2 DEF ws_inbound
  <2>2. ASSUME refused(m, partial) \in {"requests", "duplicate"}, ~excess PROVE FALSE
    <3>1. Kind(m) = "req" /\ (\/ Cardinality(OfKind("req")) >= MaxRequests
                              \/ \E q \in OfKind("req") : ReqId(q) = ReqId(m))
      BY <2>2, TransportAssumption DEF refused
    <3>2. /\ Cardinality(OfKind("req")) < MaxRequests
          /\ \A q \in OfKind("req") : ReqId(q) # ReqId(m)
      BY <1>1, <2>2, <3>1 DEF WsInv, ReadingFits
    <3>3. Cardinality(OfKind("req")) \in Nat /\ MaxRequests \in Nat
      BY Counts, TransportAssumption DEF WsInv
    <3> QED
      BY <3>1, <3>2, <3>3
  <2>3. refused(m, partial) \in {"requests", "duplicate"} => excess
    BY <2>2 DEF WsInv, WsTypes
  <2> HIDE DEF m
  <2> QED
    BY <2>1, <2>3, EndStep
<1>3. CASE refused(m, partial) = None
  <2>1. /\ held' = held \cup {m} /\ reader' = [reader EXCEPT ![Main] = Idle]
        /\ inbox' = Append(inbox, m)
        /\ UNCHANGED <<leg, fail, unsent, excess, working, answers, script, got>>
    BY <1>3 DEF ws_inbound, track, out
  <2>2. /\ reader'[Main].msg = None
        /\ reader' \in [Streams -> WsReader]
    BY <2>1, MainStream DEF WsInv, WsTypes, WsReader, Idle
  <2>3. inbox' \in Seq(In) /\ ToSet(inbox') = ToSet(inbox) \cup {m}
    <3>1. inbox \in Seq(In)
      BY DEF WsInv, WsTypes
    <3> HIDE DEF m
    <3> QED
      BY <1>1, <2>1, <3>1, AppendSet
  <2>4. WsTypes'
    BY <1>1, <2>1, <2>2, <2>3 DEF WsInv, WsTypes
  <2>5. m \notin unsent /\ Answer(m) \notin ToSet(got)
    BY <1>1 DEF WsInv, UnreadIsNew
  <2>6. UnreadIsNew'
    BY <2>1, <2>2, <2>3, <2>5 DEF WsInv, UnreadIsNew, Unread
  <2>7. HeldOutstanding'
    BY <1>1, <2>1, <2>5 DEF WsInv, HeldOutstanding, OfKind, agent_outstanding
  <2>8. ReadingFits'
    BY <2>2 DEF ReadingFits
  <2>9. WithinLimitsKept'
    BY <2>1 DEF WsInv, WithinLimitsKept
  <2> QED
    BY <2>4, <2>6, <2>7, <2>8, <2>9 DEF WsInv
<1> QED
  BY <1>2, <1>3

(* The consumer takes a message: a reservation may go, none is added.      *)
LEMMA DispatchStep ==
  ASSUME WsInv, leg = "ws", NEW i \in DOMAIN inbox, on_receive_dispatch(i)
  PROVE  WsInv'
<1>1. /\ inbox' = RemoveAt(inbox, i) /\ held' \subseteq held
      /\ \/ working' = working \cup {inbox[i]} /\ answers' = answers
         \/ working' = working /\ answers' \subseteq answers \cup {Error}
      /\ UNCHANGED <<leg, fail, reader, unsent, excess, script, got>>
  BY DEF on_receive_dispatch, release
<1>2. inbox[i] \in In /\ inbox[i] \in ToSet(inbox)
  BY DEF WsInv, WsTypes, ToSet
<1>3. inbox' \in Seq(In) /\ ToSet(inbox') \subseteq ToSet(inbox)
  <2>1. inbox \in Seq(In)
    BY DEF WsInv, WsTypes
  <2> QED
    BY <1>1, <2>1, RemoveSet
<1>4. WsTypes'
  BY <1>1, <1>2, <1>3 DEF WsInv, WsTypes
<1>5. UnreadIsNew'
  <2>1. \A m \in Unread : m # inbox[i] /\ Answer(m) # Error
    BY <1>2 DEF WsInv, UnreadIsNew, Answer, Error
  <2> QED
    BY <1>1, <1>3, <2>1 DEF WsInv, UnreadIsNew, Unread
<1>6. HeldOutstanding'
  BY <1>1 DEF WsInv, HeldOutstanding, OfKind, agent_outstanding
<1>7. ReadingFits'
  BY <1>1, FitsKept DEF WsInv
<1>8. WithinLimitsKept'
  BY <1>1 DEF WsInv, WithinLimitsKept
<1> QED
  BY <1>4, <1>5, <1>6, <1>7, <1>8 DEF WsInv

(* A request handler answers a request that it was given.                  *)
LEMMA RespondStep ==
  ASSUME WsInv, leg = "ws", NEW q \in working, respond(q)
  PROVE  WsInv'
<1>1. /\ working' = working \ {q} /\ answers' = answers \cup {Answer(q)}
      /\ UNCHANGED <<leg, fail, held, reader, unsent, excess, inbox, script, got>>
  BY DEF respond, ledger
<1>2. WsTypes'
  BY <1>1 DEF WsInv, WsTypes
<1>3. UnreadIsNew'
  <2>1. \A m \in Unread : Answer(m) # Answer(q)
    BY DEF WsInv, UnreadIsNew, Answer
  <2> QED
    BY <1>1, <2>1 DEF WsInv, UnreadIsNew, Unread
<1>4. HeldOutstanding'
  BY <1>1 DEF WsInv, HeldOutstanding, OfKind, agent_outstanding
<1>5. ReadingFits'
  BY <1>1, FitsKept DEF WsInv
<1>6. WithinLimitsKept'
  BY <1>1 DEF WsInv, WithinLimitsKept
<1> QED
  BY <1>2, <1>3, <1>4, <1>5, <1>6 DEF WsInv

(* The loop sends a message and, if it is an answer, releases its request  *)
(* in the same step: the agent and the hub stop counting it together.      *)
LEMMA OutboundStep ==
  ASSUME WsInv, leg = "ws", NEW o \in outgoing, ws_outbound(o)
  PROVE  WsInv'
<1>1. /\ got' = Append(got, o) /\ taken(o) /\ complete_outbound_response(o)
      /\ UNCHANGED <<leg, fail, reader, unsent, excess, inbox, working>>
  BY DEF ws_outbound
<1>2. o \in Scripted \/ o \in answers
  BY DEF outgoing, scripted, WsInv, WsTypes
<1>3. o \in Outputs
  BY <1>2 DEF WsInv, WsTypes, Outputs
<1>4. got' \in Seq(Outputs) /\ ToSet(got') = ToSet(got) \cup {o}
  <2>1. got \in Seq(Outputs)
    BY DEF WsInv, WsTypes
  <2> QED
    BY <1>1, <1>3, <2>1, AppendSet
<1>5. held' \subseteq held /\ answers' \subseteq answers /\ script' \in Seq(Scripted)
  <2>1. held' \subseteq held
    BY <1>1 DEF complete_outbound_response, release
  <2>2. ASSUME o \in scripted PROVE Tail(script) \in Seq(Scripted)
    <3>1. script # <<>> /\ script \in Seq(Scripted)
      BY <2>2 DEF scripted, WsInv, WsTypes
    <3> QED
      BY <3>1, HeadTailProperties
  <2> QED
    BY <1>1, <2>1, <2>2 DEF taken, WsInv, WsTypes
<1>6. WsTypes'
  BY <1>1, <1>4, <1>5 DEF WsInv, WsTypes
<1>7. ASSUME NEW q \in In, o = Answer(q) PROVE q \notin held' /\ o \in answers
  <2>1. o.op = "answer" /\ o.req = q
    BY <1>7 DEF Answer
  <2>2. q \notin held'
    BY <1>1, <2>1 DEF complete_outbound_response, release
  <2>3. o \notin Scripted
    BY <2>1, TransportAssumption
  <2> QED
    BY <1>2, <2>2, <2>3
<1>8. UnreadIsNew'
  <2>1. \A m \in Unread : m \in In
    BY MainStream DEF Unread, WsInv, WsTypes, WsReader
  <2>2. \A m \in Unread : o # Answer(m)
    BY <1>7, <2>1 DEF WsInv, UnreadIsNew
  <2> QED
    BY <1>1, <1>4, <1>5, <2>2 DEF WsInv, UnreadIsNew, Unread
<1>9. HeldOutstanding'
  <2> SUFFICES ASSUME NEW q \in held', Kind(q) = "req" PROVE q \in agent_outstanding'
    BY DEF HeldOutstanding, OfKind
  <2>1. q \in agent_outstanding
    BY <1>5 DEF WsInv, HeldOutstanding, OfKind
  <2>2. o # Answer(q)
    BY <1>7, <2>1 DEF agent_outstanding
  <2> QED
    BY <1>1, <1>4, <2>1, <2>2 DEF agent_outstanding
<1>10. ReadingFits'
  BY <1>1, <1>5, FitsKept DEF WsInv
<1>11. WithinLimitsKept'
  BY <1>1 DEF WsInv, WithinLimitsKept
<1> QED
  BY <1>6, <1>8, <1>9, <1>10, <1>11 DEF WsInv

(* The steps of the other two legs.                                        *)
OtherLegs ==
  \/ \E m \in In : \E r \in Outcomes : initialize(m, r)
  \/ \E s \in Streams :
       \/ \E k \in Sizes : read_bounded_line(s, k) \/ read_sse(s, k)
       \/ admit(s) \/ transfer_message(s)
  \/ sse_failure \/ initialize_fails \/ not_initialized \/ http_event \/ stdio_written
  \/ \E o \in outgoing : stdio_write(o) \/ http_outgoing(o)
  \/ \E l \in DOMAIN lanes :
       \/ start_next(l) \/ post_arrives(l) \/ post_fails(l)
       \/ \E ok \in BOOLEAN : post_done(l, ok)

(* They are not taken on the WebSocket leg.                                *)
LEMMA LegChosen == OtherLegs => leg \in {"stdio", "http"}
<1>1. ASSUME NEW m \in In, NEW r \in Outcomes, initialize(m, r) PROVE leg = "http"
  BY <1>1, Zenon DEF initialize
<1>2. ASSUME NEW s \in Streams, NEW k \in Sizes, read_bounded_line(s, k) PROVE leg = "stdio"
  BY <1>2, Zenon DEF read_bounded_line
<1>3. ASSUME NEW s \in Streams, NEW k \in Sizes, read_sse(s, k) PROVE leg = "http"
  BY <1>3, Zenon DEF read_sse
<1>4. ASSUME NEW s \in Streams, admit(s) PROVE leg = "stdio"
  BY <1>4, Zenon DEF admit
<1>5. ASSUME NEW s \in Streams, transfer_message(s) PROVE leg = "http"
  BY <1>5, Zenon DEF transfer_message
<1>6. ASSUME sse_failure PROVE leg = "http"
  BY <1>6, Zenon DEF sse_failure
<1>7. ASSUME initialize_fails \/ not_initialized PROVE leg = "http"
  BY <1>7, Zenon DEF initialize_fails, not_initialized
<1>8. ASSUME http_event PROVE leg = "http"
  BY <1>8, Zenon DEF http_event
<1>9. ASSUME stdio_written PROVE leg = "stdio"
  BY <1>9, Zenon DEF stdio_written
<1>10. ASSUME NEW o \in outgoing, stdio_write(o) PROVE leg = "stdio"
  BY <1>10, Zenon DEF stdio_write
<1>11. ASSUME NEW o \in outgoing, http_outgoing(o) PROVE leg = "http"
  BY <1>11, Zenon DEF http_outgoing
<1>12. ASSUME NEW l \in DOMAIN lanes, start_next(l) PROVE leg = "http"
  BY <1>12, Zenon DEF start_next
<1>13. ASSUME NEW l \in DOMAIN lanes, post_arrives(l) PROVE leg = "http"
  BY <1>13, Zenon DEF post_arrives
<1>14. ASSUME NEW l \in DOMAIN lanes, NEW ok \in BOOLEAN, post_done(l, ok) PROVE leg = "http"
  BY <1>14, Zenon DEF post_done
<1>15. ASSUME NEW l \in DOMAIN lanes, post_fails(l) PROVE leg = "http"
  BY <1>15, Zenon DEF post_fails
<1> QED
  BY <1>1, <1>2, <1>3, <1>4, <1>5, <1>6, <1>7, <1>8, <1>9, <1>10, <1>11, <1>12, <1>13, <1>14,
     <1>15 DEF OtherLegs

(* No step changes the leg.                                                *)
LEMMA LegKept == [Next]_vars => leg' = leg
<1> SUFFICES ASSUME Next PROVE leg' = leg
  BY DEF vars
<1>1. ASSUME NEW m \in In, agent_sends(m) PROVE leg' = leg
  BY <1>1, Zenon DEF agent_sends
<1>2. ASSUME NEW m \in In, NEW r \in Outcomes, initialize(m, r) PROVE leg' = leg
  BY <1>2, Zenon DEF initialize, end_leg
<1>3. ASSUME NEW s \in Streams, NEW k \in Sizes, read_bounded_line(s, k) PROVE leg' = leg
  BY <1>3, Zenon DEF read_bounded_line, end_leg
<1>4. ASSUME NEW s \in Streams, NEW k \in Sizes, read_sse(s, k) PROVE leg' = leg
  BY <1>4, Zenon DEF read_sse
<1>5. ASSUME NEW s \in Streams, admit(s) PROVE leg' = leg
  BY <1>5, Zenon DEF admit, end_leg
<1>6. ASSUME NEW s \in Streams, transfer_message(s) PROVE leg' = leg
  BY <1>6, Zenon DEF transfer_message
<1>7. ASSUME NEW s \in Streams, sse_send(s) PROVE leg' = leg
  BY <1>7, Zenon DEF sse_send
<1>8. ASSUME NEW s \in Streams, stream_closed(s) PROVE leg' = leg
  BY <1>8, Zenon DEF stream_closed, end_leg
<1>9. ASSUME ws_inbound PROVE leg' = leg
  BY <1>9, Zenon DEF ws_inbound, end_leg
<1>10. ASSUME sse_failure PROVE leg' = leg
  BY <1>10, Zenon DEF sse_failure, end_leg
<1>11. ASSUME initialize_fails \/ not_initialized PROVE leg' = leg
  BY <1>11, Zenon DEF initialize_fails, not_initialized, end_leg
<1>12. ASSUME http_event PROVE leg' = leg
  BY <1>12, Zenon DEF http_event
<1>13. ASSUME stdio_written PROVE leg' = leg
  BY <1>13, Zenon DEF stdio_written
<1>14. ASSUME NEW i \in DOMAIN inbox, on_receive_dispatch(i) PROVE leg' = leg
  BY <1>14, Zenon DEF on_receive_dispatch
<1>15. ASSUME NEW q \in working, respond(q) PROVE leg' = leg
  BY <1>15, Zenon DEF respond
<1>16. ASSUME NEW o \in outgoing, stdio_write(o) PROVE leg' = leg
  BY <1>16, Zenon DEF stdio_write
<1>17. ASSUME NEW o \in outgoing, ws_outbound(o) PROVE leg' = leg
  BY <1>17, Zenon DEF ws_outbound
<1>18. ASSUME NEW o \in outgoing, http_outgoing(o) PROVE leg' = leg
  BY <1>18, Zenon DEF http_outgoing, end_leg
<1>19. ASSUME NEW l \in DOMAIN lanes, start_next(l) PROVE leg' = leg
  BY <1>19, Zenon DEF start_next
<1>20. ASSUME NEW l \in DOMAIN lanes, post_arrives(l) PROVE leg' = leg
  BY <1>20, Zenon DEF post_arrives
<1>21. ASSUME NEW l \in DOMAIN lanes, NEW ok \in BOOLEAN, post_done(l, ok) PROVE leg' = leg
  BY <1>21, Zenon DEF post_done, end_leg
<1>22. ASSUME NEW l \in DOMAIN lanes, post_fails(l) PROVE leg' = leg
  BY <1>22, Zenon DEF post_fails, end_leg
<1> QED
  BY <1>1, <1>2, <1>3, <1>4, <1>5, <1>6, <1>7, <1>8, <1>9, <1>10, <1>11, <1>12,
     <1>13, <1>14, <1>15, <1>16, <1>17, <1>18, <1>19, <1>20, <1>21, <1>22 DEF Next

-----------------------------------------------------------------------------
(* Every step of the WebSocket leg keeps the two views of the limit.       *)
LEMMA WsStep ==
  ASSUME WsInv, leg = "ws", [Next]_vars
  PROVE  WsInv'
<1>1. ASSUME NEW m \in In, agent_sends(m) PROVE WsInv'
  BY <1>1, SendStep
<1>2. CASE ws_inbound
  BY <1>2, InboundStep
<1>3. ASSUME NEW s \in Streams, sse_send(s) PROVE WsInv'
  <2>1. reader[s].sending # None
    BY <1>3 DEF sse_send
  <2> QED
    BY <2>1 DEF WsInv, WsTypes, WsReader
<1>4. ASSUME NEW s \in Streams, stream_closed(s) PROVE WsInv'
  <2>1. end_leg("closed") /\ UNCHANGED held
    BY <1>4 DEF stream_closed
  <2> QED
    BY <2>1, EndStep
<1>5. ASSUME NEW i \in DOMAIN inbox, on_receive_dispatch(i) PROVE WsInv'
  BY <1>5, DispatchStep
<1>6. ASSUME NEW q \in working, respond(q) PROVE WsInv'
  BY <1>6, RespondStep
<1>7. ASSUME NEW o \in outgoing, ws_outbound(o) PROVE WsInv'
  BY <1>7, OutboundStep
<1>8. CASE OtherLegs
  BY <1>8, LegChosen
<1>9. CASE UNCHANGED vars
  BY <1>9 DEF vars, ledger, out, WsInv, WsTypes, UnreadIsNew, Unread, HeldOutstanding,
              ReadingFits, OfKind, agent_outstanding, WithinLimitsKept
<1> QED
  BY <1>1, <1>2, <1>3, <1>4, <1>5, <1>6, <1>7, <1>8, <1>9 DEF Next, OtherLegs

(* An agent that keeps within the request limit as it can see it, and      *)
(* reuses no id before its answer, is not disconnected by the limits of    *)
(* the inbound ledger on the WebSocket leg (FlowBudget::track, the loop of *)
(* run_websocket), for any messages, limits and orders of delivery.        *)
THEOREM LimitsAreVisible == Spec => []WithinLimitsKept
<1>1. Init => WsLegInv
  <2> SUFFICES ASSUME Init, leg = "ws" PROVE WsInv
    BY DEF WsLegInv
  <2>1. /\ held = {} /\ unsent = In /\ excess = FALSE /\ inbox = <<>> /\ working = {}
        /\ answers = {} /\ script = Script /\ got = <<>> /\ fail = None
        /\ reader = [s \in Streams |-> Idle]
    BY DEF Init
  <2>2. /\ reader[Main].msg = None
        /\ reader \in [Streams -> WsReader]
    BY <2>1, MainStream DEF WsReader, Idle
  <2>3. IsFiniteSet(In \ unsent)
    <3>1. In \ unsent = {}
      BY <2>1
    <3> QED
      BY <3>1, FS_EmptySet
  <2>4. WsTypes
    <3>1. inbox \in Seq(In) /\ got \in Seq(Outputs)
      BY <2>1, EmptySeq
    <3>2. script \in Seq(Scripted)
      BY <2>1, TransportAssumption
    <3> QED
      BY <2>1, <2>2, <2>3, <3>1, <3>2 DEF WsTypes
  <2>5. UnreadIsNew
    BY <2>1, <2>2 DEF UnreadIsNew, ToSet
  <2>6. HeldOutstanding /\ ReadingFits
    BY <2>1, <2>2 DEF HeldOutstanding, ReadingFits, OfKind
  <2>7. WithinLimitsKept
    BY <2>1, TransportAssumption DEF WithinLimitsKept
  <2> QED
    BY <2>4, <2>5, <2>6, <2>7 DEF WsInv
<1>2. WsLegInv /\ [Next]_vars => WsLegInv'
  BY LegKept, WsStep DEF WsLegInv
<1>3. WsLegInv => WithinLimitsKept
  BY DEF WsLegInv, WsInv, WithinLimitsKept
<1> QED
  BY <1>1, <1>2, <1>3, PTL DEF Spec

-----------------------------------------------------------------------------
(***************************************************************************)
(* The budgets are exact on every leg.  What a track adds to the ledger is *)
(* new to it, because a message is in one place while it is read; what a   *)
(* reader gives back it has reserved; and a leg that ends gives back the   *)
(* bytes of all its readers.                                               *)
(***************************************************************************)
(* What is queued, in the hub's memory and on its way out.                 *)
QueueTypes ==
  /\ conn \in {"fresh", "open", "ended"}
  /\ held \subseteq In /\ working \subseteq In /\ unsent \subseteq In
  /\ tasks \subseteq Streams /\ opened \subseteq Streams
  /\ events \in Seq(In) /\ inbox \in Seq(In)
  /\ script \in Seq(Scripted)
  /\ answers \subseteq {Answer(q) : q \in In} \cup {Error}

LaneTypes ==
  /\ DOMAIN lanes = {"ordered", "response"}
  /\ \A l \in DOMAIN lanes :
       DOMAIN lanes[l] = {"queued", "flight"} /\ lanes[l].queued \in Seq(Outputs)

(* A stream without a reader holds nothing; stdio and WebSocket have one   *)
(* reader, and the latter reserves nothing before it has a whole message.  *)
ReadersPlaced ==
  /\ \A s \in Streams : s \notin tasks => reader[s] = Idle
  /\ leg # "http" => tasks \subseteq {Main}
  /\ leg = "ws" => \A s \in Streams : reader[s].own = 0
  /\ conn = "fresh" => tasks = {}

(* The messages in the hands of a reader: the ledger does not know them,   *)
(* and each is in one place.                                               *)
Holds(r, m) == r.msg = m \/ \E i \in 1..Len(r.ready) : r.ready[i] = m
ReadIsNew ==
  /\ \A m \in held : m \notin unsent
  /\ \A s \in Streams, m \in In : Holds(reader[s], m) => m \notin unsent /\ m \notin held
  /\ \A s, t \in Streams, m \in In : Holds(reader[s], m) /\ Holds(reader[t], m) => s = t

(* A reader has reserved what it has read and not passed on.               *)
ReadyBytes(q) ==
  IF Len(q) = 0 THEN 0 ELSE IF Len(q) = 1 THEN Size(q[1]) ELSE Size(q[1]) + Size(q[2])
RowTypes(r) ==
  /\ DOMAIN r = {"own", "msg", "read", "ready", "sending"}
  /\ r.own \in Nat /\ r.msg \in In \cup {None} /\ r.read \in Nat
  /\ r.ready \in Seq(In) /\ r.sending \in In \cup {None}
RowSound(r) ==
  /\ RowTypes(r)
  /\ \A i \in 1..Len(r.ready) : r.ready[i] # r.msg
  /\ \A i, j \in 1..Len(r.ready) : r.ready[i] = r.ready[j] => i = j
  /\ Len(r.ready) <= 2 /\ r.read + ReadyBytes(r.ready) <= r.own
RowsSound == DOMAIN reader = Streams /\ \A s \in Streams : RowSound(reader[s])

ReadPart == RowsSound /\ ReadersPlaced /\ ReadIsNew

BudgetInv == QueueTypes /\ LaneTypes /\ ReadPart /\ LedgerExact /\ PostBudgetExact

-----------------------------------------------------------------------------
(* The streams are finitely many.                                          *)
LEMMA ImageFinite ==
  ASSUME NEW S, IsFiniteSet(S), NEW f, DOMAIN f = S
  PROVE  IsFiniteSet({f[x] : x \in S})
<1> DEFINE T == {f[x] : x \in S}
<1>1. \E g \in [S -> T] : \A y \in T : \E x \in S : g[x] = y
  <2>1. [x \in S |-> f[x]] \in [S -> T] /\ \A y \in T : \E x \in S : [z \in S |-> f[z]][x] = y
    OBVIOUS
  <2> QED
    BY <2>1
<1>2. \E g : g \in Surjection(S, T)
  BY <1>1 DEF Surjection
<1> HIDE DEF T
<1>3. IsFiniteSet(T)
  BY <1>2, FS_Surjection
<1> QED
  BY <1>3 DEF T

LEMMA StreamsFinite == IsFiniteSet(Streams)
<1>1. IsFiniteSet({StreamOf(m) : m \in In}) /\ IsFiniteSet({Opens(m) : m \in In})
  <2> DEFINE f == [m \in In |-> StreamOf(m)]
             g == [m \in In |-> Opens(m)]
  <2>1. {f[m] : m \in In} = {StreamOf(m) : m \in In} /\ {g[m] : m \in In} = {Opens(m) : m \in In}
    OBVIOUS
  <2>2. DOMAIN f = In /\ DOMAIN g = In
    OBVIOUS
  <2> HIDE DEF f, g
  <2>3. IsFiniteSet({f[m] : m \in In}) /\ IsFiniteSet({g[m] : m \in In})
    BY <2>2, ImageFinite, TransportAssumption
  <2> QED
    BY <2>1, <2>3
<1>2. IsFiniteSet(Scripted)
  <2>1. DOMAIN Script = 1..Len(Script) /\ Len(Script) \in Nat
    BY TransportAssumption, LenProperties
  <2>2. IsFiniteSet(DOMAIN Script)
    BY <2>1, FS_Interval
  <2> QED
    BY <2>2, ImageFinite DEF Scripted
<1>3. IsFiniteSet({o.session : o \in Scripted})
  <2> DEFINE f == [o \in Scripted |-> o.session]
  <2>1. {f[o] : o \in Scripted} = {o.session : o \in Scripted} /\ DOMAIN f = Scripted
    OBVIOUS
  <2> HIDE DEF f
  <2> QED
    BY <1>2, <2>1, ImageFinite
<1>4. IsFiniteSet({Main})
  BY FS_Singleton
<1>5. PICK A, B, C, D : /\ A = {Main} /\ B = {StreamOf(m) : m \in In}
                        /\ C = {Opens(m) : m \in In} /\ D = {o.session : o \in Scripted}
  OBVIOUS
<1>6. IsFiniteSet(((A \cup B) \cup C) \cup D)
  <2>1. IsFiniteSet(A \cup B)
    BY <1>1, <1>4, <1>5, FS_Union
  <2>2. IsFiniteSet((A \cup B) \cup C)
    BY <1>1, <1>5, <2>1, FS_Union
  <2> QED
    BY <1>3, <1>5, <2>2, FS_Union
<1>7. Streams \in SUBSET (((A \cup B) \cup C) \cup D)
  BY <1>5 DEF Streams
<1> QED
  BY <1>6, <1>7, FS_Subset

(* The sum of the sizes of a set of messages.                              *)
Weight == [m \in In |-> Size(m)]
LEMMA SumIs ==
  ASSUME NEW S \in SUBSET In
  PROVE  Sum(S) = SumOf(Weight, S)
<1> DEFINE Eq(g) == g = [s \in SUBSET S |-> IF s = {} THEN 0 ELSE Size(pick(s)) + g[s \ {pick(s)}]]
           c == CHOOSE g : Eq(g)
<1>1. Sum(S) = c[S]
  BY Zenon DEF Sum, MapThenSumSet, MapThenFoldSet, pick
<1>2. IsFiniteSet(S) /\ \A x \in S : Weight[x] \in Nat
  BY FS_Subset, TransportAssumption DEF Weight
<1>3. \A s \in SUBSET S : s # {} => Size(pick(s)) = Weight[pick(s)]
  <2>1. \A s \in SUBSET S : s # {} => pick(s) \in In
    BY DEF pick
  <2> QED
    BY <2>1 DEF Weight
<1>4. \A g : Eq(g) <=> IsSum(g, Weight, S)
  <2> SUFFICES ASSUME NEW g
               PROVE [s \in SUBSET S |-> IF s = {} THEN 0 ELSE Size(pick(s)) + g[s \ {pick(s)}]]
                   = [s \in SUBSET S |-> IF s = {} THEN 0 ELSE Weight[pick(s)] + g[s \ {pick(s)}]]
    BY DEF IsSum
  <2> QED
    BY <1>3
<1>5. \E g : IsSum(g, Weight, S)
  BY <1>2, SumExists
<1>6. IsSum(c, Weight, S)
  <2>1. \E g : Eq(g)
    BY <1>4, <1>5
  <2>2. Eq(c)
    BY <2>1, Zenon
  <2> QED
    BY <1>4, <2>2
<1> HIDE DEF c
<1> QED
  BY <1>1, <1>2, <1>6, SumOfIs

(* The bytes that readers own.                                             *)
Own(r) == [s \in Streams |-> r[s].own]
OwnSum(r) ==
  (CHOOSE g : g = [s \in SUBSET Streams |->
                     IF s = {} THEN 0 ELSE r[pick(s)].own + g[s \ {pick(s)}]])[Streams]
LEMMA OwnSumIs ==
  ASSUME NEW r, \A s \in Streams : r[s].own \in Nat
  PROVE  OwnSum(r) = SumOf(Own(r), Streams)
<1> DEFINE Eq(g) == g = [s \in SUBSET Streams |->
                           IF s = {} THEN 0 ELSE r[pick(s)].own + g[s \ {pick(s)}]]
           c == CHOOSE g : Eq(g)
<1>1. OwnSum(r) = c[Streams]
  BY Zenon DEF OwnSum
<1>2. IsFiniteSet(Streams) /\ \A x \in Streams : Own(r)[x] \in Nat
  BY StreamsFinite DEF Own
<1>3. \A s \in SUBSET Streams : s # {} => r[pick(s)].own = Own(r)[pick(s)]
  <2>1. \A s \in SUBSET Streams : s # {} => pick(s) \in Streams
    BY DEF pick
  <2> QED
    BY <2>1 DEF Own
<1>4. \A g : Eq(g) <=> IsSum(g, Own(r), Streams)
  <2> SUFFICES ASSUME NEW g
               PROVE [s \in SUBSET Streams |-> IF s = {} THEN 0 ELSE r[pick(s)].own + g[s \ {pick(s)}]]
                   = [s \in SUBSET Streams |-> IF s = {} THEN 0 ELSE Own(r)[pick(s)] + g[s \ {pick(s)}]]
    BY DEF IsSum
  <2> QED
    BY <1>3
<1>5. \E g : IsSum(g, Own(r), Streams)
  BY <1>2, SumExists
<1>6. IsSum(c, Own(r), Streams)
  <2>1. \E g : Eq(g)
    BY <1>4, <1>5
  <2>2. Eq(c)
    BY <2>1, Zenon
  <2> QED
    BY <1>4, <2>2
<1> HIDE DEF c
<1> QED
  BY <1>1, <1>2, <1>6, SumOfIs

LEMMA OwnedIs == owned = OwnSum(reader) /\ owned' = OwnSum(reader')
<1>1. owned = OwnSum(reader)
  BY Zenon DEF owned, OwnSum, MapThenSumSet, MapThenFoldSet, pick
<1>2. owned' = OwnSum(reader')
  BY Zenon DEF owned, OwnSum, MapThenSumSet, MapThenFoldSet, pick
<1> QED
  BY <1>1, <1>2

(* What a change of one reader does to their sum, ...                      *)
LEMMA OwnedChange ==
  ASSUME \A t \in Streams : reader[t].own \in Nat /\ reader'[t].own \in Nat,
         NEW s \in Streams, \A t \in Streams \ {s} : reader'[t] = reader[t]
  PROVE  owned' = owned - reader[s].own + reader'[s].own /\ owned \in Nat /\ owned' \in Nat
<1>1. \A t \in Streams : reader[t].own \in Nat /\ reader'[t].own \in Nat
  OBVIOUS
<1>2. owned = SumOf(Own(reader), Streams) /\ owned' = SumOf(Own(reader'), Streams)
  BY <1>1, OwnedIs, OwnSumIs
<1>3. /\ \A t \in Streams : Own(reader)[t] \in Nat /\ Own(reader')[t] \in Nat
      /\ \A t \in Streams \ {s} : Own(reader')[t] = Own(reader)[t]
      /\ Own(reader)[s] = reader[s].own /\ Own(reader')[s] = reader'[s].own
  BY <1>1 DEF Own
<1>4. SumOf(Own(reader'), Streams) = SumOf(Own(reader), Streams) - Own(reader)[s] + Own(reader')[s]
  BY <1>3, StreamsFinite, SumOfChange
<1>5. SumOf(Own(reader), Streams) \in Nat /\ SumOf(Own(reader'), Streams) \in Nat
  BY <1>3, StreamsFinite, SumOfNat
<1> QED
  BY <1>2, <1>3, <1>4, <1>5

(* ... the sum of readers that own nothing, ...                            *)
LEMMA OwnedNone ==
  /\ (\A t \in Streams : reader[t].own = 0) => owned = 0
  /\ reader' = [t \in Streams |-> Idle] => owned' = 0
<1>1. ASSUME \A t \in Streams : reader[t].own = 0 PROVE owned = 0
  <2>1. \A t \in Streams : reader[t].own \in Nat
    BY <1>1
  <2>2. owned = SumOf(Own(reader), Streams)
    BY <2>1, OwnedIs, OwnSumIs
  <2>3. \A t \in Streams : Own(reader)[t] = 0
    BY <1>1 DEF Own
  <2> QED
    BY <2>2, <2>3, StreamsFinite, SumOfZeros
<1>2. ASSUME reader' = [t \in Streams |-> Idle] PROVE owned' = 0
  <2>1. \A t \in Streams : reader'[t].own = 0 /\ reader'[t].own \in Nat
    BY <1>2 DEF Idle
  <2>2. owned' = SumOf(Own(reader'), Streams)
    BY <2>1, OwnedIs, OwnSumIs
  <2>3. \A t \in Streams : Own(reader')[t] = 0
    BY <2>1 DEF Own
  <2> QED
    BY <2>2, <2>3, StreamsFinite, SumOfZeros
<1> QED
  BY <1>1, <1>2

(* ... and that of one reader.                                             *)
LEMMA OwnedOnly ==
  ASSUME \A t \in Streams : reader[t].own \in Nat,
         NEW s \in Streams, \A t \in Streams \ {s} : reader[t].own = 0
  PROVE  owned = reader[s].own
<1>1. \A t \in Streams : reader[t].own \in Nat
  OBVIOUS
<1>2. owned = SumOf(Own(reader), Streams)
  BY <1>1, OwnedIs, OwnSumIs
<1> DEFINE z == [t \in Streams |-> 0]
<1>3. /\ \A t \in Streams : Own(reader)[t] \in Nat /\ z[t] = 0
      /\ \A t \in Streams \ {s} : z[t] = Own(reader)[t]
      /\ Own(reader)[s] = reader[s].own /\ z[s] \in Nat
  BY <1>1 DEF Own
<1> HIDE DEF z
<1>4. SumOf(z, Streams) = SumOf(Own(reader), Streams) - Own(reader)[s] + z[s]
  BY <1>3, StreamsFinite, SumOfChange
<1>5. SumOf(z, Streams) = 0 /\ SumOf(Own(reader), Streams) \in Nat
  BY <1>3, StreamsFinite, SumOfZeros, SumOfNat
<1>6. z[s] = 0 /\ reader[s].own \in Nat
  BY <1>1, <1>3
<1>7. owned \in Nat /\ 0 = owned - reader[s].own + 0
  BY <1>2, <1>3, <1>4, <1>5, <1>6
<1> QED
  BY <1>6, <1>7

(* It is a number of bytes.                                                *)
LEMMA OwnedTotal ==
  ASSUME \A t \in Streams : reader[t].own \in Nat
  PROVE  owned \in Nat
<1>1. \A t \in Streams : reader[t].own \in Nat /\ Own(reader)[t] \in Nat
  BY DEF Own
<1> QED
  BY <1>1, OwnedIs, OwnSumIs, StreamsFinite, SumOfNat

-----------------------------------------------------------------------------
(* The part of the ledger that track and release change.                   *)
Counted ==
  /\ frames = Cardinality(held) /\ bytes = Sum(held)
  /\ frames <= MaxFrames /\ Cardinality(OfKind("req")) <= MaxRequests

LEMMA CountFacts ==
  ASSUME held \subseteq In, Counted
  PROVE  /\ frames \in Nat /\ bytes \in Nat
         /\ IsFiniteSet(held) /\ IsFiniteSet(OfKind("req")) /\ Cardinality(OfKind("req")) \in Nat
         /\ bytes = SumOf(Weight, held) /\ \A m \in held : Weight[m] \in Nat
<1>1. IsFiniteSet(held) /\ OfKind("req") \in SUBSET held /\ \A m \in held : Weight[m] \in Nat
  BY TransportAssumption, FS_Subset DEF OfKind, Weight
<1>2. IsFiniteSet(OfKind("req"))
  BY <1>1, FS_Subset
<1>3. bytes = SumOf(Weight, held)
  BY SumIs DEF Counted
<1> QED
  BY <1>1, <1>2, <1>3, FS_CardinalityType, SumOfNat DEF Counted

(* A message that is new to the ledger and not refused.                    *)
LEMMA TrackCounts ==
  ASSUME held \subseteq In, Counted, NEW m \in In, m \notin held, NEW rest \in Nat,
         refused(m, rest) = None, track(m)
  PROVE  Counted' /\ held' \subseteq In /\ bytes' + rest <= MaxBytes
<1>1. /\ frames' = frames + 1 /\ bytes' = bytes + Size(m) /\ held' = held \cup {m}
      /\ Size(m) \in Nat /\ {MaxFrames, MaxBytes, MaxRequests} \subseteq Nat
  BY TransportAssumption DEF track
<1>2. /\ ~(frames + 1 > MaxFrames) /\ ~(bytes + Size(m) + rest > MaxBytes)
      /\ Kind(m) = "req" => ~(Cardinality(OfKind("req")) >= MaxRequests)
  BY TransportAssumption DEF refused
<1>3. Cardinality(held') = Cardinality(held) + 1
  BY <1>1, CountFacts, FS_AddElement
<1>4. Sum(held') = bytes + Size(m)
  <2>1. SumOf(Weight, held \cup {m}) = SumOf(Weight, held) + Weight[m]
    <3>1. \A x \in held \cup {m} : Weight[x] \in Nat
      BY TransportAssumption DEF Weight
    <3> QED
      BY <3>1, CountFacts, SumOfAdd
  <2>2. Weight[m] = Size(m)
    BY DEF Weight
  <2>3. held' \in SUBSET In
    BY <1>1
  <2>4. Sum(held') = SumOf(Weight, held')
    BY <2>3, SumIs
  <2> QED
    BY <1>1, <2>1, <2>2, <2>4, CountFacts
<1>5. Cardinality(OfKind("req")') <= MaxRequests
  <2>1. CASE Kind(m) = "req"
    <3>1. OfKind("req")' = OfKind("req") \cup {m} /\ m \notin OfKind("req")
      BY <1>1, <2>1 DEF OfKind
    <3>2. Cardinality(OfKind("req") \cup {m}) = Cardinality(OfKind("req")) + 1
      BY <3>1, CountFacts, FS_AddElement
    <3>3. Cardinality(OfKind("req")) \in Nat /\ MaxRequests \in Nat
      BY <1>1, CountFacts
    <3>4. Cardinality(OfKind("req")) + 1 <= MaxRequests
      BY <1>2, <2>1, <3>3
    <3> QED
      BY <3>1, <3>2, <3>4
  <2>2. CASE Kind(m) # "req"
    <3>1. OfKind("req")' = OfKind("req")
      BY <1>1, <2>2 DEF OfKind
    <3> QED
      BY <3>1 DEF Counted
  <2> QED
    BY <2>1, <2>2
<1>6. frames' <= MaxFrames /\ bytes' + rest <= MaxBytes
  BY <1>1, <1>2, CountFacts
<1> QED
  BY <1>1, <1>3, <1>4, <1>5, <1>6 DEF Counted

(* A reservation that is there and is released.                            *)
LEMMA ReleaseCounts ==
  ASSUME held \subseteq In, Counted, NEW m \in held, release(m)
  PROVE  Counted' /\ held' \subseteq held /\ bytes' \in Nat /\ bytes' <= bytes
<1>1. /\ frames' = frames - 1 /\ bytes' = bytes - Size(m) /\ held' = held \ {m}
      /\ Size(m) \in Nat /\ {MaxFrames, MaxBytes, MaxRequests} \subseteq Nat
  BY TransportAssumption DEF release
<1>2. Cardinality(held') = Cardinality(held) - 1
  BY <1>1, CountFacts, FS_RemoveElement
<1>3. Sum(held') = bytes - Size(m) /\ Sum(held') \in Nat
  <2>1. SumOf(Weight, held \ {m}) = SumOf(Weight, held) - Weight[m]
    BY CountFacts, SumOfRemove
  <2>2. Weight[m] = Size(m)
    BY DEF Weight
  <2>3. held' \in SUBSET In /\ IsFiniteSet(held') /\ \A x \in held' : Weight[x] \in Nat
    BY <1>1, CountFacts, FS_RemoveElement
  <2>4. Sum(held') = SumOf(Weight, held') /\ SumOf(Weight, held') \in Nat
    BY <2>3, SumIs, SumOfNat
  <2> QED
    BY <1>1, <2>1, <2>2, <2>4, CountFacts
<1>4. Cardinality(OfKind("req")') <= MaxRequests
  <2>1. OfKind("req")' \in SUBSET OfKind("req")
    BY <1>1 DEF OfKind
  <2>2. Cardinality(OfKind("req")') <= Cardinality(OfKind("req")) /\ Cardinality(OfKind("req")') \in Nat
    BY <2>1, CountFacts, FS_Subset, FS_CardinalityType
  <2> QED
    BY <1>1, <2>2, CountFacts DEF Counted
<1>5. frames' <= MaxFrames /\ bytes' <= bytes
  BY <1>1, CountFacts DEF Counted
<1> QED
  BY <1>1, <1>2, <1>3, <1>4, <1>5 DEF Counted

-----------------------------------------------------------------------------
(* A leg that ends gives everything back.                                  *)
Dropped ==
  /\ reader' = [s \in Streams |-> Idle] /\ tasks' = {}
  /\ lanes' = [l \in DOMAIN lanes |-> EmptyLane] /\ posts' = 0
  /\ conn' = "ended" /\ leg' = leg

LEMMA IdleFacts ==
  /\ RowSound(Idle) /\ Idle.own = 0 /\ Idle.sending = None
  /\ \A m \in In : ~Holds(Idle, m)
<1>1. /\ Idle.own = 0 /\ Idle.msg = None /\ Idle.read = 0 /\ Idle.ready = <<>>
      /\ Idle.sending = None /\ DOMAIN Idle = {"own", "msg", "read", "ready", "sending"}
  BY DEF Idle
<1>2. <<>> \in Seq(In) /\ Len(<<>>) = 0
  BY EmptySeq
<1> QED
  BY <1>1, <1>2, TransportAssumption DEF RowSound, RowTypes, Holds, ReadyBytes

(* What every reader is known to be.                                       *)
LEMMA RowFacts ==
  ASSUME ReadPart
  PROVE  /\ DOMAIN reader = Streams
         /\ \A s \in Streams :
              /\ DOMAIN reader[s] = {"own", "msg", "read", "ready", "sending"}
              /\ RowSound(reader[s]) /\ RowTypes(reader[s]) /\ reader[s].own \in Nat
  BY DEF ReadPart, RowsSound, RowSound, RowTypes

LEMMA DroppedParts ==
  ASSUME Dropped, BudgetInv, held' \subseteq held, unsent' \subseteq unsent
  PROVE  LaneTypes' /\ PostBudgetExact' /\ ReadPart' /\ owned' = 0
<1>1. /\ DOMAIN lanes' = {"ordered", "response"}
      /\ \A l \in {"ordered", "response"} : lanes'[l] = [queued |-> <<>>, flight |-> None]
  BY DEF Dropped, BudgetInv, LaneTypes, EmptyLane
<1>2. LaneTypes'
  <2>1. DOMAIN [queued |-> <<>>, flight |-> None] = {"queued", "flight"}
    OBVIOUS
  <2>2. \A l \in DOMAIN lanes' : DOMAIN lanes'[l] = {"queued", "flight"}
    BY <1>1, <2>1
  <2>3. <<>> \in Seq(Outputs) /\ [queued |-> <<>>, flight |-> None].queued = <<>>
    BY EmptySeq
  <2>4. \A l \in DOMAIN lanes' : lanes'[l].queued \in Seq(Outputs)
    BY <1>1, <2>3
  <2> QED
    BY <1>1, <2>2, <2>4 DEF LaneTypes
<1>3. PostBudgetExact'
  BY <1>1, TransportAssumption DEF PostBudgetExact, Dropped
<1>4. \A s \in Streams : reader'[s] = Idle
  BY DEF Dropped
<1>5. ReadIsNew'
  BY <1>4, IdleFacts DEF ReadIsNew, BudgetInv, ReadPart
<1>6. RowsSound'
  BY <1>4, IdleFacts DEF RowsSound, Dropped
<1>8. ReadersPlaced'
  BY <1>4, IdleFacts DEF ReadersPlaced, Dropped
<1>9. owned' = 0
  BY OwnedNone DEF Dropped
<1> QED
  BY <1>2, <1>3, <1>5, <1>6, <1>8, <1>9 DEF ReadPart

(* Before a leg has started, without WebSocket frames to wait for and with *)
(* one reader the sum is what the step gives back.                         *)
LEMMA OwnedFacts ==
  ASSUME BudgetInv
  PROVE  /\ owned \in Nat /\ partial = owned
         /\ leg = "ws" \/ conn = "fresh" => owned = 0
         /\ leg # "http" => \A s \in tasks : owned = reader[s].own
<1>1. owned \in Nat /\ partial = owned
  BY RowFacts, OwnedTotal DEF BudgetInv, LedgerExact
<1>2. ASSUME leg = "ws" \/ conn = "fresh" PROVE owned = 0
  <2>1. \A s \in Streams : reader[s].own = 0
    BY <1>2, IdleFacts DEF BudgetInv, ReadPart, ReadersPlaced
  <2> QED
    BY <2>1, OwnedNone
<1>3. ASSUME leg # "http", NEW s \in tasks PROVE owned = reader[s].own
  <2>1. s \in Streams /\ \A t \in Streams \ {s} : t \notin tasks
    BY <1>3 DEF BudgetInv, ReadPart, ReadersPlaced, QueueTypes
  <2>2. \A t \in Streams \ {s} : reader[t].own = 0
    BY <2>1, IdleFacts DEF BudgetInv, ReadPart, ReadersPlaced
  <2> QED
    BY <2>1, <2>2, RowFacts, OwnedOnly DEF BudgetInv
<1> QED
  BY <1>1, <1>2, <1>3

(* The end of a leg on any path that gives back what is owned.             *)
LEMMA EndsExact ==
  ASSUME BudgetInv, Dropped, QueueTypes', held' \subseteq held, unsent' \subseteq unsent,
         Counted', bytes' \in Nat, bytes' <= bytes, partial' = 0
  PROVE  BudgetInv'
<1>1. owned' = 0 /\ LaneTypes' /\ PostBudgetExact' /\ ReadPart'
  BY DroppedParts
<1>2. bytes \in Nat /\ partial \in Nat /\ bytes + partial <= MaxBytes /\ MaxBytes \in Nat
  BY OwnedFacts, CountFacts, TransportAssumption DEF BudgetInv, LedgerExact, QueueTypes, Counted
<1>3. bytes' + partial' <= MaxBytes
  <2>1. PICK b : b = bytes'
    OBVIOUS
  <2>2. b \in Nat /\ b <= bytes
    BY <2>1
  <2>3. b + 0 <= MaxBytes
    BY <1>2, <2>2
  <2> QED
    BY <2>1, <2>3
<1> QED
  BY <1>1, <1>3 DEF BudgetInv, LedgerExact, Counted

(* end_leg itself, with the ledger unchanged or a reservation released.    *)
LEMMA EndLeg ==
  ASSUME BudgetInv, NEW why, end_leg(why), partial' = 0,
         UNCHANGED <<frames, bytes, held>> \/ \E m \in held : release(m)
  PROVE  BudgetInv'
<1>1. Dropped
  BY DEF end_leg, Dropped
<1>2. held \subseteq In /\ Counted
  BY DEF BudgetInv, LedgerExact, Counted, QueueTypes
<1>3. Counted' /\ held' \subseteq held /\ unsent' = unsent /\ bytes' \in Nat /\ bytes' <= bytes
  <2>1. CASE UNCHANGED <<frames, bytes, held>>
    BY <1>2, <2>1, CountFacts DEF Counted, OfKind, end_leg
  <2>2. CASE \E m \in held : release(m)
    BY <1>2, <2>2, ReleaseCounts DEF end_leg
  <2> QED
    BY <2>1, <2>2
<1>4. QueueTypes'
  BY <1>2, <1>3 DEF end_leg, BudgetInv, QueueTypes
<1> QED
  BY <1>1, <1>3, <1>4, EndsExact

-----------------------------------------------------------------------------
(* The rows of the readers.                                                *)
LEMMA ReadyFacts ==
  ASSUME NEW q \in Seq(In), Len(q) <= 2
  PROVE  /\ ReadyBytes(q) \in Nat
         /\ \A m \in In : Len(q) < 2 => ReadyBytes(Append(q, m)) = ReadyBytes(q) + Size(m)
         /\ q # <<>> => /\ Head(q) \in In /\ Head(q) = q[1] /\ Len(q) > 0
                        /\ ReadyBytes(q) = ReadyBytes(Tail(q)) + Size(Head(q))
<1>1. Len(q) \in {0, 1, 2} /\ \A i \in 1..Len(q) : q[i] \in In /\ Size(q[i]) \in Nat
  <2>1. Len(q) \in Nat /\ \A i \in 1..Len(q) : q[i] \in In
    OBVIOUS
  <2>2. Len(q) = 0 \/ Len(q) = 1 \/ Len(q) = 2
    <3>1. \A n \in Nat : n <= 2 => n = 0 \/ n = 1 \/ n = 2
      OBVIOUS
    <3> QED
      BY <2>1, <3>1
  <2> QED
    BY <2>1, <2>2, TransportAssumption
<1>2. ReadyBytes(q) \in Nat
  BY <1>1 DEF ReadyBytes
<1>3. ASSUME NEW m \in In, Len(q) < 2 PROVE ReadyBytes(Append(q, m)) = ReadyBytes(q) + Size(m)
  <2>1. /\ Len(Append(q, m)) = Len(q) + 1 /\ Append(q, m)[Len(q) + 1] = m
        /\ \A i \in 1..Len(q) : Append(q, m)[i] = q[i]
    BY AppendProperties
  <2>2. Size(m) \in Nat
    BY TransportAssumption
  <2>3. CASE Len(q) = 0
    BY <2>1, <2>2, <2>3 DEF ReadyBytes
  <2>4. CASE Len(q) = 1
    BY <1>1, <2>1, <2>2, <2>4 DEF ReadyBytes
  <2> QED
    BY <1>1, <1>3, <2>3, <2>4
<1>4. ASSUME q # <<>>
      PROVE  /\ Head(q) \in In /\ Head(q) = q[1] /\ Len(q) > 0
             /\ ReadyBytes(q) = ReadyBytes(Tail(q)) + Size(Head(q))
  <2>1. /\ Len(q) > 0 /\ Head(q) = q[1] /\ Len(Tail(q)) = Len(q) - 1
        /\ \A i \in 1..(Len(q) - 1) : Tail(q)[i] = q[i + 1]
    BY <1>1, <1>4, HeadTailProperties, EmptySeq
  <2>2. Head(q) \in In
    BY <1>1, <2>1
  <2>3. CASE Len(q) = 1
    BY <1>1, <2>1, <2>3 DEF ReadyBytes
  <2>4. CASE Len(q) = 2
    <3>1. Size(q[1]) \in Nat /\ Size(q[2]) \in Nat
      BY <1>1, <2>4
    <3>2. Len(Tail(q)) = 1
      BY <2>1, <2>4
    <3>3. Tail(q)[1] = q[1 + 1]
      BY <2>1, <2>4
    <3>4. ReadyBytes(q) = Size(q[1]) + Size(q[2])
      BY <2>4 DEF ReadyBytes
    <3>5. ReadyBytes(Tail(q)) = Size(q[2])
      BY <3>2, <3>3 DEF ReadyBytes
    <3> QED
      BY <2>1, <3>1, <3>4, <3>5
  <2> QED
    BY <1>1, <2>1, <2>2, <2>3, <2>4
<1> QED
  BY <1>2, <1>3, <1>4

(* A reader begins a message, ...                                          *)
LEMMA BeginRow ==
  ASSUME NEW r, RowSound(r), r.msg = None, NEW m \in In, ~Holds(r, m), NEW q,
         DOMAIN q = DOMAIN r, q.own = r.own, q.msg = m, q.read = 0, q.ready = r.ready,
         q.sending = r.sending
  PROVE  RowSound(q) /\ \A x \in In : Holds(q, x) => Holds(r, x) \/ x = m
<1>1. r.read + ReadyBytes(r.ready) <= r.own => 0 + ReadyBytes(r.ready) <= r.own
  BY ReadyFacts DEF RowSound, RowTypes
<1> QED
  BY <1>1 DEF RowSound, RowTypes, Holds

(* ... reads on, ...                                                       *)
LEMMA ReadRow ==
  ASSUME NEW r, RowSound(r), NEW k \in Nat, NEW q,
         DOMAIN q = DOMAIN r, q.own = r.own + k, q.msg = r.msg, q.read = r.read + k,
         q.ready = r.ready, q.sending = r.sending
  PROVE  RowSound(q) /\ \A x \in In : Holds(q, x) => Holds(r, x)
<1>1. /\ r.read + ReadyBytes(r.ready) <= r.own /\ r.read \in Nat /\ r.own \in Nat
      /\ ReadyBytes(r.ready) \in Nat
  BY ReadyFacts DEF RowSound, RowTypes
<1>2. (r.read + k) + ReadyBytes(r.ready) <= r.own + k /\ r.own + k \in Nat /\ r.read + k \in Nat
  BY <1>1
<1> QED
  BY <1>2 DEF RowSound, RowTypes, Holds

(* ... has read it to the end, ...                                         *)
LEMMA DoneRow ==
  ASSUME NEW r, RowSound(r), NEW k \in Nat, r.msg \in In, r.read + k = Size(r.msg),
         Len(r.ready) < 2, NEW q,
         DOMAIN q = DOMAIN r, q.own = r.own + k, q.msg = None, q.read = 0,
         q.ready = Append(r.ready, r.msg), q.sending = r.sending
  PROVE  RowSound(q) /\ \A x \in In : Holds(q, x) => Holds(r, x)
<1>1. /\ r.read + ReadyBytes(r.ready) <= r.own /\ r.read \in Nat /\ r.own \in Nat
      /\ ReadyBytes(r.ready) \in Nat /\ r.ready \in Seq(In) /\ Len(r.ready) \in Nat
      /\ ReadyBytes(q.ready) = ReadyBytes(r.ready) + Size(r.msg)
  BY ReadyFacts DEF RowSound, RowTypes
<1>2. 0 + ReadyBytes(q.ready) <= r.own + k /\ r.own + k \in Nat
  BY <1>1
<1>3. /\ q.ready \in Seq(In) /\ Len(q.ready) = Len(r.ready) + 1
      /\ \A i \in 1..Len(r.ready) : q.ready[i] = r.ready[i]
      /\ q.ready[Len(r.ready) + 1] = r.msg
  BY <1>1, AppendProperties
<1>4. \A i \in 1..Len(q.ready) : i \in 1..Len(r.ready) \/ i = Len(r.ready) + 1
  BY <1>1, <1>3
<1>5. \A i \in 1..Len(q.ready) : q.ready[i] \in In /\ q.ready[i] # None
  <2>1. \A i \in 1..Len(q.ready) : q.ready[i] \in In
    BY <1>3, ElementOfSeq
  <2>2. None \notin In
    BY TransportAssumption
  <2> QED
    BY <2>1, <2>2
<1>6. \A i, j \in 1..Len(q.ready) : q.ready[i] = q.ready[j] => i = j
  <2> SUFFICES ASSUME NEW i \in 1..Len(q.ready), NEW j \in 1..Len(q.ready), q.ready[i] = q.ready[j]
               PROVE  i = j
    OBVIOUS
  <2>1. \A n \in 1..Len(r.ready) : r.ready[n] # r.msg
    BY DEF RowSound
  <2>2. CASE i \in 1..Len(r.ready) /\ j \in 1..Len(r.ready)
    BY <1>3, <2>2 DEF RowSound
  <2> QED
    BY <1>3, <1>4, <2>1, <2>2
<1>7. \A x \in In : Holds(q, x) => Holds(r, x)
  BY <1>3, <1>4, TransportAssumption DEF Holds
<1>8. Len(q.ready) <= 2
  BY <1>1, <1>3
<1>9. RowTypes(q)
  BY <1>2, <1>3 DEF RowSound, RowTypes
<1>10. \A i \in 1..Len(q.ready) : q.ready[i] # q.msg
  BY <1>5
<1>11. q.read + ReadyBytes(q.ready) <= q.own
  BY <1>2
<1> QED
  BY <1>6, <1>7, <1>8, <1>9, <1>10, <1>11 DEF RowSound

(* ... and passes the oldest on.                                           *)
LEMMA PassRow ==
  ASSUME NEW r, RowSound(r), r.ready # <<>>, NEW q,
         DOMAIN q = DOMAIN r, q.own = r.own - Size(Head(r.ready)), q.msg = r.msg, q.read = r.read,
         q.ready = Tail(r.ready), q.sending = Head(r.ready)
  PROVE  /\ RowSound(q) /\ Head(r.ready) \in In /\ Holds(r, Head(r.ready))
         /\ \A x \in In : Holds(q, x) => Holds(r, x) /\ x # Head(r.ready)
<1>1. /\ r.read + ReadyBytes(r.ready) <= r.own /\ r.read \in Nat /\ r.own \in Nat
      /\ r.ready \in Seq(In) /\ Len(r.ready) \in Nat /\ Len(r.ready) <= 2
  BY DEF RowSound, RowTypes
<1>2. /\ Head(r.ready) \in In /\ Head(r.ready) = r.ready[1] /\ Len(r.ready) > 0
      /\ ReadyBytes(r.ready) = ReadyBytes(Tail(r.ready)) + Size(Head(r.ready))
  BY <1>1, ReadyFacts
<1>3. /\ q.ready \in Seq(In) /\ Len(q.ready) = Len(r.ready) - 1
      /\ \A i \in 1..(Len(r.ready) - 1) : q.ready[i] = r.ready[i + 1]
  BY <1>1, HeadTailProperties
<1>4. ReadyBytes(q.ready) \in Nat /\ Size(Head(r.ready)) \in Nat /\ Len(q.ready) <= 2
  <2>1. Len(q.ready) <= 2
    BY <1>1, <1>3
  <2> QED
    BY <1>2, <1>3, <2>1, ReadyFacts, TransportAssumption
<1>5. r.read + ReadyBytes(q.ready) <= r.own - Size(Head(r.ready)) /\ r.own - Size(Head(r.ready)) \in Nat
  BY <1>1, <1>2, <1>4
<1>6. \A i \in 1..Len(q.ready) : /\ i + 1 \in 1..Len(r.ready) /\ 1 \in 1..Len(r.ready) /\ i + 1 # 1
                                 /\ q.ready[i] = r.ready[i + 1]
  BY <1>1, <1>3
<1>7. /\ \A i, j \in 1..Len(r.ready) : r.ready[i] = r.ready[j] => i = j
      /\ \A i \in 1..Len(r.ready) : r.ready[i] # r.msg
  BY DEF RowSound
<1>8. \A i, j \in 1..Len(q.ready) : q.ready[i] = q.ready[j] => i = j
  <2> SUFFICES ASSUME NEW i \in 1..Len(q.ready), NEW j \in 1..Len(q.ready), q.ready[i] = q.ready[j]
               PROVE  i = j
    OBVIOUS
  <2>1. i + 1 = j + 1
    BY <1>6, <1>7
  <2> QED
    BY <1>3, <2>1
<1>9. 1 \in 1..Len(r.ready)
  BY <1>1, <1>2
<1>10. \A x \in In : Holds(q, x) => Holds(r, x) /\ x # Head(r.ready)
  BY <1>2, <1>6, <1>7, <1>9 DEF Holds
<1>11. RowSound(q)
  BY <1>1, <1>2, <1>3, <1>4, <1>5, <1>6, <1>7, <1>8 DEF RowSound, RowTypes
<1> QED
  BY <1>2, <1>9, <1>10, <1>11 DEF Holds

-----------------------------------------------------------------------------
(* One reader moves: what it then holds it held before, or nobody did.     *)
LEMMA OneReader ==
  ASSUME BudgetInv, NEW s \in tasks, leg' = leg, conn' # "fresh",
         DOMAIN reader' = Streams, \A t \in Streams \ {s} : reader'[t] = reader[t],
         RowSound(reader'[s]), leg = "ws" => reader'[s].own = 0,
         tasks' = tasks \/ (tasks' = tasks \ {s} /\ reader'[s] = Idle),
         unsent' \subseteq unsent,
         \A m \in held' : m \in held \/ (m \in In /\ Holds(reader[s], m) /\ ~Holds(reader'[s], m)),
         \A m \in In : Holds(reader'[s], m) => Holds(reader[s], m) \/ (m \in unsent /\ m \notin unsent')
  PROVE  /\ ReadPart' /\ owned' \in Nat
         /\ owned' = owned - reader[s].own + reader'[s].own
<1>1. s \in Streams /\ ReadPart /\ QueueTypes /\ tasks' \subseteq tasks
  BY DEF BudgetInv, QueueTypes
<1>2. RowsSound'
  BY <1>1 DEF ReadPart, RowsSound
<1>3. ReadersPlaced'
  <2>1. \A t \in Streams : t \notin tasks' => reader'[t] = Idle
    BY <1>1 DEF ReadPart, ReadersPlaced
  <2>2. leg' # "http" => tasks' \subseteq {Main}
    BY <1>1 DEF ReadPart, ReadersPlaced
  <2>3. leg' = "ws" => \A t \in Streams : reader'[t].own = 0
    BY <1>1 DEF ReadPart, ReadersPlaced
  <2> QED
    BY <2>1, <2>2, <2>3 DEF ReadersPlaced
<1>4. ReadIsNew'
  <2>0. ReadIsNew /\ held \subseteq In
    BY <1>1 DEF ReadPart, QueueTypes
  <2>1. \A m \in held' : m \notin unsent'
    BY <1>1, <2>0 DEF ReadIsNew
  <2>2. ASSUME NEW t \in Streams, NEW m \in In, Holds(reader'[t], m)
        PROVE  m \notin unsent' /\ m \notin held'
    <3>1. CASE t = s
      <4>1. m \notin unsent' /\ m \notin held
        BY <1>1, <2>0, <2>2, <3>1 DEF ReadIsNew
      <4> QED
        BY <2>2, <3>1, <4>1
    <3>2. CASE t # s
      <4>1. Holds(reader[t], m)
        BY <2>2, <3>2
      <4>2. m \notin unsent /\ m \notin held /\ ~Holds(reader[s], m)
        BY <1>1, <2>0, <3>2, <4>1 DEF ReadIsNew
      <4> QED
        BY <4>2
    <3> QED
      BY <3>1, <3>2
  <2>3. ASSUME NEW t \in Streams, t # s, NEW m \in In, Holds(reader'[t], m) PROVE ~Holds(reader'[s], m)
    <3>1. Holds(reader[t], m)
      BY <2>3
    <3>2. m \notin unsent /\ ~Holds(reader[s], m)
      BY <1>1, <2>0, <2>3, <3>1 DEF ReadIsNew
    <3> QED
      BY <3>2
  <2>4. ASSUME NEW t \in Streams, NEW u \in Streams, NEW m \in In,
               Holds(reader'[t], m), Holds(reader'[u], m)
        PROVE  t = u
    <3>1. CASE t # s /\ u # s
      <4>1. Holds(reader[t], m) /\ Holds(reader[u], m)
        BY <2>4, <3>1
      <4> QED
        BY <2>0, <4>1 DEF ReadIsNew
    <3> QED
      BY <2>3, <2>4, <3>1
  <2> QED
    BY <2>1, <2>2, <2>4 DEF ReadIsNew
<1>5. \A t \in Streams : reader[t].own \in Nat /\ reader'[t].own \in Nat
  BY <1>1, <1>2, RowFacts DEF RowsSound, RowSound, RowTypes
<1>6. owned' = owned - reader[s].own + reader'[s].own /\ owned' \in Nat
  BY <1>1, <1>5, OwnedChange
<1> QED
  BY <1>2, <1>3, <1>4, <1>6 DEF ReadPart

(* Nothing is read, and no reservation is made.                            *)
LEMMA QuietReaders ==
  ASSUME BudgetInv, UNCHANGED <<leg, reader>>, unsent' \subseteq unsent, held' \subseteq held,
         tasks \subseteq tasks', leg = "http" \/ tasks' = tasks,
         conn' = "fresh" => conn = "fresh" /\ tasks' = tasks
  PROVE  ReadPart' /\ owned' = owned
<1>1. ReadPart
  BY DEF BudgetInv
<1>2. RowsSound' /\ ReadersPlaced'
  BY <1>1 DEF ReadPart, RowsSound, ReadersPlaced
<1>3. ReadIsNew'
  BY <1>1 DEF ReadPart, ReadIsNew
<1>4. owned' = owned
  BY OwnedIs
<1> QED
  BY <1>2, <1>3, <1>4 DEF ReadPart

(* The ledger after a step that reserves nothing.                          *)
LEMMA CountsKept ==
  ASSUME BudgetInv, UNCHANGED <<frames, bytes, held>> \/ \E m \in held : release(m)
  PROVE  Counted' /\ held' \subseteq held /\ held' \subseteq In /\ bytes' \in Nat /\ bytes' <= bytes
<1>1. held \subseteq In /\ Counted
  BY DEF BudgetInv, LedgerExact, Counted, QueueTypes
<1>2. CASE UNCHANGED <<frames, bytes, held>>
  BY <1>1, <1>2, CountFacts DEF Counted, OfKind
<1>3. CASE \E m \in held : release(m)
  BY <1>1, <1>3, ReleaseCounts
<1> QED
  BY <1>2, <1>3

(* A step that leaves the readers alone.                                   *)
LEMMA QuietStep ==
  ASSUME BudgetInv, UNCHANGED <<leg, reader, partial>>, unsent' \subseteq unsent,
         UNCHANGED <<frames, bytes, held>> \/ \E m \in held : release(m),
         tasks \subseteq tasks', leg = "http" \/ tasks' = tasks,
         conn' = "fresh" => conn = "fresh" /\ tasks' = tasks,
         QueueTypes', LaneTypes', PostBudgetExact'
  PROVE  BudgetInv'
<1>1. Counted' /\ held' \subseteq held /\ bytes' \in Nat /\ bytes' <= bytes
  BY CountsKept
<1>2. ReadPart' /\ owned' = owned
  BY <1>1, QuietReaders
<1>3. partial' = owned' /\ partial' = partial /\ bytes + partial <= MaxBytes /\ partial \in Nat
  BY <1>2, OwnedFacts DEF BudgetInv, LedgerExact
<1>4. bytes \in Nat /\ MaxBytes \in Nat
  BY CountFacts, TransportAssumption DEF BudgetInv, LedgerExact, Counted, QueueTypes
<1>5. bytes' + partial' <= MaxBytes
  <2>1. PICK b : b = bytes'
    OBVIOUS
  <2>2. b \in Nat /\ b <= bytes
    BY <1>1, <2>1
  <2>3. b + partial <= MaxBytes
    BY <1>3, <1>4, <2>2
  <2> QED
    BY <1>3, <2>1, <2>3
<1> QED
  BY <1>1, <1>2, <1>3, <1>5 DEF BudgetInv, LedgerExact, Counted

(* Lanes that nobody touches.                                              *)
LEMMA LanesKept ==
  ASSUME BudgetInv, UNCHANGED <<lanes, posts>>
  PROVE  LaneTypes' /\ PostBudgetExact'
  BY DEF BudgetInv, LaneTypes, PostBudgetExact

(* The invariant after a step of a reader, from its parts.                 *)
LEMMA ReaderStep ==
  ASSUME BudgetInv, UNCHANGED <<lanes, posts>>, QueueTypes', ReadPart', Counted',
         partial' = owned', bytes' + partial' <= MaxBytes
  PROVE  BudgetInv'
  BY LanesKept DEF BudgetInv, LedgerExact, Counted

(* The facts about the ledger that the steps below use.                    *)
LEMMA LedgerFacts ==
  ASSUME BudgetInv
  PROVE  /\ held \subseteq In /\ Counted /\ bytes \in Nat /\ MaxBytes \in Nat
         /\ partial = owned /\ partial \in Nat /\ bytes + partial <= MaxBytes
         /\ tasks \subseteq Streams
  BY OwnedFacts, CountFacts, TransportAssumption DEF BudgetInv, LedgerExact, Counted, QueueTypes

-----------------------------------------------------------------------------
(* The agent begins a message.                                             *)
LEMMA SendsExact ==
  ASSUME BudgetInv, NEW m \in In, agent_sends(m)
  PROVE  BudgetInv'
<1>1. PICK s : s = IF leg = "http" THEN StreamOf(m) ELSE Main
  OBVIOUS
<1>2. /\ conn = "open" /\ m \in unsent /\ s \in tasks /\ reader[s].msg = None
      /\ reader' = [reader EXCEPT ![s].msg = m, ![s].read = 0]
      /\ unsent' = unsent \ {m}
      /\ UNCHANGED <<leg, conn, frames, bytes, partial, held, tasks, events, inbox, working,
                     answers, script, opened, lanes, posts>>
  BY <1>1 DEF agent_sends, ledger, out
<1>3. s \in Streams /\ DOMAIN reader = Streams /\ RowSound(reader[s])
      /\ DOMAIN reader[s] = {"own", "msg", "read", "ready", "sending"} /\ reader[s].own \in Nat
  BY <1>2, LedgerFacts, RowFacts DEF BudgetInv
<1>4. /\ DOMAIN reader' = Streams /\ \A t \in Streams \ {s} : reader'[t] = reader[t]
      /\ DOMAIN reader'[s] = DOMAIN reader[s]
      /\ reader'[s].own = reader[s].own /\ reader'[s].msg = m /\ reader'[s].read = 0
      /\ reader'[s].ready = reader[s].ready /\ reader'[s].sending = reader[s].sending
  BY <1>2, <1>3
<1>5. ~Holds(reader[s], m)
  BY <1>2, <1>3 DEF BudgetInv, ReadPart, ReadIsNew
<1>6. RowSound(reader'[s]) /\ \A x \in In : Holds(reader'[s], x) => Holds(reader[s], x) \/ x = m
  BY <1>2, <1>3, <1>4, <1>5, BeginRow
<1>7. leg = "ws" => reader'[s].own = 0
  BY <1>3, <1>4 DEF BudgetInv, ReadPart, ReadersPlaced
<1>8. ReadPart' /\ owned' = owned - reader[s].own + reader'[s].own
  BY <1>2, <1>4, <1>6, <1>7, OneReader
<1>9. partial' = owned' /\ bytes' + partial' <= MaxBytes
  BY <1>2, <1>3, <1>4, <1>8, LedgerFacts
<1>10. QueueTypes'
  BY <1>2 DEF BudgetInv, QueueTypes
<1>11. Counted'
  BY <1>2, LedgerFacts DEF Counted, OfKind
<1> QED
  BY <1>2, <1>8, <1>9, <1>10, <1>11, ReaderStep

(* A chunk of a line.                                                      *)
LEMMA LineExact ==
  ASSUME BudgetInv, NEW s \in Streams, NEW k, read_bounded_line(s, k)
  PROVE  BudgetInv'
<1>1. leg = "stdio" /\ s \in tasks /\ reader[s].msg # None /\ k \in 1..(Size(reader[s].msg) - reader[s].read)
  BY DEF read_bounded_line
<1>2. /\ DOMAIN reader = Streams /\ RowSound(reader[s]) /\ reader[s].own \in Nat
      /\ DOMAIN reader[s] = {"own", "msg", "read", "ready", "sending"}
      /\ reader[s].msg \in In /\ reader[s].read \in Nat /\ Size(reader[s].msg) \in Nat
  BY <1>1, RowFacts, TransportAssumption DEF BudgetInv, RowTypes
<1>3. k \in Nat
  BY <1>1, <1>2
<1>4. CASE bytes + partial + k > MaxBytes
  <2>1. /\ end_leg("partial") /\ partial' = partial - reader[s].own /\ UNCHANGED <<frames, bytes, held>>
    BY <1>4 DEF read_bounded_line
  <2>2. partial' = 0
    BY <1>1, <1>2, <2>1, OwnedFacts
  <2> QED
    BY <2>1, <2>2, EndLeg
<1>5. CASE ~(bytes + partial + k > MaxBytes)
  <2>1. /\ partial' = partial + k
        /\ reader' = [reader EXCEPT ![s].own = @ + k, ![s].read = @ + k]
        /\ UNCHANGED <<leg, conn, frames, bytes, held, tasks, unsent, events, inbox, working,
                       answers, script, opened, lanes, posts>>
    BY <1>5 DEF read_bounded_line, out
  <2>2. /\ DOMAIN reader' = Streams /\ \A t \in Streams \ {s} : reader'[t] = reader[t]
        /\ DOMAIN reader'[s] = DOMAIN reader[s]
        /\ reader'[s].own = reader[s].own + k /\ reader'[s].msg = reader[s].msg
        /\ reader'[s].read = reader[s].read + k
        /\ reader'[s].ready = reader[s].ready /\ reader'[s].sending = reader[s].sending
    BY <1>2, <2>1
  <2>3. RowSound(reader'[s]) /\ \A x \in In : Holds(reader'[s], x) => Holds(reader[s], x)
    BY <1>2, <1>3, <2>2, ReadRow
  <2>4. conn' # "fresh"
    BY <1>1, <2>1 DEF BudgetInv, ReadPart, ReadersPlaced
  <2>5. ReadPart' /\ owned' = owned - reader[s].own + reader'[s].own
    BY <1>1, <2>1, <2>2, <2>3, <2>4, OneReader
  <2>6. partial' = owned' /\ bytes' + partial' <= MaxBytes
    BY <1>2, <1>3, <1>5, <2>1, <2>2, <2>5, LedgerFacts
  <2>7. QueueTypes'
    BY <2>1 DEF BudgetInv, QueueTypes
  <2>8. Counted'
    BY <2>1, LedgerFacts DEF Counted, OfKind
  <2> QED
    BY <2>1, <2>5, <2>6, <2>7, <2>8, ReaderStep
<1> QED
  BY <1>4, <1>5

(* A reader that is done with what it held, or returns.                    *)
LEMMA ResetReader ==
  ASSUME BudgetInv, NEW s \in tasks, leg' = leg, conn' # "fresh",
         reader' = [reader EXCEPT ![s] = Idle], tasks' = tasks \/ tasks' = tasks \ {s},
         unsent' \subseteq unsent,
         \A m \in held' : m \in held \/ (m \in In /\ Holds(reader[s], m))
  PROVE  ReadPart' /\ owned' = owned - reader[s].own /\ owned' \in Nat
<1>1. s \in Streams /\ DOMAIN reader = Streams /\ reader[s].own \in Nat
  BY LedgerFacts, RowFacts DEF BudgetInv
<1>2. /\ DOMAIN reader' = Streams /\ \A t \in Streams \ {s} : reader'[t] = reader[t]
      /\ reader'[s] = Idle
  BY <1>1
<1>3. /\ RowSound(reader'[s]) /\ reader'[s].own = 0 /\ \A m \in In : ~Holds(reader'[s], m)
  BY <1>2, IdleFacts
<1>4. \A m \in held' : m \in held \/ (m \in In /\ Holds(reader[s], m) /\ ~Holds(reader'[s], m))
  BY <1>3
<1>5. ReadPart' /\ owned' = owned - reader[s].own + reader'[s].own /\ owned' \in Nat
  BY <1>2, <1>3, <1>4, OneReader
<1>6. owned - reader[s].own + 0 = owned - reader[s].own
  BY <1>1, OwnedFacts
<1> QED
  BY <1>3, <1>5, <1>6

(* A whole message becomes a reservation, and its reader is free again:    *)
(* admit and the WebSocket frame.                                          *)
LEMMA AdmitExact ==
  ASSUME BudgetInv, NEW s \in tasks, leg # "http", conn # "fresh", reader[s].msg # None,
         refused(reader[s].msg, partial') = None, track(reader[s].msg),
         partial' = partial - reader[s].own, reader' = [reader EXCEPT ![s] = Idle],
         inbox' = Append(inbox, reader[s].msg),
         UNCHANGED <<leg, conn, tasks, unsent, events, working, answers, script, opened, lanes, posts>>
  PROVE  BudgetInv'
<1>1. PICK m : m = reader[s].msg
  OBVIOUS
<1>2. s \in Streams /\ m \in In /\ Holds(reader[s], m)
  BY <1>1, LedgerFacts, RowFacts DEF BudgetInv, RowTypes, Holds
<1>3. m \notin held
  BY <1>2 DEF BudgetInv, ReadPart, ReadIsNew
<1>4. held' = held \cup {m}
  BY <1>1 DEF track
<1>5. ReadPart' /\ owned' = owned - reader[s].own /\ owned' \in Nat
  <2>1. \A x \in held' : x \in held \/ (x \in In /\ Holds(reader[s], x))
    BY <1>2, <1>4
  <2> QED
    BY <2>1, ResetReader
<1>6. partial' = owned'
  BY <1>5, LedgerFacts
<1>7. Counted' /\ held' \subseteq In /\ bytes' + partial' <= MaxBytes
  BY <1>1, <1>2, <1>3, <1>5, <1>6, LedgerFacts, TrackCounts
<1>8. QueueTypes'
  <2>1. inbox' \in Seq(In)
    BY <1>1, <1>2, AppendSet DEF BudgetInv, QueueTypes
  <2> QED
    BY <1>7, <2>1 DEF BudgetInv, QueueTypes
<1> QED
  BY <1>5, <1>6, <1>7, <1>8, ReaderStep

LEMMA StdioExact ==
  ASSUME BudgetInv, NEW s \in Streams, admit(s)
  PROVE  BudgetInv'
<1>1. /\ leg = "stdio" /\ s \in tasks /\ reader[s].msg # None
      /\ partial' = partial - reader[s].own
  BY DEF admit
<1>2. CASE refused(reader[s].msg, partial') # None
  <2>1. end_leg(refused(reader[s].msg, partial')) /\ UNCHANGED <<frames, bytes, held>>
    BY <1>2 DEF admit
  <2>2. partial' = 0
    BY <1>1, OwnedFacts
  <2> QED
    BY <2>1, <2>2, EndLeg
<1>3. CASE refused(reader[s].msg, partial') = None
  <2>1. /\ track(reader[s].msg) /\ reader' = [reader EXCEPT ![s] = Idle]
        /\ inbox' = Append(inbox, reader[s].msg)
        /\ UNCHANGED <<leg, conn, tasks, unsent, events, working, answers, script, opened, lanes, posts>>
    BY <1>3 DEF admit, out
  <2>2. conn # "fresh"
    BY <1>1 DEF BudgetInv, ReadPart, ReadersPlaced
  <2> QED
    BY <1>1, <1>3, <2>1, <2>2, AdmitExact
<1> QED
  BY <1>2, <1>3

LEMMA FrameExact ==
  ASSUME BudgetInv, ws_inbound
  PROVE  BudgetInv'
<1>1. leg = "ws" /\ conn = "open" /\ reader[Main].msg # None /\ partial' = partial
  BY DEF ws_inbound
<1>2. Main \in tasks /\ reader[Main].own = 0 /\ partial = 0
  BY <1>1, MainStream, OwnedFacts DEF BudgetInv, ReadPart, ReadersPlaced, Idle
<1>3. CASE refused(reader[Main].msg, partial) # None
  <2>1. end_leg(refused(reader[Main].msg, partial)) /\ UNCHANGED <<frames, bytes, held>>
    BY <1>3 DEF ws_inbound
  <2> QED
    BY <1>1, <1>2, <2>1, EndLeg
<1>4. CASE refused(reader[Main].msg, partial) = None
  <2>1. /\ track(reader[Main].msg) /\ reader' = [reader EXCEPT ![Main] = Idle]
        /\ inbox' = Append(inbox, reader[Main].msg)
        /\ UNCHANGED <<leg, conn, tasks, unsent, events, working, answers, script, opened, lanes, posts>>
    BY <1>4 DEF ws_inbound, out
  <2>2. partial' = partial - reader[Main].own
    BY <1>1, <1>2
  <2> QED
    BY <1>1, <1>2, <1>4, <2>1, <2>2, AdmitExact
<1> QED
  BY <1>3, <1>4

(* A stream that returns gives back what it owns.                          *)
LEMMA ReturnExact ==
  ASSUME BudgetInv, NEW s \in tasks, conn = "open", tasks' = tasks \ {s},
         reader' = [reader EXCEPT ![s] = Idle], partial' = partial - reader[s].own,
         UNCHANGED <<leg, conn, frames, bytes, held, unsent, events, inbox, working, answers,
                     script, opened, lanes, posts>>
  PROVE  BudgetInv'
<1>1. ReadPart' /\ owned' = owned - reader[s].own /\ owned' \in Nat
  BY ResetReader
<1>2. s \in Streams /\ reader[s].own \in Nat
  BY LedgerFacts, RowFacts DEF BudgetInv
<1>3. partial' = owned' /\ bytes' + partial' <= MaxBytes
  <2>1. bytes + (partial - reader[s].own) <= MaxBytes
    BY <1>2, LedgerFacts
  <2> QED
    BY <1>1, <2>1, LedgerFacts
<1>4. QueueTypes'
  BY DEF BudgetInv, QueueTypes
<1>5. Counted'
  BY LedgerFacts DEF Counted, OfKind
<1> QED
  BY <1>1, <1>3, <1>4, <1>5, ReaderStep

LEMMA ClosedExact ==
  ASSUME BudgetInv, NEW s \in Streams, stream_closed(s)
  PROVE  BudgetInv'
<1>1. /\ conn = "open" /\ s \in tasks /\ partial' = partial - reader[s].own
      /\ UNCHANGED <<frames, bytes, held>>
  BY DEF stream_closed
<1>2. CASE leg = "http"
  <2>1. /\ tasks' = tasks \ {s} /\ reader' = [reader EXCEPT ![s] = Idle]
        /\ UNCHANGED <<leg, conn, unsent, events, inbox, working, answers, script, opened, lanes, posts>>
    BY <1>2 DEF stream_closed, sse_return, out
  <2> QED
    BY <1>1, <2>1, ReturnExact
<1>3. CASE leg # "http"
  <2>1. end_leg("closed")
    BY <1>3 DEF stream_closed
  <2>2. partial' = 0
    BY <1>1, <1>3, RowFacts, OwnedFacts DEF BudgetInv
  <2> QED
    BY <1>1, <2>1, <2>2, EndLeg
<1> QED
  BY <1>2, <1>3

-----------------------------------------------------------------------------
(* The SSE streams: a chunk, ...                                           *)
LEMMA ChunkExact ==
  ASSUME BudgetInv, NEW s \in Streams, NEW k, read_sse(s, k)
  PROVE  BudgetInv'
<1>1. /\ leg = "http" /\ conn = "open" /\ s \in tasks /\ reader[s].msg # None
      /\ Len(reader[s].ready) < 2 /\ k \in 1..(Size(reader[s].msg) - reader[s].read)
      /\ UNCHANGED <<leg, conn, frames, bytes, held, unsent, events, inbox, working, answers,
                     script, opened, lanes, posts>>
  BY DEF read_sse, out
<1>2. /\ DOMAIN reader = Streams /\ RowSound(reader[s]) /\ reader[s].own \in Nat
      /\ DOMAIN reader[s] = {"own", "msg", "read", "ready", "sending"}
      /\ reader[s].msg \in In /\ reader[s].read \in Nat /\ Size(reader[s].msg) \in Nat
  BY <1>1, RowFacts, TransportAssumption DEF BudgetInv, RowTypes
<1>3. k \in Nat
  BY <1>1, <1>2
<1>4. CASE bytes + partial + k + 1 > MaxBytes
  <2>1. /\ tasks' = tasks \ {s} /\ reader' = [reader EXCEPT ![s] = Idle]
        /\ partial' = partial - reader[s].own
    BY <1>4 DEF read_sse, sse_return
  <2> QED
    BY <1>1, <2>1, ReturnExact
<1>5. CASE ~(bytes + partial + k + 1 > MaxBytes)
  <2>1. PICK done \in BOOLEAN : done = (reader[s].read + k = Size(reader[s].msg))
    OBVIOUS
  <2>2. /\ partial' = partial + k /\ tasks' = tasks
        /\ reader' = [reader EXCEPT ![s].own = @ + k, ![s].read = IF done THEN 0 ELSE @ + k,
                        ![s].msg = IF done THEN None ELSE @,
                        ![s].ready = IF done THEN Append(@, reader[s].msg) ELSE @]
    BY <1>5, <2>1 DEF read_sse
  <2>3. /\ DOMAIN reader' = Streams /\ \A t \in Streams \ {s} : reader'[t] = reader[t]
        /\ DOMAIN reader'[s] = DOMAIN reader[s]
    BY <1>2, <2>2
  <2>4. /\ reader'[s].own = reader[s].own + k
        /\ reader'[s].read = IF done THEN 0 ELSE reader[s].read + k
        /\ reader'[s].msg = IF done THEN None ELSE reader[s].msg
        /\ reader'[s].ready = IF done THEN Append(reader[s].ready, reader[s].msg) ELSE reader[s].ready
        /\ reader'[s].sending = reader[s].sending
    BY <1>2, <2>2
  <2>5. RowSound(reader'[s]) /\ \A x \in In : Holds(reader'[s], x) => Holds(reader[s], x)
    <3>1. CASE done
      BY <1>1, <1>2, <1>3, <2>1, <2>3, <2>4, <3>1, DoneRow
    <3>2. CASE ~done
      BY <1>2, <1>3, <2>3, <2>4, <3>2, ReadRow
    <3> QED
      BY <3>1, <3>2
  <2>6. ReadPart' /\ owned' = owned - reader[s].own + reader'[s].own
    BY <1>1, <2>2, <2>3, <2>5, OneReader
  <2>7. partial' = owned' /\ bytes' + partial' <= MaxBytes
    <3>1. bytes + (partial + k) <= MaxBytes /\ partial + k = partial - reader[s].own + (reader[s].own + k)
      BY <1>2, <1>3, <1>5, LedgerFacts
    <3> QED
      BY <1>1, <2>2, <2>4, <2>6, <3>1, LedgerFacts
  <2>8. QueueTypes'
    BY <1>1, <2>2 DEF BudgetInv, QueueTypes
  <2>9. Counted'
    BY <1>1, LedgerFacts DEF Counted, OfKind
  <2> QED
    BY <1>1, <2>6, <2>7, <2>8, <2>9, ReaderStep
<1> QED
  BY <1>4, <1>5

(* ... the transfer of a whole event, ...                                  *)
LEMMA TransferExact ==
  ASSUME BudgetInv, NEW s \in Streams, transfer_message(s)
  PROVE  BudgetInv'
<1>1. PICK m : m = Head(reader[s].ready)
  OBVIOUS
<1>2. /\ leg = "http" /\ conn = "open" /\ s \in tasks /\ reader[s].ready # <<>>
      /\ UNCHANGED <<leg, conn, unsent, events, inbox, working, answers, script, opened, lanes, posts>>
  BY DEF transfer_message, out
<1>3. CASE refused(m, partial - Size(m)) # None
  <2>1. /\ tasks' = tasks \ {s} /\ reader' = [reader EXCEPT ![s] = Idle]
        /\ partial' = partial - reader[s].own /\ UNCHANGED <<frames, bytes, held>>
    BY <1>1, <1>3 DEF transfer_message
  <2> QED
    BY <1>2, <2>1, ReturnExact
<1>4. CASE refused(m, partial - Size(m)) = None
  <2>1. /\ track(m) /\ partial' = partial - Size(m) /\ tasks' = tasks
        /\ reader' = [reader EXCEPT ![s].own = @ - Size(m), ![s].ready = Tail(@), ![s].sending = m]
    BY <1>1, <1>4 DEF transfer_message
  <2>2. /\ DOMAIN reader = Streams /\ RowSound(reader[s]) /\ reader[s].own \in Nat
        /\ DOMAIN reader[s] = {"own", "msg", "read", "ready", "sending"}
    BY RowFacts DEF BudgetInv
  <2>3. /\ DOMAIN reader' = Streams /\ \A t \in Streams \ {s} : reader'[t] = reader[t]
        /\ DOMAIN reader'[s] = DOMAIN reader[s]
        /\ reader'[s].own = reader[s].own - Size(m) /\ reader'[s].msg = reader[s].msg
        /\ reader'[s].read = reader[s].read /\ reader'[s].ready = Tail(reader[s].ready)
        /\ reader'[s].sending = m
    BY <2>1, <2>2
  <2>4. /\ RowSound(reader'[s]) /\ m \in In /\ Holds(reader[s], m)
        /\ \A x \in In : Holds(reader'[s], x) => Holds(reader[s], x) /\ x # m
    BY <1>1, <1>2, <2>2, <2>3, PassRow
  <2>5. m \notin held /\ held' = held \cup {m} /\ Size(m) \in Nat
    BY <2>1, <2>4, TransportAssumption DEF BudgetInv, ReadPart, ReadIsNew, track
  <2>6. \A x \in held' : x \in held \/ (x \in In /\ Holds(reader[s], x) /\ ~Holds(reader'[s], x))
    BY <2>4, <2>5
  <2>7. ReadPart' /\ owned' \in Nat /\ owned' = owned - reader[s].own + reader'[s].own
    BY <1>2, <2>1, <2>3, <2>4, <2>6, OneReader
  <2>8. partial' = owned' /\ partial - Size(m) \in Nat
    <3>1. partial - Size(m) = partial - reader[s].own + (reader[s].own - Size(m))
      BY <2>2, <2>5, LedgerFacts
    <3> QED
      BY <2>1, <2>3, <2>7, <3>1, LedgerFacts
  <2>9. Counted' /\ held' \subseteq In /\ bytes' + partial' <= MaxBytes
    BY <1>4, <2>1, <2>4, <2>5, <2>8, LedgerFacts, TrackCounts
  <2>10. QueueTypes'
    BY <1>2, <2>1, <2>9 DEF BudgetInv, QueueTypes
  <2> QED
    BY <1>2, <2>7, <2>8, <2>9, <2>10, ReaderStep
<1> QED
  BY <1>3, <1>4

(* ... and its hand-over to the loop.                                      *)
LEMMA HandOverExact ==
  ASSUME BudgetInv, NEW s \in Streams, sse_send(s)
  PROVE  BudgetInv'
<1>1. /\ conn = "open" /\ reader[s].sending # None
      /\ events' = Append(events, reader[s].sending)
      /\ reader' = [reader EXCEPT ![s].sending = None]
      /\ UNCHANGED <<leg, conn, frames, bytes, partial, held, tasks, unsent, inbox, working,
                     answers, script, opened, lanes, posts>>
  BY DEF sse_send, ledger, out
<1>2. /\ DOMAIN reader = Streams /\ RowSound(reader[s]) /\ reader[s].own \in Nat
      /\ DOMAIN reader[s] = {"own", "msg", "read", "ready", "sending"} /\ reader[s].sending \in In
  BY <1>1, RowFacts DEF BudgetInv, RowTypes
<1>3. s \in tasks
  BY <1>1, IdleFacts DEF BudgetInv, ReadPart, ReadersPlaced
<1>4. /\ DOMAIN reader' = Streams /\ \A t \in Streams \ {s} : reader'[t] = reader[t]
      /\ DOMAIN reader'[s] = DOMAIN reader[s]
      /\ reader'[s].own = reader[s].own /\ reader'[s].msg = reader[s].msg
      /\ reader'[s].read = reader[s].read /\ reader'[s].ready = reader[s].ready
      /\ reader'[s].sending = None
  BY <1>1, <1>2
<1>5. RowSound(reader'[s]) /\ \A x \in In : Holds(reader'[s], x) => Holds(reader[s], x)
  BY <1>2, <1>4 DEF RowSound, RowTypes, Holds
<1>6. leg = "ws" => reader'[s].own = 0
  BY <1>4 DEF BudgetInv, ReadPart, ReadersPlaced
<1>7. ReadPart' /\ owned' = owned - reader[s].own + reader'[s].own
  BY <1>1, <1>3, <1>4, <1>5, <1>6, OneReader
<1>8. partial' = owned' /\ bytes' + partial' <= MaxBytes
  BY <1>1, <1>2, <1>4, <1>7, LedgerFacts
<1>9. QueueTypes'
  <2>1. events' \in Seq(In)
    BY <1>1, <1>2, AppendSet DEF BudgetInv, QueueTypes
  <2> QED
    BY <1>1, <2>1 DEF BudgetInv, QueueTypes
<1>10. Counted'
  BY <1>1, LedgerFacts DEF Counted, OfKind
<1> QED
  BY <1>1, <1>7, <1>8, <1>9, <1>10, ReaderStep

-----------------------------------------------------------------------------
(* The hub consumes a message: the reservation that is released is there,  *)
(* because a finite set of messages has a smallest one.                    *)
LEMMA SmallestIsOne ==
  ASSUME NEW S \in SUBSET In, S # {}
  PROVE  smallest(S) \in S
<1> DEFINE T == {Size(m) : m \in S}
<1>1. T \in SUBSET Nat /\ T # {}
  BY TransportAssumption
<1>2. PICK n \in T : \A k \in T : n <= k
  <2> HIDE DEF T
  <2> QED
    BY <1>1, LeastNatural
<1>3. \E m \in S : \A k \in S : Size(m) <= Size(k)
  BY <1>2
<1> QED
  BY <1>3 DEF smallest

LEMMA DispatchExact ==
  ASSUME BudgetInv, NEW i \in DOMAIN inbox, on_receive_dispatch(i)
  PROVE  BudgetInv'
<1>1. PICK m : m = inbox[i]
  OBVIOUS
<1>2. /\ inbox' = RemoveAt(inbox, i)
      /\ UNCHANGED <<leg, conn, partial, reader, tasks, unsent, events, script, opened, lanes, posts>>
  BY DEF on_receive_dispatch
<1>3. inbox \in Seq(In) /\ m \in In /\ held \subseteq In
  BY <1>1 DEF BudgetInv, QueueTypes
<1>4. inbox' \in Seq(In)
  BY <1>2, <1>3, RemoveSet
<1>5. /\ UNCHANGED <<frames, bytes, held>> \/ \E h \in held : release(h)
      /\ working' \in {working, working \cup {m}} /\ answers' \in {answers, answers \cup {Error}}
  <2>1. CASE UNCHANGED <<frames, bytes, held>>
    BY <1>1, <2>1 DEF on_receive_dispatch
  <2>2. CASE ~UNCHANGED <<frames, bytes, held>>
    <3>1. /\ matching(m) # {} /\ release(acknowledged(m)) /\ working' = working
          /\ answers' \in {answers, answers \cup {Error}}
      BY <1>1, <2>2 DEF on_receive_dispatch
    <3>2. matching(m) \in SUBSET In /\ matching(m) \subseteq held
      BY <1>3 DEF matching
    <3>3. acknowledged(m) \in held
      BY <3>1, <3>2, SmallestIsOne DEF acknowledged
    <3> QED
      BY <3>1, <3>3
  <2> QED
    BY <2>1, <2>2
<1>6. held' \subseteq In
  BY <1>5, CountsKept
<1>7. QueueTypes'
  BY <1>2, <1>3, <1>4, <1>5, <1>6 DEF BudgetInv, QueueTypes
<1> QED
  BY <1>2, <1>5, <1>7, LanesKept, QuietStep

(* A request handler answers.                                              *)
LEMMA RespondExact ==
  ASSUME BudgetInv, NEW q \in working, respond(q)
  PROVE  BudgetInv'
<1>1. /\ working' = working \ {q} /\ answers' = answers \cup {Answer(q)}
      /\ UNCHANGED <<leg, conn, frames, bytes, partial, held, reader, tasks, unsent, events, inbox,
                     script, opened, lanes, posts>>
  BY DEF respond, ledger
<1>2. QueueTypes'
  BY <1>1 DEF BudgetInv, QueueTypes
<1> QED
  BY <1>1, <1>2, LanesKept, QuietStep

-----------------------------------------------------------------------------
(* What the transport takes from its channel.                              *)
LEMMA TakenTypes ==
  ASSUME BudgetInv, NEW o \in outgoing
  PROVE  /\ o \in Outputs /\ (o \in scripted => o \in Scripted)
         /\ taken(o) => script' \in Seq(Scripted) /\ answers' \subseteq answers
<1>1. script \in Seq(Scripted) /\ answers \subseteq {Answer(q) : q \in In} \cup {Error}
  BY DEF BudgetInv, QueueTypes
<1>2. o \in scripted => o \in Scripted /\ script # <<>>
  <2> SUFFICES ASSUME o \in scripted PROVE o \in Scripted /\ script # <<>>
    OBVIOUS
  <2>1. 1 \in DOMAIN script /\ o = script[1]
    BY DEF scripted
  <2> QED
    BY <1>1, <2>1
<1>3. o \in Outputs
  BY <1>1, <1>2 DEF outgoing, Outputs
<1>4. ASSUME taken(o) PROVE script' \in Seq(Scripted) /\ answers' \subseteq answers
  <2>1. script # <<>> => Tail(script) \in Seq(Scripted)
    BY <1>1, HeadTailProperties
  <2> QED
    BY <1>1, <1>2, <1>4, <2>1 DEF taken
<1> QED
  BY <1>2, <1>3, <1>4

(* The queues of the lanes are left alone.                                 *)
LEMMA QueuesKept ==
  ASSUME BudgetInv, posts' = posts, DOMAIN lanes' = DOMAIN lanes,
         \A l \in DOMAIN lanes : DOMAIN lanes'[l] = DOMAIN lanes[l] /\ lanes'[l].queued = lanes[l].queued
  PROVE  LaneTypes' /\ PostBudgetExact'
  BY DEF BudgetInv, LaneTypes, PostBudgetExact

(* The POST budget is a number.                                            *)
LEMMA PostsNat ==
  ASSUME BudgetInv
  PROVE  /\ posts \in Nat /\ MaxPosts \in Nat /\ posts <= MaxPosts
         /\ \A l \in DOMAIN lanes : Len(lanes[l].queued) \in Nat
<1>1. /\ DOMAIN lanes = {"ordered", "response"}
      /\ \A l \in DOMAIN lanes : lanes[l].queued \in Seq(Outputs)
      /\ posts = Len(lanes["ordered"].queued) + Len(lanes["response"].queued)
      /\ posts <= MaxPosts
  BY DEF BudgetInv, LaneTypes, PostBudgetExact
<1>2. \A l \in DOMAIN lanes : Len(lanes[l].queued) \in Nat
  BY <1>1
<1>3. PICK a \in Nat, b \in Nat :
        a = Len(lanes["ordered"].queued) /\ b = Len(lanes["response"].queued)
  BY <1>1, <1>2
<1>4. a + b \in Nat
  OBVIOUS
<1>5. posts = a + b
  BY <1>1, <1>3
<1> QED
  BY <1>1, <1>2, <1>4, <1>5, TransportAssumption

(* A POST, or a line on its way to the child, starts or ends.              *)
LEMMA FlightKept ==
  ASSUME BudgetInv, posts' = posts, NEW l \in DOMAIN lanes, NEW f,
         lanes' = [lanes EXCEPT ![l].flight = f]
  PROVE  LaneTypes' /\ PostBudgetExact'
<1>1. \A x \in DOMAIN lanes : DOMAIN lanes[x] = {"queued", "flight"}
  BY DEF BudgetInv, LaneTypes
<1>2. /\ DOMAIN lanes' = DOMAIN lanes
      /\ \A x \in DOMAIN lanes : DOMAIN lanes'[x] = DOMAIN lanes[x] /\ lanes'[x].queued = lanes[x].queued
  BY <1>1
<1> QED
  BY <1>2, QueuesKept

(* One queue grows or shrinks, and the budget with it.                     *)
LEMMA QueueMoves ==
  ASSUME BudgetInv, NEW l \in {"ordered", "response"}, DOMAIN lanes' = DOMAIN lanes,
         \A x \in DOMAIN lanes : DOMAIN lanes'[x] = DOMAIN lanes[x],
         \A x \in DOMAIN lanes \ {l} : lanes'[x].queued = lanes[x].queued,
         lanes'[l].queued \in Seq(Outputs), NEW d \in Int, posts' = posts + d,
         Len(lanes'[l].queued) = Len(lanes[l].queued) + d, posts + d <= MaxPosts
  PROVE  LaneTypes' /\ PostBudgetExact'
<1>1. /\ DOMAIN lanes = {"ordered", "response"}
      /\ \A x \in DOMAIN lanes : DOMAIN lanes[x] = {"queued", "flight"} /\ lanes[x].queued \in Seq(Outputs)
      /\ posts = Len(lanes["ordered"].queued) + Len(lanes["response"].queued)
  BY DEF BudgetInv, LaneTypes, PostBudgetExact
<1>2. LaneTypes'
  BY <1>1 DEF LaneTypes
<1>3. Len(lanes["ordered"].queued) \in Nat /\ Len(lanes["response"].queued) \in Nat
  BY <1>1
<1>4. PostBudgetExact'
  <2>0. PICK a \in Nat, b \in Nat :
          a = Len(lanes["ordered"].queued) /\ b = Len(lanes["response"].queued)
    BY <1>3
  <2>a. posts' = (a + d) + b /\ posts' = a + (b + d)
    <3>1. (a + b) + d = (a + d) + b /\ (a + b) + d = a + (b + d)
      OBVIOUS
    <3>2. posts' = (a + b) + d
      BY <1>1, <2>0
    <3> QED
      BY <3>1, <3>2
  <2>1. CASE l = "ordered"
    <3>1. lanes'["response"].queued = lanes["response"].queued
      BY <1>1, <2>1
    <3>2. posts' = Len(lanes'["ordered"].queued) + Len(lanes'["response"].queued)
      BY <2>0, <2>a, <2>1, <3>1
    <3> QED
      BY <3>2 DEF PostBudgetExact
  <2>2. CASE l = "response"
    <3>1. lanes'["ordered"].queued = lanes["ordered"].queued
      BY <1>1, <2>2
    <3>2. posts' = Len(lanes'["ordered"].queued) + Len(lanes'["response"].queued)
      BY <2>0, <2>a, <2>2, <3>1
    <3> QED
      BY <3>2 DEF PostBudgetExact
  <2> QED
    BY <2>1, <2>2
<1> QED
  BY <1>2, <1>4

(* The answer of a request releases its reservation, if there is one.      *)
LEMMA CompleteReleases ==
  ASSUME NEW o, complete_outbound_response(o)
  PROVE  UNCHANGED <<frames, bytes, held>> \/ \E m \in held : release(m)
  BY DEF complete_outbound_response

LEMMA WriteExact ==
  ASSUME BudgetInv, NEW o \in outgoing, stdio_write(o)
  PROVE  BudgetInv'
<1>1. /\ taken(o)
      /\ lanes' = [lanes EXCEPT !["ordered"].flight = [post |-> o, arrived |-> TRUE]]
      /\ UNCHANGED <<leg, conn, frames, bytes, partial, held, reader, tasks, unsent, events, inbox,
                     working, opened, posts>>
  BY DEF stdio_write, ledger
<1>2. "ordered" \in DOMAIN lanes
  BY DEF BudgetInv, LaneTypes
<1>3. QueueTypes'
  BY <1>1, TakenTypes DEF BudgetInv, QueueTypes
<1> QED
  BY <1>1, <1>2, <1>3, FlightKept, QuietStep

LEMMA WrittenExact ==
  ASSUME BudgetInv, stdio_written
  PROVE  BudgetInv'
<1>1. /\ complete_outbound_response(lanes["ordered"].flight.post)
      /\ lanes' = [lanes EXCEPT !["ordered"].flight = None]
      /\ UNCHANGED <<leg, conn, partial, reader, tasks, unsent, events, inbox, working, answers,
                     script, opened, posts>>
  BY DEF stdio_written
<1>2. "ordered" \in DOMAIN lanes
  BY DEF BudgetInv, LaneTypes
<1>3. UNCHANGED <<frames, bytes, held>> \/ \E m \in held : release(m)
  BY <1>1, CompleteReleases
<1>4. QueueTypes'
  BY <1>1, <1>3, CountsKept DEF BudgetInv, QueueTypes
<1> QED
  BY <1>1, <1>2, <1>3, <1>4, FlightKept, QuietStep

LEMMA OutboundExact ==
  ASSUME BudgetInv, NEW o \in outgoing, ws_outbound(o)
  PROVE  BudgetInv'
<1>1. /\ taken(o) /\ complete_outbound_response(o)
      /\ UNCHANGED <<leg, conn, partial, reader, tasks, unsent, events, inbox, working, opened,
                     lanes, posts>>
  BY DEF ws_outbound
<1>2. UNCHANGED <<frames, bytes, held>> \/ \E m \in held : release(m)
  BY <1>1, CompleteReleases
<1>3. QueueTypes'
  BY <1>1, <1>2, TakenTypes, CountsKept DEF BudgetInv, QueueTypes
<1> QED
  BY <1>1, <1>2, <1>3, LanesKept, QuietStep

-----------------------------------------------------------------------------
(* The HTTP loop: the first message, ...                                   *)
LEMMA InitializeExact ==
  ASSUME BudgetInv, NEW m \in In, NEW outcome \in Outcomes, initialize(m, outcome)
  PROVE  BudgetInv'
<1>1. leg = "http" /\ conn = "fresh" /\ m \in unsent /\ script # <<>> /\ partial' = partial
  BY DEF initialize
<1>2. partial = 0 /\ tasks = {} /\ \A s \in Streams : reader[s] = Idle
  BY <1>1, OwnedFacts DEF BudgetInv, ReadPart, ReadersPlaced
<1>3. CASE refused(m, partial) # None
  <2>1. end_leg(refused(m, partial)) /\ UNCHANGED <<frames, bytes, held>>
    BY <1>3 DEF initialize
  <2> QED
    BY <1>1, <1>2, <2>1, EndLeg
<1>4. CASE refused(m, partial) = None
  <2>1. /\ track(m) /\ inbox' = Append(inbox, m) /\ unsent' = unsent \ {m}
        /\ script' = Tail(script) /\ conn' \in {"fresh", "open", "ended"}
        /\ tasks' = IF outcome = "accepted" THEN tasks \cup {Main} ELSE tasks
        /\ (outcome = "accepted" => conn' = "open")
        /\ UNCHANGED <<leg, reader, events, working, answers, opened, lanes, posts>>
    BY <1>4 DEF initialize
  <2>2. m \notin held /\ held' = held \cup {m}
    BY <1>1, <2>1 DEF BudgetInv, ReadPart, ReadIsNew, track
  <2>3. partial \in Nat
    BY LedgerFacts
  <2>4. Counted' /\ held' \subseteq In /\ bytes' + partial <= MaxBytes
    BY <1>4, <2>1, <2>2, <2>3, LedgerFacts, TrackCounts
  <2>5. ReadPart'
    <3>1. RowsSound' /\ ReadersPlaced'
      BY <1>1, <1>2, <2>1 DEF BudgetInv, ReadPart, RowsSound, ReadersPlaced
    <3>2. ReadIsNew'
      BY <1>2, <2>1, <2>2, IdleFacts DEF BudgetInv, ReadPart, ReadIsNew
    <3> QED
      BY <3>1, <3>2 DEF ReadPart
  <2>6. owned' = owned /\ partial' = owned'
    BY <1>1, <2>1, OwnedIs, LedgerFacts
  <2>7. QueueTypes'
    <3>1. inbox' \in Seq(In) /\ script' \in Seq(Scripted)
      BY <1>1, <2>1, AppendSet, HeadTailProperties DEF BudgetInv, QueueTypes
    <3> QED
      BY <1>1, <2>1, <2>4, <3>1, MainStream DEF BudgetInv, QueueTypes
  <2> QED
    BY <1>1, <2>1, <2>4, <2>5, <2>6, <2>7, ReaderStep
<1> QED
  BY <1>3, <1>4

LEMMA FirstExact ==
  ASSUME BudgetInv, initialize_fails \/ not_initialized
  PROVE  BudgetInv'
<1>1. /\ conn = "fresh" /\ UNCHANGED <<frames, bytes, held, partial>>
      /\ \E why \in {"initialize", "first"} : end_leg(why)
  BY DEF initialize_fails, not_initialized, ledger
<1>2. partial' = 0
  BY <1>1, OwnedFacts
<1> QED
  BY <1>1, <1>2, EndLeg

(* ... a stream that ended, ...                                            *)
LEMMA FailureExact ==
  ASSUME BudgetInv, sse_failure
  PROVE  BudgetInv'
<1>1. end_leg(fail) /\ partial' = partial - owned /\ UNCHANGED <<frames, bytes, held>>
  BY DEF sse_failure
<1>2. partial' = 0
  BY <1>1, OwnedFacts
<1> QED
  BY <1>1, <1>2, EndLeg

(* ... a message of the hub, ...                                           *)
LEMMA PushExact ==
  ASSUME BudgetInv, NEW o \in Outputs, NEW l \in {"ordered", "response"}, push(l, o),
         lanes[l].flight = None \/ ~(posts + 1 > MaxPosts)
  PROVE  LaneTypes' /\ PostBudgetExact'
<1>1. /\ DOMAIN lanes = {"ordered", "response"}
      /\ \A x \in DOMAIN lanes : DOMAIN lanes[x] = {"queued", "flight"} /\ lanes[x].queued \in Seq(Outputs)
      /\ posts = Len(lanes["ordered"].queued) + Len(lanes["response"].queued)
  BY DEF BudgetInv, LaneTypes, PostBudgetExact
<1>2. CASE lanes[l].flight = None
  BY <1>1, <1>2, FlightKept DEF push
<1>3. CASE lanes[l].flight # None
  <2>1. lanes' = [lanes EXCEPT ![l].queued = Append(@, o)] /\ posts' = posts + 1
    BY <1>3 DEF push
  <2>2. /\ DOMAIN lanes' = DOMAIN lanes
        /\ \A x \in DOMAIN lanes : DOMAIN lanes'[x] = DOMAIN lanes[x]
        /\ \A x \in DOMAIN lanes \ {l} : lanes'[x].queued = lanes[x].queued
        /\ lanes'[l].queued = Append(lanes[l].queued, o)
    BY <1>1, <2>1
  <2>3. /\ Append(lanes[l].queued, o) \in Seq(Outputs)
        /\ Len(Append(lanes[l].queued, o)) = Len(lanes[l].queued) + 1
    BY <1>1, AppendProperties
  <2>4. posts \in Nat /\ MaxPosts \in Nat
    BY PostsNat
  <2>5. posts + 1 <= MaxPosts
    BY <1>3, <2>4
  <2> QED
    BY <2>1, <2>2, <2>3, <2>5, QueueMoves
<1> QED
  BY <1>2, <1>3

LEMMA OutgoingExact ==
  ASSUME BudgetInv, NEW o \in outgoing, http_outgoing(o)
  PROVE  BudgetInv'
<1>1. PICK l : l = lane_of(o) /\ l \in {"ordered", "response"}
  BY DEF lane_of
<1>2. leg = "http" /\ conn = "open"
  BY DEF http_outgoing
<1>3. CASE \/ new_session(o) # {} /\ Cardinality(tasks) >= MaxSse
           \/ lanes[l].flight # None /\ posts + 1 > MaxPosts
  <2>1. end_leg("limit") /\ partial' = partial - owned /\ UNCHANGED <<frames, bytes, held>>
    BY <1>1, <1>3 DEF http_outgoing
  <2>2. partial' = 0
    BY <2>1, OwnedFacts
  <2> QED
    BY <2>1, <2>2, EndLeg
<1>4. CASE ~(\/ new_session(o) # {} /\ Cardinality(tasks) >= MaxSse
             \/ lanes[l].flight # None /\ posts + 1 > MaxPosts)
  <2>1. /\ opened' = opened \cup new_session(o) /\ tasks' = tasks \cup new_session(o)
        /\ push(l, o) /\ taken(o)
        /\ UNCHANGED <<leg, conn, frames, bytes, partial, held, reader, unsent, events, inbox, working>>
    BY <1>1, <1>4 DEF http_outgoing, ledger
  <2>2. new_session(o) \subseteq Streams
    BY TakenTypes DEF new_session, Streams
  <2>3. LaneTypes' /\ PostBudgetExact'
    BY <1>1, <1>4, <2>1, TakenTypes, PushExact
  <2>4. QueueTypes'
    BY <2>1, <2>2, TakenTypes DEF BudgetInv, QueueTypes
  <2> QED
    BY <1>2, <2>1, <2>3, <2>4, QuietStep
<1> QED
  BY <1>3, <1>4

(* ... a message of the agent, ...                                         *)
LEMMA EventExact ==
  ASSUME BudgetInv, http_event
  PROVE  BudgetInv'
<1>1. PICK m : m = Head(events)
  OBVIOUS
<1>2. /\ leg = "http" /\ conn = "open" /\ events # <<>>
      /\ opened' = opened \cup response_session(m)
      /\ events' = Tail(events) /\ inbox' = Append(inbox, m)
      /\ UNCHANGED <<leg, frames, bytes, held, unsent, working, answers, script>>
  BY <1>1 DEF http_event
<1>3. events \in Seq(In) /\ inbox \in Seq(In)
  BY DEF BudgetInv, QueueTypes
<1>4. m \in In /\ events' \in Seq(In)
  BY <1>1, <1>2, <1>3, HeadTailProperties
<1>5. inbox' \in Seq(In)
  BY <1>2, <1>3, <1>4, AppendSet
<1>6. response_session(m) \subseteq Streams
  BY <1>4 DEF response_session, Streams
<1>7. CASE response_session(m) # {} /\ Cardinality(tasks) >= MaxSse
  <2>1. Dropped /\ partial' = partial - owned
    BY <1>1, <1>2, <1>7 DEF http_event, Dropped
  <2>2. partial' = 0
    BY <2>1, OwnedFacts
  <2>3. QueueTypes'
    BY <1>2, <1>4, <1>5, <1>6, <2>1 DEF BudgetInv, QueueTypes, Dropped
  <2>4. Counted' /\ bytes' \in Nat /\ bytes' <= bytes /\ held' \subseteq held /\ unsent' \subseteq unsent
    BY <1>2, CountsKept
  <2> QED
    BY <2>1, <2>2, <2>3, <2>4, EndsExact
<1>8. CASE ~(response_session(m) # {} /\ Cardinality(tasks) >= MaxSse)
  <2>1. /\ tasks' = tasks \cup response_session(m)
        /\ UNCHANGED <<conn, reader, lanes, posts, partial>>
    BY <1>1, <1>8 DEF http_event
  <2>2. QueueTypes'
    BY <1>2, <1>4, <1>5, <1>6, <2>1 DEF BudgetInv, QueueTypes
  <2> QED
    BY <1>2, <2>1, <2>2, LanesKept, QuietStep
<1> QED
  BY <1>7, <1>8

(* ... and the POSTs.                                                      *)
LEMMA StartExact ==
  ASSUME BudgetInv, NEW l \in DOMAIN lanes, start_next(l)
  PROVE  BudgetInv'
<1>1. /\ lanes[l].queued # <<>> /\ posts' = posts - 1
      /\ lanes' = [lanes EXCEPT ![l].flight = [post |-> Head(lanes[l].queued), arrived |-> FALSE],
                                ![l].queued = Tail(@)]
      /\ UNCHANGED <<leg, conn, frames, bytes, partial, held, reader, tasks, unsent, events, inbox,
                     working, answers, script, opened>>
  BY DEF start_next, ledger
<1>2. /\ DOMAIN lanes = {"ordered", "response"} /\ posts <= MaxPosts
      /\ \A x \in DOMAIN lanes : DOMAIN lanes[x] = {"queued", "flight"} /\ lanes[x].queued \in Seq(Outputs)
      /\ posts = Len(lanes["ordered"].queued) + Len(lanes["response"].queued)
  BY DEF BudgetInv, LaneTypes, PostBudgetExact
<1>3. /\ DOMAIN lanes' = DOMAIN lanes
      /\ \A x \in DOMAIN lanes : DOMAIN lanes'[x] = DOMAIN lanes[x]
      /\ \A x \in DOMAIN lanes \ {l} : lanes'[x].queued = lanes[x].queued
      /\ lanes'[l].queued = Tail(lanes[l].queued)
  BY <1>1, <1>2
<1>4. /\ Tail(lanes[l].queued) \in Seq(Outputs)
      /\ Len(Tail(lanes[l].queued)) = Len(lanes[l].queued) - 1
  BY <1>1, <1>2, HeadTailProperties
<1>6. posts \in Nat /\ MaxPosts \in Nat /\ Len(lanes[l].queued) \in Nat
  BY PostsNat
<1>7. /\ posts' = posts + (-1) /\ posts + (-1) <= MaxPosts
      /\ Len(lanes'[l].queued) = Len(lanes[l].queued) + (-1)
  BY <1>1, <1>2, <1>3, <1>4, <1>6
<1>8. LaneTypes' /\ PostBudgetExact'
  <2>1. -1 \in Int
    OBVIOUS
  <2> QED
    BY <1>2, <1>3, <1>4, <1>7, <2>1, QueueMoves
<1>9. QueueTypes'
  BY <1>1 DEF BudgetInv, QueueTypes
<1> QED
  BY <1>1, <1>8, <1>9, QuietStep

LEMMA ArrivesExact ==
  ASSUME BudgetInv, NEW l \in DOMAIN lanes, post_arrives(l)
  PROVE  BudgetInv'
<1>1. /\ lanes' = [lanes EXCEPT ![l].flight.arrived = TRUE]
      /\ UNCHANGED <<leg, conn, frames, bytes, partial, held, reader, tasks, unsent, events, inbox,
                     working, answers, script, opened, posts>>
  BY DEF post_arrives, ledger
<1>2. \A x \in DOMAIN lanes : DOMAIN lanes[x] = {"queued", "flight"}
  BY DEF BudgetInv, LaneTypes
<1>3. /\ DOMAIN lanes' = DOMAIN lanes
      /\ \A x \in DOMAIN lanes : DOMAIN lanes'[x] = DOMAIN lanes[x] /\ lanes'[x].queued = lanes[x].queued
  BY <1>1, <1>2
<1>4. QueueTypes'
  BY <1>1 DEF BudgetInv, QueueTypes
<1> QED
  BY <1>1, <1>3, <1>4, QueuesKept, QuietStep

LEMMA DoneExact ==
  ASSUME BudgetInv, NEW l \in DOMAIN lanes, NEW ok \in BOOLEAN, post_done(l, ok)
  PROVE  BudgetInv'
<1>1. complete_outbound_response(lanes[l].flight.post)
  BY DEF post_done
<1>2. UNCHANGED <<frames, bytes, held>> \/ \E m \in held : release(m)
  BY <1>1, CompleteReleases
<1>3. CASE ok /\ lanes[l].flight.post.op # "error"
  <2>1. /\ lanes' = [lanes EXCEPT ![l].flight = None]
        /\ UNCHANGED <<leg, conn, partial, reader, tasks, unsent, events, inbox, working, answers,
                       script, opened, posts>>
    BY <1>3 DEF post_done
  <2>2. QueueTypes'
    BY <1>2, <2>1, CountsKept DEF BudgetInv, QueueTypes
  <2> QED
    BY <1>2, <2>1, <2>2, FlightKept, QuietStep
<1>4. CASE ~(ok /\ lanes[l].flight.post.op # "error")
  <2>1. end_leg("post") /\ partial' = partial - owned
    BY <1>4 DEF post_done
  <2>2. partial' = 0
    BY <2>1, OwnedFacts
  <2> QED
    BY <1>2, <2>1, <2>2, EndLeg
<1> QED
  BY <1>3, <1>4

LEMMA LostExact ==
  ASSUME BudgetInv, NEW l \in DOMAIN lanes, post_fails(l)
  PROVE  BudgetInv'
<1>1. end_leg("post") /\ partial' = partial - owned /\ UNCHANGED <<frames, bytes, held>>
  BY DEF post_fails
<1>2. partial' = 0
  BY <1>1, OwnedFacts
<1> QED
  BY <1>1, <1>2, EndLeg

-----------------------------------------------------------------------------
(* The budgets are exact at the start, ...                                 *)
LEMMA BudgetsStart == Init => BudgetInv
<1> SUFFICES ASSUME Init PROVE BudgetInv
  OBVIOUS
<1>1. /\ conn \in {"fresh", "open"} /\ frames = 0 /\ bytes = 0 /\ partial = 0 /\ held = {}
      /\ reader = [s \in Streams |-> Idle] /\ tasks \subseteq {Main}
      /\ (leg = "http" => tasks = {}) /\ (conn = "fresh" => leg = "http")
      /\ unsent = In /\ events = <<>> /\ inbox = <<>> /\ working = {} /\ answers = {}
      /\ script = Script /\ opened = {} /\ posts = 0
      /\ lanes = [l \in {"ordered", "response"} |-> EmptyLane]
  BY DEF Init
<1>2. QueueTypes
  <2>1. <<>> \in Seq(In) /\ Script \in Seq(Scripted)
    BY EmptySeq, TransportAssumption
  <2> QED
    BY <1>1, <2>1, MainStream DEF QueueTypes
<1>3. /\ DOMAIN lanes = {"ordered", "response"}
      /\ \A l \in DOMAIN lanes : DOMAIN lanes[l] = {"queued", "flight"} /\ lanes[l].queued = <<>>
  BY <1>1 DEF EmptyLane
<1>4. <<>> \in Seq(Outputs) /\ Len(<<>>) = 0
  BY EmptySeq
<1>5. LaneTypes /\ PostBudgetExact
  <2>1. LaneTypes
    BY <1>3, <1>4 DEF LaneTypes
  <2>2. lanes["ordered"].queued = <<>> /\ lanes["response"].queued = <<>>
    BY <1>3
  <2>3. posts = Len(lanes["ordered"].queued) + Len(lanes["response"].queued)
    <3>1. 0 = 0 + 0
      OBVIOUS
    <3> QED
      BY <1>1, <1>4, <2>2, <3>1
  <2>4. 0 <= MaxPosts
    BY TransportAssumption
  <2> QED
    BY <1>1, <2>1, <2>3, <2>4 DEF PostBudgetExact
<1>6. \A s \in Streams : reader[s] = Idle
  BY <1>1
<1>7. ReadPart
  BY <1>1, <1>6, IdleFacts DEF ReadPart, RowsSound, ReadersPlaced, ReadIsNew
<1>8. owned = 0
  BY <1>6, IdleFacts, OwnedNone
<1>9. Sum(held) = 0 /\ Cardinality(held) = 0 /\ Cardinality(OfKind("req")) = 0
  <2>1. OfKind("req") = {} /\ held = {} /\ held \in SUBSET In
    BY <1>1 DEF OfKind
  <2>2. Cardinality({}) = 0 /\ IsFiniteSet({})
    BY FS_EmptySet
  <2>3. SumOf(Weight, {}) = 0
    BY <2>2, SumOfZeros
  <2> QED
    BY <2>1, <2>2, <2>3, SumIs
<1>10. LedgerExact
  BY <1>1, <1>8, <1>9, TransportAssumption DEF LedgerExact
<1> QED
  BY <1>2, <1>5, <1>7, <1>10 DEF BudgetInv

(* ... and after every step.                                               *)
LEMMA BudgetsKept == BudgetInv /\ [Next]_vars => BudgetInv'
<1> SUFFICES ASSUME BudgetInv, [Next]_vars PROVE BudgetInv'
  OBVIOUS
<1>1. CASE \E m \in In : agent_sends(m) \/ \E r \in Outcomes : initialize(m, r)
  BY <1>1, SendsExact, InitializeExact
<1>2. CASE \E s \in Streams :
             \/ \E k \in Sizes : read_bounded_line(s, k) \/ read_sse(s, k)
             \/ admit(s) \/ transfer_message(s) \/ sse_send(s) \/ stream_closed(s)
  BY <1>2, LineExact, ChunkExact, StdioExact, TransferExact, HandOverExact, ClosedExact
<1>3. CASE \/ ws_inbound \/ sse_failure \/ initialize_fails \/ not_initialized
           \/ http_event \/ stdio_written
  BY <1>3, FrameExact, FailureExact, FirstExact, EventExact, WrittenExact
<1>4. CASE (\E i \in DOMAIN inbox : on_receive_dispatch(i)) \/ (\E q \in working : respond(q))
  BY <1>4, DispatchExact, RespondExact
<1>5. CASE \E o \in outgoing : stdio_write(o) \/ ws_outbound(o) \/ http_outgoing(o)
  BY <1>5, WriteExact, OutboundExact, OutgoingExact
<1>6. CASE \E l \in DOMAIN lanes :
             \/ start_next(l) \/ post_arrives(l) \/ post_fails(l)
             \/ \E ok \in BOOLEAN : post_done(l, ok)
  BY <1>6, StartExact, ArrivesExact, LostExact, DoneExact
<1>7. CASE UNCHANGED vars
  <2>1. /\ UNCHANGED <<leg, conn, frames, bytes, partial, held, reader, tasks, unsent, events, inbox,
                       working, answers, script, opened, lanes, posts>>
    BY <1>7 DEF vars, ledger, out
  <2>2. QueueTypes'
    BY <2>1 DEF BudgetInv, QueueTypes
  <2> QED
    BY <2>1, <2>2, LanesKept, QuietStep
<1> QED
  BY <1>1, <1>2, <1>3, <1>4, <1>5, <1>6, <1>7 DEF Next

(* Both budgets of a connection count exactly what is held, on every leg   *)
(* and every error path, for any messages, sizes and limits: what a reader *)
(* or a POST took is given back once, and the limits hold at every moment  *)
(* (flow.rs FlowBudget, PartialReservation; wire.rs PostBudget).           *)
THEOREM ConnectionBudgetsExact == Spec => []BudgetsExact
<1>1. BudgetInv => BudgetsExact
  <2> SUFFICES ASSUME BudgetInv PROVE BudgetsExact
    OBVIOUS
  <2>1. frames \in Nat /\ bytes \in Nat /\ partial \in Nat
    BY LedgerFacts, CountFacts
  <2>2. posts \in Nat
    BY PostsNat
  <2>3. TransportTypeOK
    BY <2>1, <2>2, RowFacts DEF BudgetInv, QueueTypes, TransportTypeOK
  <2> QED
    BY <2>3 DEF BudgetInv, BudgetsExact
<1> QED
  BY <1>1, BudgetsStart, BudgetsKept, PTL DEF Spec
-----------------------------------------------------------------------------
(***************************************************************************)
(* An acknowledgement never misses its reservation and never gives back    *)
(* more bytes than are owed.  Equal payloads are interchangeable: each     *)
(* retained message can be given a reservation of its own, of its kind and *)
(* identity and at least its size; when the smallest reservation goes, the *)
(* message it was given to takes the one of the message that was handled.  *)
(***************************************************************************)
(* The places a message passes through: not yet tracked, waiting for the   *)
(* event queue, answered by the hub, and on the way out.                   *)
Untracked == unsent \cup {m \in In : \E s \in Streams : Holds(reader[s], m)}
Passing == {reader[s].sending : s \in Streams} \ {None}
Answering == {q \in In : Answer(q) \in answers}
Carries(lane, o) == \/ lane.flight # None /\ lane.flight.post = o
                    \/ \E i \in 1..Len(lane.queued) : lane.queued[i] = o
Leaving == {q \in In : \E l \in DOMAIN lanes : Carries(lanes[l], Answer(q))}

(* No message is in two places, ...                                        *)
Apart(u, p, e, i, w, a, l) ==
  /\ u \cap (p \cup e \cup i \cup w \cup a \cup l) = {}
  /\ p \cap (e \cup i \cup w \cup a \cup l) = {}
  /\ e \cap (i \cup w \cup a \cup l) = {}
  /\ i \cap (w \cup a \cup l) = {}
  /\ w \cap (a \cup l) = {}
  /\ a \cap l = {}
PlacesApart ==
  Apart(Untracked, Passing, ToSet(events), ToSet(inbox), working, Answering, Leaving)

(* ... or twice in one.                                                    *)
Distinct(q) == \A i, j \in 1..Len(q) : q[i] = q[j] => i = j
OncePlaced ==
  /\ Distinct(events) /\ Distinct(inbox)
  /\ \A s, t \in Streams : reader[s].sending = reader[t].sending /\ reader[s].sending # None => s = t

(* Only requests are worked on and answered, and only an SSE reader waits  *)
(* for the event queue.                                                    *)
PlacesUsed ==
  /\ \A q \in working \cup Answering \cup Leaving : Kind(q) = "req"
  /\ leg # "http" => Passing = {}

Places == PlacesApart /\ OncePlaced /\ PlacesUsed

(* Every message of R has a reservation of H of its own.                   *)
Matching(f, R, H) ==
  /\ f \in [R -> H]
  /\ \A x \in R : Kind(f[x]) = Kind(x) /\ Ident(f[x]) = Ident(x) /\ Size(x) <= Size(f[x])
  /\ \A x, y \in R : f[x] = f[y] => x = y
  /\ \A h \in H : \E x \in R : f[x] = h
NoRequests(S) == {m \in S : Kind(m) # "req"}
Requests(S) == {m \in S : Kind(m) = "req"}
Reserved ==
  /\ Requests(retained) \subseteq held
  /\ \E f \in [NoRequests(retained) -> NoRequests(held)] :
       Matching(f, NoRequests(retained), NoRequests(held))

(* What is on the way out is a message of the hub.                         *)
FlightTypes ==
  \A l \in DOMAIN lanes : lanes[l].flight \in {None} \cup [post : Outputs, arrived : BOOLEAN]

OpenInv == Places /\ Reserved
CountInv == BudgetInv /\ FlightTypes /\ (conn # "ended" => OpenInv)

-----------------------------------------------------------------------------
(* A new message with its own reservation.                                 *)
LEMMA MatchingGrows ==
  ASSUME NEW R, NEW H, NEW f, Matching(f, R, H), NEW m \in In, m \notin R, m \notin H
  PROVE  \E g \in [R \cup {m} -> H \cup {m}] : Matching(g, R \cup {m}, H \cup {m})
<1> DEFINE g == [x \in R \cup {m} |-> IF x = m THEN m ELSE f[x]]
<1>1. /\ f \in [R -> H] /\ \A x, y \in R : f[x] = f[y] => x = y
      /\ \A h \in H : \E x \in R : f[x] = h
      /\ \A x \in R : Kind(f[x]) = Kind(x) /\ Ident(f[x]) = Ident(x) /\ Size(x) <= Size(f[x])
  BY DEF Matching
<1>2. g[m] = m /\ \A x \in R : g[x] = f[x] /\ f[x] \in H /\ f[x] # m
  BY <1>1
<1>3. g \in [R \cup {m} -> H \cup {m}]
  BY <1>1
<1> HIDE DEF g
<1>4. Size(m) <= Size(m)
  BY TransportAssumption
<1>5. Matching(g, R \cup {m}, H \cup {m})
  <2>1. \A x \in R \cup {m} : Kind(g[x]) = Kind(x) /\ Ident(g[x]) = Ident(x) /\ Size(x) <= Size(g[x])
    BY <1>1, <1>2, <1>4
  <2>2. \A x, y \in R \cup {m} : g[x] = g[y] => x = y
    BY <1>1, <1>2
  <2>3. \A h \in H \cup {m} : \E x \in R \cup {m} : g[x] = h
    BY <1>1, <1>2
  <2> QED
    BY <1>3, <2>1, <2>2, <2>3 DEF Matching
<1> QED
  BY <1>3, <1>5

(* The acknowledgement of m releases the smallest reservation h with its   *)
(* identity: the message that h was given to takes the one of m.           *)
LEMMA MatchingShrinks ==
  ASSUME NEW R \in SUBSET In, NEW H \in SUBSET In, NEW f, Matching(f, R, H), NEW m \in R, NEW h \in H,
         Kind(h) = Kind(m), Ident(h) = Ident(m),
         \A x \in H : Kind(x) = Kind(m) /\ Ident(x) = Ident(m) => Size(h) <= Size(x)
  PROVE  \E g \in [R \ {m} -> H \ {h}] : Matching(g, R \ {m}, H \ {h})
<1> DEFINE g == [x \in R \ {m} |-> IF f[x] = h THEN f[m] ELSE f[x]]
<1>1. /\ f \in [R -> H] /\ \A x, y \in R : f[x] = f[y] => x = y
      /\ \A y \in H : \E x \in R : f[x] = y
      /\ \A x \in R : Kind(f[x]) = Kind(x) /\ Ident(f[x]) = Ident(x) /\ Size(x) <= Size(f[x])
  BY DEF Matching
<1>2. \A x \in R \ {m} : g[x] \in H /\ g[x] # h /\ g[x] = IF f[x] = h THEN f[m] ELSE f[x]
  BY <1>1
<1>3. g \in [R \ {m} -> H \ {h}]
  BY <1>2
<1> HIDE DEF g
<1>4. \A x \in R : Size(x) \in Nat /\ f[x] \in H /\ Size(f[x]) \in Nat
  BY <1>1, TransportAssumption
<1>5. Size(h) \in Nat /\ Size(h) <= Size(f[m])
  BY <1>1, TransportAssumption
<1>6. ASSUME NEW x \in R \ {m}
      PROVE  Kind(g[x]) = Kind(x) /\ Ident(g[x]) = Ident(x) /\ Size(x) <= Size(g[x])
  <2>1. CASE f[x] = h
    <3>1. g[x] = f[m] /\ Kind(h) = Kind(x) /\ Ident(h) = Ident(x) /\ Size(x) <= Size(h)
      BY <1>1, <1>2, <2>1
    <3>2. Kind(f[m]) = Kind(x) /\ Ident(f[m]) = Ident(x)
      BY <1>1, <3>1
    <3>3. Size(x) <= Size(f[m])
      BY <1>4, <1>5, <3>1
    <3> QED
      BY <3>1, <3>2, <3>3
  <2>2. CASE f[x] # h
    BY <1>1, <1>2, <2>2
  <2> QED
    BY <2>1, <2>2
<1>7. \A x, y \in R \ {m} : g[x] = g[y] => x = y
  BY <1>1, <1>2
<1>8. ASSUME NEW y \in H \ {h} PROVE \E x \in R \ {m} : g[x] = y
  <2>1. PICK x \in R : f[x] = y
    BY <1>1
  <2>2. CASE x # m
    BY <1>2, <1>8, <2>1, <2>2
  <2>3. CASE x = m
    <3>1. PICK z \in R : f[z] = h
      BY <1>1
    <3>2. z # m
      BY <1>8, <2>1, <2>3, <3>1
    <3> QED
      BY <1>2, <2>1, <2>3, <3>1, <3>2
  <2> QED
    BY <2>2, <2>3
<1>9. Matching(g, R \ {m}, H \ {h})
  BY <1>3, <1>6, <1>7, <1>8 DEF Matching
<1> QED
  BY <1>3, <1>9

(* What a matching says of one identity: as many reservations as messages, *)
(* of at least their size.                                                 *)
Alike(S, m) == {n \in S : Kind(n) = Kind(m) /\ Ident(n) = Ident(m)}
LEMMA MatchingCounts ==
  ASSUME NEW R \in SUBSET In, NEW H \in SUBSET In, NEW f, Matching(f, R, H), NEW m \in In
  PROVE  Cardinality(Alike(R, m)) = Cardinality(Alike(H, m)) /\ Sum(Alike(R, m)) <= Sum(Alike(H, m))
<1> DEFINE S == Alike(R, m)
           T == Alike(H, m)
           g == [x \in S |-> f[x]]
<1>1. /\ f \in [R -> H] /\ \A x, y \in R : f[x] = f[y] => x = y
      /\ \A y \in H : \E x \in R : f[x] = y
      /\ \A x \in R : Kind(f[x]) = Kind(x) /\ Ident(f[x]) = Ident(x) /\ Size(x) <= Size(f[x])
  BY DEF Matching
<1>2. S \in SUBSET In /\ T \in SUBSET In /\ S \subseteq R /\ T \subseteq H
  BY DEF Alike
<1>3. IsFiniteSet(S) /\ IsFiniteSet(T)
  BY <1>2, FS_Subset, TransportAssumption
<1>4. \A x \in S : x \in R /\ f[x] \in T
  BY <1>1 DEF Alike
<1>5. \A y \in T : \E x \in S : f[x] = y
  BY <1>1 DEF Alike
<1> HIDE DEF S, T
<1>6. g \in [S -> T] /\ \A x \in S : g[x] = f[x]
  BY <1>4
<1>7. /\ \A x \in S : Weight[x] \in Nat /\ Weight[x] = Size(x)
      /\ \A y \in T : Weight[y] \in Nat /\ Weight[y] = Size(y)
  BY <1>2, TransportAssumption DEF Weight
<1>8. \A x \in S : Weight[x] <= Weight[f[x]]
  BY <1>1, <1>4, <1>7
<1>9. /\ \A x \in S : Weight[x] <= Weight[g[x]]
      /\ \A x, y \in S : g[x] = g[y] => x = y
      /\ \A y \in T : \E x \in S : g[x] = y
  BY <1>1, <1>4, <1>5, <1>6, <1>8
<1> HIDE DEF g
<1>10. Cardinality(S) = Cardinality(T) /\ SumOf(Weight, S) <= SumOf(Weight, T)
  BY <1>3, <1>6, <1>7, <1>9, SumOfMatched
<1>11. Sum(S) = SumOf(Weight, S) /\ Sum(T) = SumOf(Weight, T)
  BY <1>2, SumIs
<1> QED
  BY <1>10, <1>11 DEF S, T

-----------------------------------------------------------------------------
(* Sequences without repetitions.                                          *)
LEMMA DistinctAppend ==
  ASSUME NEW S, NEW q \in Seq(S), Distinct(q), NEW x \in S, x \notin ToSet(q)
  PROVE  Distinct(Append(q, x)) /\ ToSet(Append(q, x)) = ToSet(q) \cup {x}
<1>1. /\ Len(q) \in Nat /\ DOMAIN q = 1..Len(q) /\ Len(Append(q, x)) = Len(q) + 1
      /\ \A i \in 1..Len(q) : Append(q, x)[i] = q[i]
      /\ Append(q, x)[Len(q) + 1] = x
  BY AppendProperties, LenProperties
<1>2. \A i \in 1..(Len(q) + 1) : i \in 1..Len(q) \/ i = Len(q) + 1
  BY <1>1
<1>3. \A i \in 1..Len(q) : q[i] # x
  BY <1>1 DEF ToSet
<1>4. Distinct(Append(q, x))
  <2> SUFFICES ASSUME NEW i \in 1..(Len(q) + 1), NEW j \in 1..(Len(q) + 1),
                      Append(q, x)[i] = Append(q, x)[j]
               PROVE  i = j
    BY <1>1 DEF Distinct
  <2>1. CASE i \in 1..Len(q) /\ j \in 1..Len(q)
    BY <1>1, <2>1 DEF Distinct
  <2> QED
    BY <1>1, <1>2, <1>3, <2>1
<1> QED
  BY <1>4, AppendSet

LEMMA DistinctTail ==
  ASSUME NEW S, NEW q \in Seq(S), Distinct(q), q # <<>>
  PROVE  /\ Distinct(Tail(q)) /\ Head(q) \in ToSet(q)
         /\ ToSet(Tail(q)) = ToSet(q) \ {Head(q)}
<1>1. /\ Len(q) \in Nat /\ Len(q) > 0 /\ DOMAIN q = 1..Len(q) /\ Head(q) = q[1]
      /\ Tail(q) \in Seq(S) /\ Len(Tail(q)) = Len(q) - 1 /\ DOMAIN Tail(q) = 1..(Len(q) - 1)
      /\ \A i \in 1..(Len(q) - 1) : Tail(q)[i] = q[i + 1]
  BY HeadTailProperties, EmptySeq, LenProperties
<1>2. 1 \in 1..Len(q) /\ \A i \in 1..(Len(q) - 1) : i + 1 \in 1..Len(q) /\ i + 1 # 1
  BY <1>1
<1>3. \A i \in 1..Len(q) : i = 1 \/ (i - 1 \in 1..(Len(q) - 1) /\ (i - 1) + 1 = i)
  BY <1>1
<1>4. Distinct(Tail(q))
  <2> SUFFICES ASSUME NEW i \in 1..(Len(q) - 1), NEW j \in 1..(Len(q) - 1), Tail(q)[i] = Tail(q)[j]
               PROVE  i = j
    BY <1>1 DEF Distinct
  <2>1. i + 1 = j + 1
    BY <1>1, <1>2 DEF Distinct
  <2> QED
    BY <1>1, <2>1
<1>5. ASSUME NEW y PROVE y \in ToSet(Tail(q)) <=> y \in ToSet(q) /\ y # Head(q)
  <2>1. y \in ToSet(Tail(q)) <=> \E i \in 1..(Len(q) - 1) : q[i + 1] = y
    BY <1>1 DEF ToSet
  <2>2. y \in ToSet(q) <=> \E i \in 1..Len(q) : q[i] = y
    BY <1>1 DEF ToSet
  <2>3. ASSUME NEW i \in 1..(Len(q) - 1), q[i + 1] = y PROVE y \in ToSet(q) /\ y # Head(q)
    BY <1>1, <1>2, <2>2, <2>3 DEF Distinct
  <2>4. ASSUME NEW i \in 1..Len(q), q[i] = y, y # Head(q) PROVE \E j \in 1..(Len(q) - 1) : q[j + 1] = y
    BY <1>1, <1>3, <2>4
  <2> QED
    BY <2>1, <2>2, <2>3, <2>4
<1>6. Head(q) \in ToSet(q)
  BY <1>1, <1>2 DEF ToSet
<1> QED
  BY <1>4, <1>5, <1>6

LEMMA DistinctRemove ==
  ASSUME NEW S, NEW q \in Seq(S), Distinct(q), NEW i \in DOMAIN q
  PROVE  /\ Distinct(RemoveAt(q, i)) /\ q[i] \in ToSet(q) /\ q[i] \in S
         /\ ToSet(RemoveAt(q, i)) = ToSet(q) \ {q[i]}
<1>1. DOMAIN q = 1..Len(q) /\ Len(q) \in Nat /\ i \in 1..Len(q)
  BY LenProperties
<1> DEFINE a == SubSeq(q, 1, i - 1)
           b == SubSeq(q, i + 1, Len(q))
           r == RemoveAt(q, i)
           from(k) == IF k < i THEN k ELSE k + 1
<1>2. /\ a \in Seq(S) /\ Len(a) = i - 1 /\ \A k \in 1..(i - 1) : a[k] = q[k]
  BY <1>1
<1>3. /\ b \in Seq(S) /\ Len(b) = Len(q) - i /\ \A k \in 1..(Len(q) - i) : b[k] = q[i + k]
  BY <1>1
<1>4. r = a \o b
  BY DEF RemoveAt
<1> HIDE DEF a, b, r
<1>5. /\ r \in Seq(S) /\ Len(r) = Len(q) - 1 /\ DOMAIN r = 1..(Len(q) - 1)
      /\ \A k \in 1..(Len(q) - 1) : r[k] = q[from(k)] /\ from(k) \in 1..Len(q) /\ from(k) # i
  <2>1. /\ a \o b \in Seq(S) /\ Len(a \o b) = Len(a) + Len(b)
        /\ \A k \in 1..(Len(a) + Len(b)) :
             (a \o b)[k] = IF k <= Len(a) THEN a[k] ELSE b[k - Len(a)]
    BY <1>2, <1>3, ConcatProperties
  <2>2. Len(a) + Len(b) = Len(q) - 1
    BY <1>1, <1>2, <1>3
  <2>3. DOMAIN (a \o b) = 1..Len(a \o b)
    BY <2>1, LenProperties
  <2>4. ASSUME NEW k \in 1..(Len(q) - 1)
        PROVE  (a \o b)[k] = q[from(k)] /\ from(k) \in 1..Len(q) /\ from(k) # i
    <3>1. CASE k < i
      <4>1. k \in 1..(i - 1) /\ k <= Len(a) /\ k \in 1..Len(q)
        BY <1>1, <1>2, <3>1
      <4>2. (a \o b)[k] = a[k]
        BY <2>1, <2>2, <4>1
      <4> QED
        BY <1>1, <1>2, <3>1, <4>1, <4>2
    <3>2. CASE ~(k < i)
      <4>1. /\ ~(k <= Len(a)) /\ k - (i - 1) \in 1..(Len(q) - i) /\ i + (k - (i - 1)) = k + 1
            /\ k + 1 \in 1..Len(q) /\ k + 1 # i
        BY <1>1, <1>2, <3>2
      <4>2. (a \o b)[k] = b[k - (i - 1)]
        BY <1>2, <2>1, <2>2, <4>1
      <4> QED
        BY <1>3, <3>2, <4>1, <4>2
    <3> QED
      BY <3>1, <3>2
  <2> QED
    BY <1>4, <2>1, <2>2, <2>3, <2>4
<1>6. /\ \A k, n \in 1..(Len(q) - 1) : from(k) = from(n) => k = n
      /\ \A n \in 1..Len(q) : n # i => \E k \in 1..(Len(q) - 1) : from(k) = n
  <2>1. \A k, n \in 1..(Len(q) - 1) : from(k) = from(n) => k = n
    BY <1>1
  <2>2. ASSUME NEW n \in 1..Len(q), n # i PROVE \E k \in 1..(Len(q) - 1) : from(k) = n
    <3>1. CASE n < i
      <4>1. n \in 1..(Len(q) - 1) /\ from(n) = n
        BY <1>1, <3>1
      <4> QED
        BY <4>1
    <3>2. CASE ~(n < i)
      <4>1. n - 1 \in 1..(Len(q) - 1) /\ from(n - 1) = n
        BY <1>1, <2>2, <3>2
      <4> QED
        BY <4>1
    <3> QED
      BY <3>1, <3>2
  <2> QED
    BY <2>1, <2>2
<1> HIDE DEF from
<1>7. Distinct(r)
  <2> SUFFICES ASSUME NEW k \in 1..(Len(q) - 1), NEW n \in 1..(Len(q) - 1), r[k] = r[n]
               PROVE  k = n
    BY <1>5 DEF Distinct
  <2>1. q[from(k)] = q[from(n)] /\ from(k) \in 1..Len(q) /\ from(n) \in 1..Len(q)
    BY <1>5
  <2>2. from(k) = from(n)
    BY <2>1 DEF Distinct
  <2> QED
    BY <1>6, <2>2
<1>8. ASSUME NEW y PROVE y \in ToSet(r) <=> y \in ToSet(q) /\ y # q[i]
  <2>1. y \in ToSet(r) <=> \E k \in 1..(Len(q) - 1) : q[from(k)] = y
    BY <1>5 DEF ToSet
  <2>2. y \in ToSet(q) <=> \E k \in 1..Len(q) : q[k] = y
    BY <1>1 DEF ToSet
  <2>3. ASSUME NEW k \in 1..(Len(q) - 1), q[from(k)] = y PROVE y \in ToSet(q) /\ y # q[i]
    BY <1>1, <1>5, <2>2, <2>3 DEF Distinct
  <2>4. ASSUME NEW n \in 1..Len(q), q[n] = y, y # q[i] PROVE \E k \in 1..(Len(q) - 1) : q[from(k)] = y
    BY <1>6, <2>4
  <2> QED
    BY <2>1, <2>2, <2>3, <2>4
<1>9. q[i] \in ToSet(q) /\ q[i] \in S
  BY <1>1 DEF ToSet
<1> QED
  BY <1>7, <1>8, <1>9 DEF r

-----------------------------------------------------------------------------
(* What a step does to the messages.  What is not tracked, and what has    *)
(* left, may become less in any of them.  Nothing else moves, ...          *)
Shrinks == Untracked' \subseteq Untracked /\ Leaving' \subseteq Leaving
Rests ==
  /\ Shrinks /\ UNCHANGED <<Passing, ToSet(events), ToSet(inbox), working, Answering>>
  /\ held' = held \/ \E q \in Leaving : held' = held \ {q}

(* ... a message is tracked, ...                                           *)
Enters(m) ==
  /\ Shrinks /\ m \in Untracked /\ m \notin Untracked' /\ held' = held \cup {m}
  /\ UNCHANGED <<ToSet(events), working, Answering>>
  /\ \/ leg = "http" /\ Passing' = Passing \cup {m} /\ UNCHANGED ToSet(inbox)
     \/ ToSet(inbox)' = ToSet(inbox) \cup {m} /\ UNCHANGED Passing

(* ... moves on with its reservation, ...                                  *)
Advances(m) ==
  /\ Shrinks /\ held' = held
  /\ \/ /\ m \in Passing /\ Passing' = Passing \ {m} /\ ToSet(events)' = ToSet(events) \cup {m}
        /\ UNCHANGED <<ToSet(inbox), working, Answering>>
     \/ /\ m \in ToSet(events) /\ ToSet(events)' = ToSet(events) \ {m}
        /\ ToSet(inbox)' = ToSet(inbox) \cup {m} /\ UNCHANGED <<Passing, working, Answering>>
     \/ /\ m \in ToSet(inbox) /\ Kind(m) = "req" /\ ToSet(inbox)' = ToSet(inbox) \ {m}
        /\ working' = working \cup {m} /\ UNCHANGED <<Passing, ToSet(events), Answering>>
     \/ /\ m \in working /\ working' = working \ {m} /\ Answering' = Answering \cup {m}
        /\ UNCHANGED <<Passing, ToSet(events), ToSet(inbox)>>

(* ... is acknowledged, ...                                                *)
Handles(m) ==
  /\ Shrinks /\ m \in ToSet(inbox) /\ Kind(m) # "req" /\ ToSet(inbox)' = ToSet(inbox) \ {m}
  /\ UNCHANGED <<Passing, ToSet(events), working, Answering>>
  /\ held' = held \ {acknowledged(m)}

(* ... or its answer leaves.                                               *)
Leaves(q) ==
  /\ Untracked' \subseteq Untracked /\ Leaving' \subseteq Leaving \cup {q}
  /\ q \in Answering /\ Answering' = Answering \ {q}
  /\ UNCHANGED <<Passing, ToSet(events), ToSet(inbox), working>>
  /\ held' \in {held, held \ {q}}

Moves == Rests \/ \E m \in In : Enters(m) \/ Advances(m) \/ Handles(m) \/ Leaves(m)

(* Every message in a place is one of the agent's.                         *)
LEMMA PlacesAreIn ==
  ASSUME BudgetInv
  PROVE  /\ Untracked \subseteq In /\ Passing \subseteq In /\ ToSet(events) \subseteq In
         /\ ToSet(inbox) \subseteq In /\ working \subseteq In /\ Answering \subseteq In
         /\ Leaving \subseteq In /\ held \subseteq In /\ Untracked \cap held = {}
<1>1. ToSet(events) \subseteq In /\ ToSet(inbox) \subseteq In
  <2>1. events \in Seq(In) /\ inbox \in Seq(In)
    BY DEF BudgetInv, QueueTypes
  <2>2. /\ DOMAIN events = 1..Len(events) /\ DOMAIN inbox = 1..Len(inbox)
        /\ \A i \in 1..Len(events) : events[i] \in In
        /\ \A i \in 1..Len(inbox) : inbox[i] \in In
    BY <2>1, LenProperties, ElementOfSeq
  <2> QED
    BY <2>2 DEF ToSet
<1>2. Passing \subseteq In
  BY RowFacts DEF BudgetInv, RowTypes, Passing
<1>3. Untracked \subseteq In /\ Untracked \cap held = {} /\ held \subseteq In /\ working \subseteq In
  BY DEF BudgetInv, QueueTypes, ReadPart, ReadIsNew, Untracked
<1> QED
  BY <1>1, <1>2, <1>3 DEF Answering, Leaving

(* They stay apart.                                                        *)
LEMMA ApartKept ==
  ASSUME BudgetInv, Places, Moves
  PROVE  PlacesApart'
<1> DEFINE u == Untracked p == Passing e == ToSet(events) i == ToSet(inbox)
           a == Answering l == Leaving w == working
           uu == Untracked' pp == Passing' ee == ToSet(events)' ii == ToSet(inbox)'
           aa == Answering' ll == Leaving' ww == working'
<1>1. Apart(u, p, e, i, w, a, l)
  BY DEF Places, PlacesApart
<1>2. Apart(uu, pp, ee, ii, ww, aa, ll) => PlacesApart'
  BY DEF PlacesApart
<1>3. CASE Rests
  <2>1. uu \subseteq u /\ ll \subseteq l /\ pp = p /\ ee = e /\ ii = i /\ ww = w /\ aa = a
    BY <1>3 DEF Rests, Shrinks
  <2> HIDE DEF u, p, e, i, w, a, l, uu, pp, ee, ii, ww, aa, ll
  <2>2. Apart(uu, pp, ee, ii, ww, aa, ll)
    BY <1>1, <2>1 DEF Apart
  <2> QED
    BY <1>2, <2>2
<1>4. ASSUME NEW m \in In, Enters(m) PROVE PlacesApart'
  <2>1. /\ uu \subseteq u /\ ll \subseteq l /\ m \in u /\ m \notin uu /\ ee = e /\ ww = w /\ aa = a
        /\ (pp = p \cup {m} /\ ii = i) \/ (ii = i \cup {m} /\ pp = p)
    BY <1>4 DEF Enters, Shrinks
  <2> HIDE DEF u, p, e, i, w, a, l, uu, pp, ee, ii, ww, aa, ll
  <2>2. Apart(uu, pp, ee, ii, ww, aa, ll)
    BY <1>1, <2>1 DEF Apart
  <2> QED
    BY <1>2, <2>2
<1>5. ASSUME NEW m \in In, Advances(m) PROVE PlacesApart'
  <2>1. /\ uu \subseteq u /\ ll \subseteq l
        /\ \/ m \in p /\ pp = p \ {m} /\ ee = e \cup {m} /\ ii = i /\ ww = w /\ aa = a
           \/ m \in e /\ ee = e \ {m} /\ ii = i \cup {m} /\ pp = p /\ ww = w /\ aa = a
           \/ m \in i /\ ii = i \ {m} /\ ww = w \cup {m} /\ pp = p /\ ee = e /\ aa = a
           \/ m \in w /\ ww = w \ {m} /\ aa = a \cup {m} /\ pp = p /\ ee = e /\ ii = i
    BY <1>5 DEF Advances, Shrinks
  <2> HIDE DEF u, p, e, i, w, a, l, uu, pp, ee, ii, ww, aa, ll
  <2>2. Apart(uu, pp, ee, ii, ww, aa, ll)
    BY <1>1, <2>1 DEF Apart
  <2> QED
    BY <1>2, <2>2
<1>6. ASSUME NEW m \in In, Handles(m) PROVE PlacesApart'
  <2>1. uu \subseteq u /\ ll \subseteq l /\ pp = p /\ ee = e /\ ii = i \ {m} /\ ww = w /\ aa = a
    BY <1>6 DEF Handles, Shrinks
  <2> HIDE DEF u, p, e, i, w, a, l, uu, pp, ee, ii, ww, aa, ll
  <2>2. Apart(uu, pp, ee, ii, ww, aa, ll)
    BY <1>1, <2>1 DEF Apart
  <2> QED
    BY <1>2, <2>2
<1>7. ASSUME NEW m \in In, Leaves(m) PROVE PlacesApart'
  <2>1. /\ uu \subseteq u /\ ll \subseteq l \cup {m} /\ pp = p /\ ee = e /\ ii = i /\ ww = w
        /\ m \in a /\ aa = a \ {m}
    BY <1>7 DEF Leaves
  <2> HIDE DEF u, p, e, i, w, a, l, uu, pp, ee, ii, ww, aa, ll
  <2>2. Apart(uu, pp, ee, ii, ww, aa, ll)
    BY <1>1, <2>1 DEF Apart
  <2> QED
    BY <1>2, <2>2
<1> QED
  BY <1>3, <1>4, <1>5, <1>6, <1>7 DEF Moves

LEMMA UsedKept ==
  ASSUME BudgetInv, Places, Moves, leg' = leg
  PROVE  PlacesUsed'
<1>1. /\ \A q \in working \cup Answering \cup Leaving : Kind(q) = "req"
      /\ leg # "http" => Passing = {}
  BY DEF Places, PlacesUsed
<1>2. /\ \A q \in working' \cup Answering' \cup Leaving' : Kind(q) = "req"
      /\ leg' # "http" => Passing' = {}
  <2>1. CASE Rests
    BY <1>1, <2>1 DEF Rests, Shrinks
  <2>2. ASSUME NEW m \in In, Enters(m) \/ Handles(m)
        PROVE  /\ \A q \in working' \cup Answering' \cup Leaving' : Kind(q) = "req"
               /\ leg' # "http" => Passing' = {}
    BY <1>1, <2>2 DEF Enters, Handles, Shrinks
  <2>3. ASSUME NEW m \in In, Advances(m)
        PROVE  /\ \A q \in working' \cup Answering' \cup Leaving' : Kind(q) = "req"
               /\ leg' # "http" => Passing' = {}
    BY <1>1, <2>3 DEF Advances, Shrinks
  <2>4. ASSUME NEW m \in In, Leaves(m)
        PROVE  /\ \A q \in working' \cup Answering' \cup Leaving' : Kind(q) = "req"
               /\ leg' # "http" => Passing' = {}
    BY <1>1, <2>4 DEF Leaves
  <2> QED
    BY <2>1, <2>2, <2>3, <2>4 DEF Moves
<1> QED
  BY <1>2 DEF PlacesUsed

(* What the hub retains is what is in its places.                          *)
Kept == ToSet(events) \cup ToSet(inbox) \cup working \cup Passing \cup Answering
LEMMA RetainedIs ==
  /\ PlacesUsed => retained = Kept
  /\ PlacesUsed' => retained' = Kept'
<1>1. PlacesUsed => Answering = {q \in In : Kind(q) = "req" /\ Answer(q) \in answers}
  BY DEF PlacesUsed, Answering
<1>2. PlacesUsed' => Answering' = {q \in In : Kind(q) = "req" /\ Answer(q) \in answers'}
  BY DEF PlacesUsed, Answering
<1> QED
  BY <1>1, <1>2 DEF retained, Kept, Passing

(* The reservation that is released is the smallest of its identity.       *)
LEMMA SmallestIsLeast ==
  ASSUME NEW S \in SUBSET In, S # {}
  PROVE  \A k \in S : Size(smallest(S)) <= Size(k)
<1> DEFINE T == {Size(m) : m \in S}
<1>1. T \in SUBSET Nat /\ T # {}
  BY TransportAssumption
<1>2. PICK n \in T : \A k \in T : n <= k
  <2> HIDE DEF T
  <2> QED
    BY <1>1, LeastNatural
<1>3. \E m \in S : \A k \in S : Size(m) <= Size(k)
  BY <1>2
<1> QED
  BY <1>3 DEF smallest

(* So an acknowledgement finds one, and keeps the others matched.          *)
LEMMA HandledMatched ==
  ASSUME BudgetInv, OpenInv, NEW m \in In, m \in retained, Kind(m) # "req"
  PROVE  /\ matching(m) # {} /\ acknowledged(m) \in held /\ Kind(acknowledged(m)) # "req"
         /\ \E g \in [NoRequests(retained) \ {m} -> NoRequests(held) \ {acknowledged(m)}] :
              Matching(g, NoRequests(retained) \ {m}, NoRequests(held) \ {acknowledged(m)})
<1> DEFINE R == NoRequests(retained)
           H == NoRequests(held)
           h == acknowledged(m)
<1>1. PICK f \in [R -> H] : Matching(f, R, H)
  BY DEF OpenInv, Reserved
<1>2. R \in SUBSET In /\ H \in SUBSET In /\ m \in R
  <2>1. retained \subseteq In
    BY PlacesAreIn, RetainedIs DEF OpenInv, Places, Kept
  <2> QED
    BY <2>1, PlacesAreIn DEF NoRequests
<1>3. f[m] \in matching(m)
  BY <1>1, <1>2 DEF Matching, matching, NoRequests
<1>4. matching(m) \in SUBSET In /\ matching(m) # {}
  BY <1>3, PlacesAreIn DEF matching
<1>5. h \in matching(m) /\ \A k \in matching(m) : Size(h) <= Size(k)
  BY <1>4, SmallestIsOne, SmallestIsLeast DEF acknowledged
<1>6. h \in H /\ Kind(h) = Kind(m) /\ Ident(h) = Ident(m)
  BY <1>5 DEF matching, NoRequests
<1>7. \A x \in H : Kind(x) = Kind(m) /\ Ident(x) = Ident(m) => Size(h) <= Size(x)
  BY <1>5 DEF matching, NoRequests
<1> HIDE DEF R, H, h
<1>8. \E g \in [R \ {m} -> H \ {h}] : Matching(g, R \ {m}, H \ {h})
  BY <1>1, <1>2, <1>6, <1>7, MatchingShrinks
<1>9. h \in held /\ Kind(h) # "req"
  BY <1>6 DEF H, NoRequests
<1> QED
  BY <1>4, <1>8, <1>9 DEF R, H, h

(* Every retained message keeps a reservation.                             *)
LEMMA ReservedKept ==
  ASSUME BudgetInv, OpenInv, Moves, PlacesUsed'
  PROVE  Reserved'
<1> DEFINE R == NoRequests(retained)
           H == NoRequests(held)
           RR == NoRequests(retained')
           HH == NoRequests(held')
<1>1. /\ retained = Kept /\ retained' = Kept'
      /\ \A q \in working \cup Answering \cup Leaving : Kind(q) = "req"
  BY RetainedIs DEF OpenInv, Places, PlacesUsed
<1>2. Apart(Untracked, Passing, ToSet(events), ToSet(inbox), working, Answering, Leaving)
  BY DEF OpenInv, Places, PlacesApart
<1>3. Requests(retained) \subseteq held /\ \E f \in [R -> H] : Matching(f, R, H)
  BY DEF OpenInv, Reserved
<1>4. ASSUME Requests(retained') \subseteq held', \E f \in [RR -> HH] : Matching(f, RR, HH)
      PROVE  Reserved'
  BY <1>4 DEF Reserved
<1>5. ASSUME Requests(retained') \subseteq held', RR = R, HH = H
      PROVE  Reserved'
  <2> HIDE DEF R, H, RR, HH
  <2>1. \E f \in [RR -> HH] : Matching(f, RR, HH)
    BY <1>3, <1>5
  <2> QED
    BY <1>4, <1>5, <2>1
<1>6. CASE Rests
  <2>1. retained' = retained
    BY <1>1, <1>6 DEF Rests, Kept
  <2>2. CASE held' = held
    BY <1>3, <1>5, <2>1, <2>2
  <2>3. ASSUME NEW q \in Leaving, held' = held \ {q} PROVE Reserved'
    <3>1. q \notin retained /\ Kind(q) = "req"
      BY <1>1, <1>2 DEF Apart, Kept
    <3>2. HH = H /\ Requests(retained') \subseteq held'
      BY <1>3, <2>1, <2>3, <3>1 DEF NoRequests, Requests
    <3> QED
      BY <1>5, <2>1, <3>2
  <2> QED
    BY <1>6, <2>2, <2>3 DEF Rests
<1>7. ASSUME NEW m \in In, Enters(m) PROVE Reserved'
  <2>1. m \notin retained /\ retained' = retained \cup {m}
    BY <1>1, <1>2, <1>7 DEF Enters, Apart, Kept
  <2>2. m \notin held /\ held' = held \cup {m}
    BY <1>7, PlacesAreIn DEF Enters
  <2>3. Requests(retained') \subseteq held'
    BY <1>3, <2>1, <2>2 DEF Requests
  <2>4. CASE Kind(m) = "req"
    <3>1. RR = R /\ HH = H
      BY <2>1, <2>2, <2>4 DEF NoRequests
    <3> QED
      BY <1>5, <2>3, <3>1
  <2>5. CASE Kind(m) # "req"
    <3>1. RR = R \cup {m} /\ HH = H \cup {m} /\ m \notin R /\ m \notin H
      BY <2>1, <2>2, <2>5 DEF NoRequests
    <3> HIDE DEF R, H, RR, HH
    <3>2. PICK f \in [R -> H] : Matching(f, R, H)
      BY <1>3
    <3>3. \E g \in [R \cup {m} -> H \cup {m}] : Matching(g, R \cup {m}, H \cup {m})
      BY <3>1, <3>2, MatchingGrows
    <3> QED
      BY <1>4, <2>3, <3>1, <3>3
  <2> QED
    BY <2>4, <2>5
<1>8. ASSUME NEW m \in In, Advances(m) PROVE Reserved'
  <2>1. retained' = retained /\ held' = held
    BY <1>1, <1>8 DEF Advances, Kept
  <2> QED
    BY <1>3, <1>5, <2>1
<1>9. ASSUME NEW m \in In, Handles(m) PROVE Reserved'
  <2>1. m \in retained /\ retained' = retained \ {m} /\ Kind(m) # "req"
    BY <1>1, <1>2, <1>9 DEF Handles, Apart, Kept
  <2>2. PICK h : h = acknowledged(m)
    OBVIOUS
  <2>3. /\ held' = held \ {h} /\ Kind(h) # "req"
        /\ \E g \in [R \ {m} -> H \ {h}] : Matching(g, R \ {m}, H \ {h})
    BY <1>9, <2>1, <2>2, HandledMatched DEF Handles
  <2>4. RR = R \ {m} /\ HH = H \ {h} /\ Requests(retained') \subseteq held'
    BY <1>3, <2>1, <2>3 DEF NoRequests, Requests
  <2> HIDE DEF R, H, RR, HH
  <2> QED
    BY <1>4, <2>3, <2>4
<1>10. ASSUME NEW m \in In, Leaves(m) PROVE Reserved'
  <2>1. m \in retained /\ retained' = retained \ {m} /\ Kind(m) = "req" /\ held' \in {held, held \ {m}}
    BY <1>1, <1>2, <1>10 DEF Leaves, Apart, Kept
  <2>2. RR = R /\ HH = H /\ Requests(retained') \subseteq held'
    BY <1>3, <2>1 DEF NoRequests, Requests
  <2> QED
    BY <1>5, <2>2
<1> QED
  BY <1>6, <1>7, <1>8, <1>9, <1>10 DEF Moves

(* What is left to show of a step: how it moves the messages, and that     *)
(* none gets into one place twice.                                         *)
LEMMA OpenKept ==
  ASSUME BudgetInv, OpenInv, leg' = leg, Moves, OncePlaced'
  PROVE  OpenInv'
<1>1. PlacesApart' /\ PlacesUsed'
  BY ApartKept, UsedKept DEF OpenInv
<1>2. Reserved'
  BY <1>1, ReservedKept
<1> QED
  BY <1>1, <1>2 DEF OpenInv, Places

-----------------------------------------------------------------------------
(* Readers that pass nothing on.                                           *)
SameSending == \A s \in Streams : reader'[s].sending = reader[s].sending
NothingNew == /\ unsent' \subseteq unsent
              /\ \A s \in Streams, x \in In : Holds(reader'[s], x) => Holds(reader[s], x) \/ x \in unsent

LEMMA SendingKept ==
  ASSUME SameSending
  PROVE  Passing' = Passing
<1>1. {reader'[s].sending : s \in Streams} = {reader[s].sending : s \in Streams}
  BY DEF SameSending
<1> QED
  BY <1>1 DEF Passing

LEMMA UntrackedKept ==
  ASSUME NothingNew
  PROVE  Untracked' \subseteq Untracked
  BY DEF NothingNew, Untracked

LEMMA LeavingKept ==
  ASSUME lanes' = lanes
  PROVE  Leaving' = Leaving
  BY DEF Leaving

LEMMA AnsweringKept ==
  ASSUME answers' \in {answers, answers \cup {Error}}
  PROVE  Answering' = Answering
<1>1. \A q \in In : Answer(q) # Error
  <2>1. \A q : [op |-> "answer", req |-> q].op = "answer" /\ [op |-> "error"].op = "error"
    OBVIOUS
  <2> QED
    BY <2>1 DEF Answer, Error
<1> QED
  BY <1>1 DEF Answering

(* A step that moves no tracked message.                                   *)
LEMMA QuietMove ==
  ASSUME OpenInv, UNCHANGED <<events, inbox, working, answers>>, SameSending, NothingNew,
         Leaving' \subseteq Leaving, held' = held \/ \E q \in Leaving : held' = held \ {q}
  PROVE  Moves /\ OncePlaced'
<1>1. Rests
  BY SendingKept, UntrackedKept, AnsweringKept DEF Rests, Shrinks
<1>2. OncePlaced'
  BY DEF OpenInv, Places, OncePlaced, SameSending
<1> QED
  BY <1>1, <1>2 DEF Moves

(* A step that tracks a message and delivers it.                           *)
LEMMA DeliverMove ==
  ASSUME BudgetInv, OpenInv, UNCHANGED <<events, working, answers, lanes>>, SameSending, NothingNew,
         NEW m \in In, m \in Untracked, m \notin Untracked', held' = held \cup {m},
         inbox' = Append(inbox, m)
  PROVE  Moves /\ OncePlaced'
<1>1. m \notin ToSet(inbox) /\ Distinct(inbox) /\ inbox \in Seq(In)
  BY DEF OpenInv, Places, PlacesApart, Apart, OncePlaced, BudgetInv, QueueTypes
<1>2. Distinct(inbox') /\ ToSet(inbox') = ToSet(inbox) \cup {m}
  BY <1>1, DistinctAppend
<1>3. ToSet(inbox)' = ToSet(inbox) \cup {m}
  BY <1>2
<1>4. ToSet(events)' = ToSet(events)
  OBVIOUS
<1>5. Enters(m)
  BY <1>3, <1>4, SendingKept, UntrackedKept, AnsweringKept, LeavingKept DEF Enters, Shrinks
<1>6. OncePlaced'
  BY <1>2 DEF OpenInv, Places, OncePlaced, SameSending
<1> QED
  BY <1>5, <1>6 DEF Moves

(* A reader that is reset.                                                 *)
LEMMA ResetMove ==
  ASSUME BudgetInv, NEW s \in Streams, reader[s].sending = None, unsent' = unsent,
         reader' = [reader EXCEPT ![s] = Idle]
  PROVE  /\ SameSending /\ NothingNew
         /\ \A m \in In : Holds(reader[s], m) => m \in Untracked /\ m \notin Untracked'
<1>1. /\ DOMAIN reader = Streams /\ reader'[s] = Idle
      /\ \A t \in Streams \ {s} : reader'[t] = reader[t]
  BY RowFacts DEF BudgetInv
<1>2. \A m \in In : ~Holds(reader'[s], m)
  BY <1>1, IdleFacts
<1>3. SameSending /\ NothingNew
  BY <1>1, <1>2, IdleFacts DEF SameSending, NothingNew
<1>4. ASSUME NEW m \in In, Holds(reader[s], m) PROVE m \in Untracked /\ m \notin Untracked'
  <2>1. m \notin unsent /\ \A t \in Streams : t # s => ~Holds(reader[t], m)
    BY <1>4 DEF BudgetInv, ReadPart, ReadIsNew
  <2>2. \A t \in Streams : ~Holds(reader'[t], m)
    BY <1>1, <1>2, <2>1
  <2> QED
    BY <1>4, <2>1, <2>2 DEF Untracked
<1> QED
  BY <1>3, <1>4

-----------------------------------------------------------------------------
(* The steps of the readers.                                               *)
Open == conn # "ended" /\ conn' # "ended"

LEMMA SendsMove ==
  ASSUME BudgetInv, OpenInv, NEW m \in In, agent_sends(m)
  PROVE  Moves /\ OncePlaced'
<1>1. PICK s : s = IF leg = "http" THEN StreamOf(m) ELSE Main
  OBVIOUS
<1>2. /\ m \in unsent /\ s \in tasks
      /\ reader' = [reader EXCEPT ![s].msg = m, ![s].read = 0]
      /\ unsent' = unsent \ {m}
      /\ UNCHANGED <<held, events, inbox, working, answers, lanes>>
  BY <1>1 DEF agent_sends, ledger, out
<1>3. /\ s \in Streams /\ DOMAIN reader = Streams
      /\ DOMAIN reader[s] = {"own", "msg", "read", "ready", "sending"}
  BY <1>2, LedgerFacts, RowFacts DEF BudgetInv
<1>4. /\ \A t \in Streams \ {s} : reader'[t] = reader[t]
      /\ reader'[s].msg = m /\ reader'[s].ready = reader[s].ready
      /\ reader'[s].sending = reader[s].sending
  BY <1>2, <1>3
<1>5. SameSending
  BY <1>4 DEF SameSending
<1>6. NothingNew
  BY <1>2, <1>4 DEF NothingNew, Holds
<1> QED
  BY <1>2, <1>5, <1>6, LeavingKept, QuietMove

LEMMA LineMove ==
  ASSUME BudgetInv, OpenInv, Open, NEW s \in Streams, NEW k, read_bounded_line(s, k)
  PROVE  Moves /\ OncePlaced'
<1>1. /\ reader' = [reader EXCEPT ![s].own = @ + k, ![s].read = @ + k]
      /\ UNCHANGED <<held, unsent, events, inbox, working, answers, lanes>>
  BY DEF read_bounded_line, end_leg, out, Open
<1>2. /\ DOMAIN reader = Streams
      /\ DOMAIN reader[s] = {"own", "msg", "read", "ready", "sending"}
  BY RowFacts DEF BudgetInv
<1>3. /\ \A t \in Streams \ {s} : reader'[t] = reader[t]
      /\ reader'[s].msg = reader[s].msg /\ reader'[s].ready = reader[s].ready
      /\ reader'[s].sending = reader[s].sending
  BY <1>1, <1>2
<1>4. SameSending
  BY <1>3 DEF SameSending
<1>5. NothingNew
  BY <1>1, <1>3 DEF NothingNew, Holds
<1> QED
  BY <1>1, <1>4, <1>5, LeavingKept, QuietMove

(* Off the SSE leg no reader waits to pass a message on.                   *)
LEMMA NothingPassing ==
  ASSUME OpenInv, leg # "http", NEW s \in Streams
  PROVE  reader[s].sending = None
  BY DEF OpenInv, Places, PlacesUsed, Passing

LEMMA AdmitMove ==
  ASSUME BudgetInv, OpenInv, NEW s \in Streams, leg # "http", reader[s].msg # None,
         track(reader[s].msg), reader' = [reader EXCEPT ![s] = Idle],
         inbox' = Append(inbox, reader[s].msg),
         UNCHANGED <<unsent, events, working, answers, lanes>>
  PROVE  Moves /\ OncePlaced'
<1>1. PICK m : m = reader[s].msg
  OBVIOUS
<1>2. m \in In /\ Holds(reader[s], m)
  BY <1>1, RowFacts DEF BudgetInv, RowTypes, Holds
<1>3. SameSending /\ NothingNew /\ m \in Untracked /\ m \notin Untracked'
  BY <1>2, NothingPassing, ResetMove
<1>4. held' = held \cup {m} /\ inbox' = Append(inbox, m)
  BY <1>1 DEF track
<1> QED
  BY <1>2, <1>3, <1>4, DeliverMove

LEMMA StdioMove ==
  ASSUME BudgetInv, OpenInv, Open, NEW s \in Streams, admit(s)
  PROVE  Moves /\ OncePlaced'
<1>1. /\ leg = "stdio" /\ reader[s].msg # None
      /\ track(reader[s].msg) /\ reader' = [reader EXCEPT ![s] = Idle]
      /\ inbox' = Append(inbox, reader[s].msg)
      /\ UNCHANGED <<unsent, events, working, answers, lanes>>
  BY DEF admit, end_leg, out, Open
<1> QED
  BY <1>1, AdmitMove

LEMMA FrameMove ==
  ASSUME BudgetInv, OpenInv, Open, ws_inbound
  PROVE  Moves /\ OncePlaced'
<1>1. /\ leg = "ws" /\ reader[Main].msg # None
      /\ track(reader[Main].msg) /\ reader' = [reader EXCEPT ![Main] = Idle]
      /\ inbox' = Append(inbox, reader[Main].msg)
      /\ UNCHANGED <<unsent, events, working, answers, lanes>>
  BY DEF ws_inbound, end_leg, out, Open
<1> QED
  BY <1>1, MainStream, AdmitMove

LEMMA ClosedMove ==
  ASSUME BudgetInv, OpenInv, Open, NEW s \in Streams, stream_closed(s)
  PROVE  Moves /\ OncePlaced'
<1>1. /\ reader[s].sending = None /\ reader' = [reader EXCEPT ![s] = Idle]
      /\ UNCHANGED <<held, unsent, events, inbox, working, answers, lanes>>
  BY DEF stream_closed, sse_return, end_leg, out, Open
<1>2. SameSending /\ NothingNew
  BY <1>1, ResetMove
<1> QED
  BY <1>1, <1>2, LeavingKept, QuietMove

LEMMA ChunkMove ==
  ASSUME BudgetInv, OpenInv, NEW s \in Streams, NEW k, read_sse(s, k)
  PROVE  Moves /\ OncePlaced'
<1>1. /\ reader[s].msg # None /\ reader[s].sending = None
      /\ UNCHANGED <<held, unsent, events, inbox, working, answers, lanes>>
  BY DEF read_sse, out
<1>2. /\ DOMAIN reader = Streams
      /\ DOMAIN reader[s] = {"own", "msg", "read", "ready", "sending"}
      /\ reader[s].msg \in In /\ reader[s].ready \in Seq(In)
  BY <1>1, RowFacts DEF BudgetInv, RowTypes
<1>3. SameSending /\ NothingNew
  <2>1. CASE reader' = [reader EXCEPT ![s] = Idle]
    BY <1>1, <2>1, ResetMove
  <2>2. CASE reader' # [reader EXCEPT ![s] = Idle]
    <3>1. PICK done \in BOOLEAN : done = (reader[s].read + k = Size(reader[s].msg))
      OBVIOUS
    <3>2. reader' = [reader EXCEPT ![s].own = @ + k, ![s].read = IF done THEN 0 ELSE @ + k,
                        ![s].msg = IF done THEN None ELSE @,
                        ![s].ready = IF done THEN Append(@, reader[s].msg) ELSE @]
      BY <2>2, <3>1 DEF read_sse, sse_return
    <3>3. /\ \A t \in Streams \ {s} : reader'[t] = reader[t]
          /\ reader'[s].msg = IF done THEN None ELSE reader[s].msg
          /\ reader'[s].ready = IF done THEN Append(reader[s].ready, reader[s].msg) ELSE reader[s].ready
          /\ reader'[s].sending = reader[s].sending
      BY <1>2, <3>2
    <3>4. /\ Len(Append(reader[s].ready, reader[s].msg)) = Len(reader[s].ready) + 1
          /\ \A i \in 1..(Len(reader[s].ready) + 1) :
               \/ i \in 1..Len(reader[s].ready) /\ Append(reader[s].ready, reader[s].msg)[i] = reader[s].ready[i]
               \/ Append(reader[s].ready, reader[s].msg)[i] = reader[s].msg
      BY <1>2, AppendProperties
    <3>5. \A x \in In : Holds(reader'[s], x) => Holds(reader[s], x)
      BY <1>2, <3>3, <3>4, TransportAssumption DEF Holds
    <3> QED
      BY <1>1, <3>3, <3>5 DEF SameSending, NothingNew
  <2> QED
    BY <2>1, <2>2
<1> QED
  BY <1>1, <1>3, LeavingKept, QuietMove

(* A whole event is tracked while its stream waits for the queue, ...      *)
LEMMA TransferMove ==
  ASSUME BudgetInv, OpenInv, NEW s \in Streams, transfer_message(s)
  PROVE  Moves /\ OncePlaced'
<1>1. PICK m : m = Head(reader[s].ready)
  OBVIOUS
<1>2. /\ leg = "http" /\ reader[s].ready # <<>> /\ reader[s].sending = None
      /\ UNCHANGED <<unsent, events, inbox, working, answers, lanes>>
  BY DEF transfer_message, out
<1>3. CASE refused(m, partial - Size(m)) # None
  <2>1. reader' = [reader EXCEPT ![s] = Idle] /\ held' = held
    BY <1>1, <1>3 DEF transfer_message
  <2>2. SameSending /\ NothingNew
    BY <1>2, <2>1, ResetMove
  <2> QED
    BY <1>2, <2>1, <2>2, LeavingKept, QuietMove
<1>4. CASE refused(m, partial - Size(m)) = None
  <2>1. /\ held' = held \cup {m}
        /\ reader' = [reader EXCEPT ![s].own = @ - Size(m), ![s].ready = Tail(@), ![s].sending = m]
    BY <1>1, <1>4 DEF transfer_message, track
  <2>2. /\ DOMAIN reader = Streams /\ RowSound(reader[s])
        /\ DOMAIN reader[s] = {"own", "msg", "read", "ready", "sending"}
    BY RowFacts DEF BudgetInv
  <2>3. /\ \A t \in Streams \ {s} : reader'[t] = reader[t]
        /\ DOMAIN reader'[s] = DOMAIN reader[s]
        /\ reader'[s].own = reader[s].own - Size(m) /\ reader'[s].msg = reader[s].msg
        /\ reader'[s].read = reader[s].read /\ reader'[s].ready = Tail(reader[s].ready)
        /\ reader'[s].sending = m
    BY <2>1, <2>2
  <2>4. /\ m \in In /\ Holds(reader[s], m)
        /\ \A x \in In : Holds(reader'[s], x) => Holds(reader[s], x) /\ x # m
    BY <1>1, <1>2, <2>2, <2>3, PassRow
  <2>5. NothingNew
    BY <1>2, <2>3, <2>4 DEF NothingNew
  <2>6. m \in Untracked /\ m \notin Untracked'
    <3>1. m \notin unsent /\ \A t \in Streams : t # s => ~Holds(reader[t], m)
      BY <2>4 DEF BudgetInv, ReadPart, ReadIsNew
    <3>2. \A t \in Streams : ~Holds(reader'[t], m)
      BY <2>3, <2>4, <3>1
    <3> QED
      BY <1>2, <2>4, <3>1, <3>2 DEF Untracked
  <2>7. Passing' = Passing \cup {m} /\ m \notin Passing
    <3>1. m \notin Passing /\ m # None
      BY <2>4, <2>6, TransportAssumption DEF OpenInv, Places, PlacesApart, Apart
    <3>2. ASSUME NEW x PROVE x \in Passing' <=> x \in Passing \/ x = m
      <4>1. x \in Passing' <=> x # None /\ \E t \in Streams : reader'[t].sending = x
        BY DEF Passing
      <4>2. x \in Passing <=> x # None /\ \E t \in Streams : reader[t].sending = x
        BY DEF Passing
      <4>3. ASSUME NEW t \in Streams, reader'[t].sending = x, x # m
            PROVE  reader[t].sending = x
        BY <2>3, <4>3
      <4>4. ASSUME NEW t \in Streams, reader[t].sending = x, x # None
            PROVE  reader'[t].sending = x
        BY <1>2, <2>3, <4>4
      <4> QED
        BY <2>3, <3>1, <4>1, <4>2, <4>3, <4>4
    <3> QED
      BY <3>1, <3>2
  <2>8. ToSet(events)' = ToSet(events) /\ ToSet(inbox)' = ToSet(inbox)
    BY <1>2
  <2>9. Enters(m)
    BY <1>2, <2>1, <2>5, <2>6, <2>7, <2>8, UntrackedKept, AnsweringKept, LeavingKept DEF Enters, Shrinks
  <2>10. OncePlaced'
    <3>1. Distinct(events) /\ Distinct(inbox)
      BY DEF OpenInv, Places, OncePlaced
    <3>2. \A t \in Streams : t # s => reader'[t].sending = reader[t].sending /\ reader[t].sending # m
      BY <2>3, <2>4, <2>7, TransportAssumption DEF Passing
    <3>3. \A t, v \in Streams : reader'[t].sending = reader'[v].sending /\ reader'[t].sending # None => t = v
      BY <2>3, <3>2 DEF OpenInv, Places, OncePlaced
    <3> QED
      BY <1>2, <3>1, <3>3 DEF OncePlaced
  <2> QED
    BY <2>4, <2>9, <2>10 DEF Moves
<1> QED
  BY <1>3, <1>4

(* ... and handed over.                                                    *)
LEMMA HandOverMove ==
  ASSUME BudgetInv, OpenInv, NEW s \in Streams, sse_send(s)
  PROVE  Moves /\ OncePlaced'
<1>1. PICK m : m = reader[s].sending
  OBVIOUS
<1>2. /\ m # None /\ events' = Append(events, m)
      /\ reader' = [reader EXCEPT ![s].sending = None]
      /\ UNCHANGED <<held, unsent, inbox, working, answers, lanes>>
  BY <1>1 DEF sse_send, ledger, out
<1>3. /\ DOMAIN reader = Streams
      /\ DOMAIN reader[s] = {"own", "msg", "read", "ready", "sending"} /\ m \in In
  BY <1>1, <1>2, RowFacts DEF BudgetInv, RowTypes
<1>4. /\ \A t \in Streams \ {s} : reader'[t] = reader[t]
      /\ reader'[s].msg = reader[s].msg /\ reader'[s].ready = reader[s].ready
      /\ reader'[s].sending = None
  BY <1>2, <1>3
<1>5. NothingNew
  BY <1>2, <1>4 DEF NothingNew, Holds
<1>6. \A t, v \in Streams : reader[t].sending = reader[v].sending /\ reader[t].sending # None => t = v
  BY DEF OpenInv, Places, OncePlaced
<1>7. m \in Passing /\ Passing' = Passing \ {m}
  <2>1. ASSUME NEW x PROVE x \in Passing' <=> x \in Passing /\ x # m
    <3>1. x \in Passing' <=> x # None /\ \E t \in Streams : reader'[t].sending = x
      BY DEF Passing
    <3>2. x \in Passing <=> x # None /\ \E t \in Streams : reader[t].sending = x
      BY DEF Passing
    <3>3. ASSUME NEW t \in Streams, reader'[t].sending = x, x # None
          PROVE  reader[t].sending = x /\ x # m
      <4>1. t # s /\ reader[t].sending = x
        BY <1>4, <3>3
      <4> QED
        BY <1>1, <1>2, <1>6, <4>1
    <3>4. ASSUME NEW t \in Streams, reader[t].sending = x, x # m
          PROVE  reader'[t].sending = x
      BY <1>1, <1>4, <3>4
    <3> QED
      BY <3>1, <3>2, <3>3, <3>4
  <2>2. m \in Passing
    BY <1>1, <1>2 DEF Passing
  <2> QED
    BY <2>1, <2>2
<1>8. events \in Seq(In) /\ Distinct(events) /\ Distinct(inbox) /\ m \notin ToSet(events)
  BY <1>7 DEF OpenInv, Places, OncePlaced, PlacesApart, Apart, BudgetInv, QueueTypes
<1>9. Distinct(events') /\ ToSet(events)' = ToSet(events) \cup {m} /\ ToSet(inbox)' = ToSet(inbox)
  BY <1>2, <1>3, <1>8, DistinctAppend
<1>10. Advances(m)
  BY <1>2, <1>5, <1>7, <1>9, UntrackedKept, AnsweringKept, LeavingKept DEF Advances, Shrinks
<1>11. OncePlaced'
  <2>1. \A t, v \in Streams : reader'[t].sending = reader'[v].sending /\ reader'[t].sending # None => t = v
    BY <1>4, <1>6
  <2> QED
    BY <1>2, <1>8, <1>9, <2>1 DEF OncePlaced
<1> QED
  BY <1>3, <1>10, <1>11 DEF Moves

-----------------------------------------------------------------------------
(* Nothing changes in the readers.                                         *)
LEMMA IdleReaders ==
  ASSUME UNCHANGED reader, unsent' \subseteq unsent
  PROVE  SameSending /\ NothingNew
  BY DEF SameSending, NothingNew

(* The hub consumes a message: what it acknowledges is matched.            *)
LEMMA DispatchMove ==
  ASSUME BudgetInv, OpenInv, NEW i \in DOMAIN inbox, on_receive_dispatch(i)
  PROVE  Moves /\ OncePlaced'
<1>1. PICK m : m = inbox[i]
  OBVIOUS
<1>2. inbox' = RemoveAt(inbox, i) /\ UNCHANGED <<reader, unsent, events, lanes>>
  BY DEF on_receive_dispatch
<1>3. inbox \in Seq(In) /\ Distinct(inbox)
  BY DEF OpenInv, Places, OncePlaced, BudgetInv, QueueTypes
<1>4. /\ m \in In /\ m \in ToSet(inbox) /\ Distinct(inbox') /\ ToSet(inbox)' = ToSet(inbox) \ {m}
      /\ ToSet(events)' = ToSet(events)
  BY <1>1, <1>2, <1>3, DistinctRemove
<1>5. SameSending /\ NothingNew
  BY <1>2, IdleReaders
<1>6. OncePlaced'
  BY <1>2, <1>4, <1>5 DEF OpenInv, Places, OncePlaced, SameSending
<1>7. CASE Kind(m) = "req"
  <2>1. working' = working \cup {m} /\ held' = held /\ answers' = answers
    BY <1>1, <1>7 DEF on_receive_dispatch
  <2>2. Advances(m)
    BY <1>2, <1>4, <1>5, <1>7, <2>1, SendingKept, UntrackedKept, AnsweringKept, LeavingKept
       DEF Advances, Shrinks
  <2> QED
    BY <1>4, <1>6, <2>2 DEF Moves
<1>8. CASE Kind(m) # "req"
  <2>1. m \in retained
    BY <1>4, RetainedIs DEF OpenInv, Places, Kept
  <2>2. matching(m) # {}
    BY <1>4, <1>8, <2>1, HandledMatched
  <2>3. /\ held' = held \ {acknowledged(m)} /\ working' = working
        /\ answers' \in {answers, answers \cup {Error}}
    BY <1>1, <1>8, <2>2 DEF on_receive_dispatch, release
  <2>4. Handles(m)
    BY <1>2, <1>4, <1>5, <1>8, <2>3, SendingKept, UntrackedKept, AnsweringKept, LeavingKept
       DEF Handles, Shrinks
  <2> QED
    BY <1>4, <1>6, <2>4 DEF Moves
<1> QED
  BY <1>7, <1>8

LEMMA RespondMove ==
  ASSUME BudgetInv, OpenInv, NEW q \in working, respond(q)
  PROVE  Moves /\ OncePlaced'
<1>1. /\ working' = working \ {q} /\ answers' = answers \cup {Answer(q)}
      /\ UNCHANGED <<held, reader, unsent, events, inbox, lanes>>
  BY DEF respond, ledger
<1>2. q \in In
  BY PlacesAreIn
<1>3. Answering' = Answering \cup {q}
  <2>1. \A x : Answer(x) = Answer(q) => x = q
    <3>1. \A x : [op |-> "answer", req |-> x].req = x
      OBVIOUS
    <3> QED
      BY <3>1 DEF Answer
  <2> QED
    BY <1>1, <1>2, <2>1 DEF Answering
<1>4. SameSending /\ NothingNew
  BY <1>1, IdleReaders
<1>5. ToSet(events)' = ToSet(events) /\ ToSet(inbox)' = ToSet(inbox)
  BY <1>1
<1>6. Advances(q)
  BY <1>1, <1>3, <1>4, <1>5, SendingKept, UntrackedKept, LeavingKept DEF Advances, Shrinks
<1>7. OncePlaced'
  BY <1>1 DEF OpenInv, Places, OncePlaced
<1> QED
  BY <1>2, <1>6, <1>7 DEF Moves

-----------------------------------------------------------------------------
(* An answer names its request.                                            *)
LEMMA AnswerNames ==
  /\ \A q : Answer(q).op = "answer" /\ Answer(q).req = q
  /\ \A q, r : Answer(q) = Answer(r) => q = r
  /\ \A q : Answer(q) # Error
  /\ \A o \in Scripted : \A q : o # Answer(q)
<1>1. \A q : Answer(q).op = "answer" /\ Answer(q).req = q
  BY DEF Answer
<1>2. Error.op = "error"
  BY DEF Error
<1>3. \A o \in Scripted : o.op # "answer"
  BY TransportAssumption
<1>4. \A q, r : Answer(q) = Answer(r) => q = r
  BY <1>1
<1> QED
  BY <1>1, <1>2, <1>3, <1>4

(* The hub's next message is an answer, or something else.                 *)
LEMMA TakenIs ==
  ASSUME BudgetInv, NEW o \in outgoing, taken(o)
  PROVE  \/ \E q \in Answering : o = Answer(q) /\ Answering' = Answering \ {q}
         \/ o.op # "answer" /\ Answering' = Answering
<1>1. /\ answers' = answers \ {o} /\ answers \subseteq {Answer(q) : q \in In} \cup {Error}
      /\ o \in answers \/ o \in Scripted
  BY TakenTypes DEF taken, BudgetInv, QueueTypes, outgoing
<1>2. CASE \E q \in In : o = Answer(q) /\ o \in answers
  BY <1>1, <1>2, AnswerNames DEF Answering
<1>3. CASE o \in Scripted \/ o = Error
  <2>1. o.op # "answer"
    BY <1>3, TransportAssumption DEF Error
  <2>2. \A q : o # Answer(q)
    BY <1>3, AnswerNames
  <2>3. Answering' = Answering
    BY <1>1, <2>2 DEF Answering
  <2> QED
    BY <2>1, <2>3
<1> QED
  BY <1>1, <1>2, <1>3

(* What the lanes carry after a step.                                      *)
CarriesOnly(o) ==
  /\ DOMAIN lanes' = DOMAIN lanes
  /\ \A l \in DOMAIN lanes : \A p : Carries(lanes'[l], p) => Carries(lanes[l], p) \/ p = o
CarriesLess ==
  /\ DOMAIN lanes' = DOMAIN lanes
  /\ \A l \in DOMAIN lanes : \A p : Carries(lanes'[l], p) => Carries(lanes[l], p)

LEMMA LessLeaving ==
  ASSUME CarriesLess
  PROVE  Leaving' \subseteq Leaving
  BY DEF CarriesLess, Leaving

(* A message of the hub is taken from the channel.                         *)
LEMMA TakenMove ==
  ASSUME BudgetInv, OpenInv, NEW o \in outgoing, taken(o), CarriesOnly(o),
         UNCHANGED <<reader, unsent, events, inbox, working>>,
         held' = held \/ complete_outbound_response(o)
  PROVE  Moves /\ OncePlaced'
<1>1. SameSending /\ NothingNew
  BY IdleReaders
<1>2. Passing' = Passing /\ Untracked' \subseteq Untracked
  BY <1>1, SendingKept, UntrackedKept
<1>3. ToSet(events)' = ToSet(events) /\ ToSet(inbox)' = ToSet(inbox)
  OBVIOUS
<1>4. OncePlaced'
  BY DEF OpenInv, Places, OncePlaced
<1>5. ASSUME NEW q \in Answering, o = Answer(q), Answering' = Answering \ {q} PROVE Leaves(q)
  <2>1. Leaving' \subseteq Leaving \cup {q}
    BY <1>5, AnswerNames DEF CarriesOnly, Leaving
  <2>2. held' \in {held, held \ {q}}
    BY <1>5, AnswerNames DEF complete_outbound_response, release
  <2> QED
    BY <1>2, <1>3, <1>5, <2>1, <2>2 DEF Leaves
<1>6. ASSUME o.op # "answer", Answering' = Answering PROVE Rests
  <2>1. \A q : o # Answer(q)
    BY <1>6, AnswerNames
  <2>2. Leaving' \subseteq Leaving
    BY <2>1 DEF CarriesOnly, Leaving
  <2>3. held' = held
    BY <1>6 DEF complete_outbound_response
  <2> QED
    BY <1>2, <1>3, <1>6, <2>2, <2>3 DEF Rests, Shrinks
<1>7. Moves
  BY <1>5, <1>6, TakenIs, PlacesAreIn DEF Moves
<1> QED
  BY <1>4, <1>7

(* The answer in flight releases its request.                              *)
LEMMA CompletedHeld ==
  ASSUME BudgetInv, FlightTypes, NEW l \in DOMAIN lanes, lanes[l].flight # None,
         complete_outbound_response(lanes[l].flight.post)
  PROVE  held' = held \/ \E q \in Leaving : held' = held \ {q}
<1>1. PICK o : o = lanes[l].flight.post
  OBVIOUS
<1>2. o \in Outputs
  BY <1>1 DEF FlightTypes
<1>3. CASE o.op = "answer" /\ o.req \in held
  <2>1. held' = held \ {o.req}
    BY <1>1, <1>3 DEF complete_outbound_response, release
  <2>2. PICK q \in In : o = Answer(q)
    BY <1>2, <1>3, TransportAssumption DEF Outputs, Error
  <2>3. q \in Leaving
    BY <1>1, <2>2 DEF Leaving, Carries
  <2> QED
    BY <2>1, <2>2, <2>3, AnswerNames
<1>4. CASE ~(o.op = "answer" /\ o.req \in held)
  BY <1>1, <1>4 DEF complete_outbound_response
<1> QED
  BY <1>3, <1>4

(* Lanes in which a message starts or ends.                                *)
LEMMA FlightCarries ==
  ASSUME BudgetInv, NEW l \in DOMAIN lanes, NEW f, lanes' = [lanes EXCEPT ![l].flight = f]
  PROVE  f = None \/ (lanes[l].flight # None /\ f.post = lanes[l].flight.post) => CarriesLess
<1>1. DOMAIN lanes[l] = {"queued", "flight"}
  BY DEF BudgetInv, LaneTypes
<1>2. /\ DOMAIN lanes' = DOMAIN lanes /\ \A x \in DOMAIN lanes \ {l} : lanes'[x] = lanes[x]
      /\ lanes'[l].flight = f /\ lanes'[l].queued = lanes[l].queued
  BY <1>1
<1> QED
  BY <1>2 DEF CarriesLess, Carries

LEMMA StartedCarries ==
  ASSUME BudgetInv, NEW l \in DOMAIN lanes, NEW o, NEW arrived,
         lanes' = [lanes EXCEPT ![l].flight = [post |-> o, arrived |-> arrived]]
  PROVE  CarriesOnly(o)
<1>1. DOMAIN lanes[l] = {"queued", "flight"}
  BY DEF BudgetInv, LaneTypes
<1>2. /\ DOMAIN lanes' = DOMAIN lanes /\ \A x \in DOMAIN lanes \ {l} : lanes'[x] = lanes[x]
      /\ lanes'[l].flight.post = o /\ lanes'[l].queued = lanes[l].queued
  BY <1>1
<1> QED
  BY <1>2 DEF CarriesOnly, Carries

LEMMA PushCarries ==
  ASSUME BudgetInv, NEW l \in DOMAIN lanes, NEW o \in Outputs, push(l, o)
  PROVE  CarriesOnly(o)
<1>1. CASE lanes[l].flight = None
  BY <1>1, StartedCarries DEF push
<1>2. CASE lanes[l].flight # None
  <2>1. DOMAIN lanes[l] = {"queued", "flight"} /\ lanes[l].queued \in Seq(Outputs)
    BY DEF BudgetInv, LaneTypes
  <2>2. lanes' = [lanes EXCEPT ![l].queued = Append(@, o)]
    BY <1>2 DEF push
  <2>3. /\ DOMAIN lanes' = DOMAIN lanes /\ \A x \in DOMAIN lanes \ {l} : lanes'[x] = lanes[x]
        /\ lanes'[l].flight = lanes[l].flight /\ lanes'[l].queued = Append(lanes[l].queued, o)
    BY <2>1, <2>2
  <2>4. \A i \in 1..Len(Append(lanes[l].queued, o)) :
          \/ i \in 1..Len(lanes[l].queued) /\ Append(lanes[l].queued, o)[i] = lanes[l].queued[i]
          \/ Append(lanes[l].queued, o)[i] = o
    BY <2>1, AppendProperties
  <2>5. \A p : Carries(lanes'[l], p) => Carries(lanes[l], p) \/ p = o
    BY <2>3, <2>4 DEF Carries
  <2> QED
    BY <2>3, <2>5 DEF CarriesOnly
<1> QED
  BY <1>1, <1>2

LEMMA NextCarries ==
  ASSUME BudgetInv, NEW l \in DOMAIN lanes, start_next(l)
  PROVE  CarriesLess
<1>1. /\ lanes[l].queued # <<>>
      /\ lanes' = [lanes EXCEPT ![l].flight = [post |-> Head(lanes[l].queued), arrived |-> FALSE],
                                ![l].queued = Tail(@)]
  BY DEF start_next
<1>2. DOMAIN lanes[l] = {"queued", "flight"} /\ lanes[l].queued \in Seq(Outputs)
  BY DEF BudgetInv, LaneTypes
<1>3. /\ DOMAIN lanes' = DOMAIN lanes /\ \A x \in DOMAIN lanes \ {l} : lanes'[x] = lanes[x]
      /\ lanes'[l].flight.post = Head(lanes[l].queued) /\ lanes'[l].queued = Tail(lanes[l].queued)
  BY <1>1, <1>2
<1>4. /\ Len(lanes[l].queued) \in Nat /\ Len(lanes[l].queued) > 0
      /\ Head(lanes[l].queued) = lanes[l].queued[1]
      /\ Len(Tail(lanes[l].queued)) = Len(lanes[l].queued) - 1
      /\ \A i \in 1..(Len(lanes[l].queued) - 1) : Tail(lanes[l].queued)[i] = lanes[l].queued[i + 1]
  BY <1>1, <1>2, HeadTailProperties, EmptySeq
<1>5. /\ 1 \in 1..Len(lanes[l].queued)
      /\ \A i \in 1..Len(Tail(lanes[l].queued)) :
           i + 1 \in 1..Len(lanes[l].queued) /\ Tail(lanes[l].queued)[i] = lanes[l].queued[i + 1]
  BY <1>4
<1>6. \A p : Carries(lanes'[l], p) => Carries(lanes[l], p)
  BY <1>3, <1>4, <1>5 DEF Carries
<1> QED
  BY <1>3, <1>6 DEF CarriesLess

-----------------------------------------------------------------------------
(* The steps of the transport towards the agent: stdio and WebSocket, ...  *)
LEMMA WriteMove ==
  ASSUME BudgetInv, OpenInv, NEW o \in outgoing, stdio_write(o)
  PROVE  Moves /\ OncePlaced'
<1>1. /\ taken(o) /\ lanes' = [lanes EXCEPT !["ordered"].flight = [post |-> o, arrived |-> TRUE]]
      /\ UNCHANGED <<held, reader, unsent, events, inbox, working>>
  BY DEF stdio_write, ledger
<1>2. "ordered" \in DOMAIN lanes
  BY DEF BudgetInv, LaneTypes
<1>3. CarriesOnly(o)
  BY <1>1, <1>2, StartedCarries
<1> QED
  BY <1>1, <1>3, TakenMove

LEMMA WrittenMove ==
  ASSUME BudgetInv, FlightTypes, OpenInv, stdio_written
  PROVE  Moves /\ OncePlaced'
<1>1. /\ lanes["ordered"].flight # None /\ complete_outbound_response(lanes["ordered"].flight.post)
      /\ lanes' = [lanes EXCEPT !["ordered"].flight = None]
      /\ UNCHANGED <<reader, unsent, events, inbox, working, answers>>
  BY DEF stdio_written
<1>2. "ordered" \in DOMAIN lanes
  BY DEF BudgetInv, LaneTypes
<1>3. held' = held \/ \E q \in Leaving : held' = held \ {q}
  BY <1>1, <1>2, CompletedHeld
<1>4. Leaving' \subseteq Leaving
  BY <1>1, <1>2, FlightCarries, LessLeaving
<1> QED
  BY <1>1, <1>3, <1>4, IdleReaders, QuietMove

LEMMA OutboundMove ==
  ASSUME BudgetInv, OpenInv, NEW o \in outgoing, ws_outbound(o)
  PROVE  Moves /\ OncePlaced'
<1>1. /\ taken(o) /\ complete_outbound_response(o)
      /\ UNCHANGED <<reader, unsent, events, inbox, working, lanes>>
  BY DEF ws_outbound
<1>2. CarriesOnly(o)
  BY <1>1 DEF CarriesOnly
<1> QED
  BY <1>1, <1>2, TakenMove

(* ... and HTTP: the first message, ...                                    *)
LEMMA InitializeMove ==
  ASSUME BudgetInv, OpenInv, Open, NEW m \in In, NEW outcome \in Outcomes, initialize(m, outcome)
  PROVE  Moves /\ OncePlaced'
<1>1. /\ m \in unsent /\ unsent' = unsent \ {m} /\ track(m) /\ inbox' = Append(inbox, m)
      /\ UNCHANGED <<reader, events, working, answers, lanes>>
  BY DEF initialize, end_leg, Open
<1>2. SameSending /\ NothingNew
  BY <1>1, IdleReaders
<1>3. m \in Untracked /\ m \notin Untracked'
  <2>1. \A s \in Streams : ~Holds(reader[s], m)
    BY <1>1 DEF BudgetInv, ReadPart, ReadIsNew
  <2>2. m \notin unsent' /\ \A s \in Streams : ~Holds(reader'[s], m)
    BY <1>1, <2>1
  <2> QED
    BY <1>1, <2>2 DEF Untracked
<1>4. held' = held \cup {m}
  BY <1>1 DEF track
<1> QED
  BY <1>1, <1>2, <1>3, <1>4, DeliverMove

(* ... the loop, ...                                                       *)
LEMMA OutgoingMove ==
  ASSUME BudgetInv, OpenInv, Open, NEW o \in outgoing, http_outgoing(o)
  PROVE  Moves /\ OncePlaced'
<1>1. PICK l : l = lane_of(o) /\ l \in {"ordered", "response"}
  BY DEF lane_of
<1>2. /\ push(l, o) /\ taken(o)
      /\ UNCHANGED <<held, reader, unsent, events, inbox, working>>
  BY <1>1 DEF http_outgoing, end_leg, ledger, Open
<1>3. CarriesOnly(o)
  <2>1. l \in DOMAIN lanes
    BY <1>1 DEF BudgetInv, LaneTypes
  <2> QED
    BY <1>2, <2>1, TakenTypes, PushCarries
<1> QED
  BY <1>2, <1>3, TakenMove

LEMMA EventMove ==
  ASSUME BudgetInv, OpenInv, Open, http_event
  PROVE  Moves /\ OncePlaced'
<1>1. PICK m : m = Head(events)
  OBVIOUS
<1>2. /\ events # <<>> /\ events' = Tail(events) /\ inbox' = Append(inbox, m)
      /\ UNCHANGED <<held, reader, unsent, working, answers, lanes>>
  BY <1>1 DEF http_event, Open
<1>3. /\ events \in Seq(In) /\ inbox \in Seq(In) /\ Distinct(events) /\ Distinct(inbox)
  BY DEF OpenInv, Places, OncePlaced, BudgetInv, QueueTypes
<1>4. /\ m \in ToSet(events) /\ Distinct(events') /\ ToSet(events)' = ToSet(events) \ {m}
  BY <1>1, <1>2, <1>3, DistinctTail
<1>5. m \in In /\ m \notin ToSet(inbox)
  BY <1>4, PlacesAreIn DEF OpenInv, Places, PlacesApart, Apart
<1>6. Distinct(inbox') /\ ToSet(inbox)' = ToSet(inbox) \cup {m}
  BY <1>2, <1>3, <1>5, DistinctAppend
<1>7. SameSending /\ NothingNew
  BY <1>2, IdleReaders
<1>8. Advances(m)
  BY <1>2, <1>4, <1>6, <1>7, SendingKept, UntrackedKept, AnsweringKept, LeavingKept
     DEF Advances, Shrinks
<1>9. OncePlaced'
  BY <1>2, <1>4, <1>6 DEF OpenInv, Places, OncePlaced
<1> QED
  BY <1>5, <1>8, <1>9 DEF Moves

(* ... and the POSTs.                                                      *)
LEMMA StartMove ==
  ASSUME BudgetInv, OpenInv, NEW l \in DOMAIN lanes, start_next(l)
  PROVE  Moves /\ OncePlaced'
<1>1. UNCHANGED <<held, reader, unsent, events, inbox, working, answers>>
  BY DEF start_next, ledger
<1> QED
  BY <1>1, NextCarries, LessLeaving, IdleReaders, QuietMove

LEMMA ArrivesMove ==
  ASSUME BudgetInv, FlightTypes, OpenInv, NEW l \in DOMAIN lanes, post_arrives(l)
  PROVE  Moves /\ OncePlaced'
<1>1. /\ lanes[l].flight # None /\ lanes' = [lanes EXCEPT ![l].flight.arrived = TRUE]
      /\ UNCHANGED <<held, reader, unsent, events, inbox, working, answers>>
  BY DEF post_arrives, ledger
<1>2. PICK f : f = [lanes[l].flight EXCEPT !.arrived = TRUE]
  OBVIOUS
<1>3. f.post = lanes[l].flight.post /\ lanes' = [lanes EXCEPT ![l].flight = f]
  BY <1>1, <1>2 DEF FlightTypes
<1>4. Leaving' \subseteq Leaving
  BY <1>1, <1>3, FlightCarries, LessLeaving
<1> QED
  BY <1>1, <1>4, IdleReaders, QuietMove

LEMMA DoneMove ==
  ASSUME BudgetInv, FlightTypes, OpenInv, Open, NEW l \in DOMAIN lanes, NEW ok \in BOOLEAN,
         post_done(l, ok)
  PROVE  Moves /\ OncePlaced'
<1>1. /\ lanes[l].flight # None /\ complete_outbound_response(lanes[l].flight.post)
      /\ lanes' = [lanes EXCEPT ![l].flight = None]
      /\ UNCHANGED <<reader, unsent, events, inbox, working, answers>>
  BY DEF post_done, end_leg, Open
<1>2. held' = held \/ \E q \in Leaving : held' = held \ {q}
  BY <1>1, CompletedHeld
<1>3. Leaving' \subseteq Leaving
  BY <1>1, FlightCarries, LessLeaving
<1> QED
  BY <1>1, <1>2, <1>3, IdleReaders, QuietMove

-----------------------------------------------------------------------------
(* While the connection is up, every step moves the messages so.           *)
LEMMA StepMoves ==
  ASSUME BudgetInv, FlightTypes, OpenInv, Open, [Next]_vars
  PROVE  Moves /\ OncePlaced'
<1>1. CASE \E m \in In : agent_sends(m) \/ \E r \in Outcomes : initialize(m, r)
  BY <1>1, SendsMove, InitializeMove
<1>2. CASE \E s \in Streams :
             \/ \E k \in Sizes : read_bounded_line(s, k) \/ read_sse(s, k)
             \/ admit(s) \/ transfer_message(s) \/ sse_send(s) \/ stream_closed(s)
  BY <1>2, LineMove, ChunkMove, StdioMove, TransferMove, HandOverMove, ClosedMove
<1>3. CASE ws_inbound \/ http_event \/ stdio_written
  BY <1>3, FrameMove, EventMove, WrittenMove
<1>4. CASE sse_failure \/ initialize_fails \/ not_initialized
  BY <1>4 DEF sse_failure, initialize_fails, not_initialized, end_leg, Open
<1>5. CASE (\E i \in DOMAIN inbox : on_receive_dispatch(i)) \/ (\E q \in working : respond(q))
  BY <1>5, DispatchMove, RespondMove
<1>6. CASE \E o \in outgoing : stdio_write(o) \/ ws_outbound(o) \/ http_outgoing(o)
  BY <1>6, WriteMove, OutboundMove, OutgoingMove
<1>7. CASE \E l \in DOMAIN lanes :
             \/ start_next(l) \/ post_arrives(l) \/ post_fails(l)
             \/ \E ok \in BOOLEAN : post_done(l, ok)
  BY <1>7, StartMove, ArrivesMove, DoneMove DEF post_fails, end_leg, Open
<1>8. CASE UNCHANGED vars
  <2>1. UNCHANGED <<held, reader, unsent, events, inbox, working, answers, lanes>>
    BY <1>8 DEF vars, ledger, out
  <2> QED
    BY <2>1, IdleReaders, LeavingKept, QuietMove
<1> QED
  BY <1>1, <1>2, <1>3, <1>4, <1>5, <1>6, <1>7, <1>8 DEF Next

(* A flight that starts carries a message of the hub.                      *)
LEMMA FlightsKept ==
  ASSUME BudgetInv, FlightTypes, [Next]_vars
  PROVE  FlightTypes'
<1>1. /\ DOMAIN lanes = {"ordered", "response"}
      /\ \A l \in DOMAIN lanes : DOMAIN lanes[l] = {"queued", "flight"} /\ lanes[l].queued \in Seq(Outputs)
  BY DEF BudgetInv, LaneTypes
<1>2. ASSUME lanes' = lanes \/ lanes' = [l \in DOMAIN lanes |-> EmptyLane]
      PROVE  FlightTypes'
  BY <1>2 DEF FlightTypes, EmptyLane
<1>3. ASSUME NEW l \in DOMAIN lanes, DOMAIN lanes' = DOMAIN lanes,
             \A x \in DOMAIN lanes \ {l} : lanes'[x] = lanes[x],
             lanes'[l].flight = lanes[l].flight
               \/ lanes'[l].flight \in {None} \cup [post : Outputs, arrived : BOOLEAN]
      PROVE  FlightTypes'
  BY <1>3 DEF FlightTypes
<1>4. CASE \E m \in In : agent_sends(m) \/ \E r \in Outcomes : initialize(m, r)
  BY <1>2, <1>4 DEF agent_sends, initialize, end_leg, out
<1>5. ASSUME NEW s \in Streams,
             \/ \E k \in Sizes : read_bounded_line(s, k) \/ read_sse(s, k)
             \/ admit(s) \/ transfer_message(s) \/ sse_send(s) \/ stream_closed(s)
      PROVE  FlightTypes'
  <2>1. ASSUME NEW k \in Sizes, read_bounded_line(s, k) \/ read_sse(s, k) PROVE FlightTypes'
    BY <1>2, <2>1 DEF read_bounded_line, read_sse, end_leg, out
  <2>2. CASE admit(s) \/ transfer_message(s)
    BY <1>2, <2>2 DEF admit, transfer_message, end_leg, out
  <2>3. CASE sse_send(s) \/ stream_closed(s)
    BY <1>2, <2>3 DEF sse_send, stream_closed, end_leg, out
  <2> QED
    BY <1>5, <2>1, <2>2, <2>3
<1>6. CASE ws_inbound \/ http_event \/ sse_failure \/ initialize_fails \/ not_initialized
  BY <1>2, <1>6 DEF ws_inbound, http_event, sse_failure, initialize_fails, not_initialized, end_leg, out
<1>7. CASE (\E i \in DOMAIN inbox : on_receive_dispatch(i)) \/ (\E q \in working : respond(q))
  BY <1>2, <1>7 DEF on_receive_dispatch, respond
<1>8. CASE stdio_written
  <2>1. lanes' = [lanes EXCEPT !["ordered"].flight = None]
    BY <1>8 DEF stdio_written
  <2> QED
    BY <1>1, <1>3, <2>1
<1>9. ASSUME NEW o \in outgoing, stdio_write(o) PROVE FlightTypes'
  <2>1. lanes' = [lanes EXCEPT !["ordered"].flight = [post |-> o, arrived |-> TRUE]] /\ o \in Outputs
    BY <1>9, TakenTypes DEF stdio_write
  <2> QED
    BY <1>1, <1>3, <2>1
<1>10. ASSUME NEW o \in outgoing, ws_outbound(o) PROVE FlightTypes'
  BY <1>2, <1>10 DEF ws_outbound
<1>11. ASSUME NEW o \in outgoing, http_outgoing(o) PROVE FlightTypes'
  <2>1. PICK l \in DOMAIN lanes : l = lane_of(o)
    BY <1>1 DEF lane_of
  <2>2. lanes' = [x \in DOMAIN lanes |-> EmptyLane] \/ push(l, o)
    BY <1>11, <2>1 DEF http_outgoing, end_leg
  <2>3. ASSUME push(l, o) PROVE FlightTypes'
    <3>1. \/ lanes' = [lanes EXCEPT ![l].flight = [post |-> o, arrived |-> FALSE]]
          \/ lanes' = [lanes EXCEPT ![l].queued = Append(@, o)]
      BY <2>3 DEF push
    <3>2. o \in Outputs
      BY TakenTypes
    <3>3. CASE lanes' = [lanes EXCEPT ![l].flight = [post |-> o, arrived |-> FALSE]]
      <4>1. /\ DOMAIN lanes' = DOMAIN lanes /\ \A x \in DOMAIN lanes \ {l} : lanes'[x] = lanes[x]
            /\ lanes'[l].flight = [post |-> o, arrived |-> FALSE]
        BY <1>1, <3>3
      <4>2. lanes'[l].flight \in [post : Outputs, arrived : BOOLEAN]
        BY <3>2, <4>1
      <4> QED
        BY <1>3, <4>1, <4>2
    <3>4. CASE lanes' = [lanes EXCEPT ![l].queued = Append(@, o)]
      <4>1. /\ DOMAIN lanes' = DOMAIN lanes /\ \A x \in DOMAIN lanes \ {l} : lanes'[x] = lanes[x]
            /\ lanes'[l].flight = lanes[l].flight
        BY <1>1, <3>4
      <4> QED
        BY <1>3, <4>1
    <3> QED
      BY <3>1, <3>3, <3>4
  <2> QED
    BY <1>2, <2>2, <2>3
<1>12. ASSUME NEW l \in DOMAIN lanes, start_next(l) PROVE FlightTypes'
  <2>1. /\ lanes[l].queued # <<>>
        /\ lanes' = [lanes EXCEPT ![l].flight = [post |-> Head(lanes[l].queued), arrived |-> FALSE],
                                  ![l].queued = Tail(@)]
    BY <1>12 DEF start_next
  <2>2. Head(lanes[l].queued) \in Outputs
    BY <1>1, <2>1, HeadTailProperties
  <2> QED
    BY <1>1, <1>3, <2>1, <2>2
<1>13. ASSUME NEW l \in DOMAIN lanes, post_arrives(l) PROVE FlightTypes'
  <2>1. lanes[l].flight # None /\ lanes' = [lanes EXCEPT ![l].flight.arrived = TRUE]
    BY <1>13 DEF post_arrives
  <2>2. lanes'[l].flight \in [post : Outputs, arrived : BOOLEAN]
    BY <1>1, <2>1 DEF FlightTypes
  <2> QED
    BY <1>1, <1>3, <2>1, <2>2
<1>14. ASSUME NEW l \in DOMAIN lanes, NEW ok \in BOOLEAN, post_done(l, ok) PROVE FlightTypes'
  <2>1. lanes' = [x \in DOMAIN lanes |-> EmptyLane] \/ lanes' = [lanes EXCEPT ![l].flight = None]
    BY <1>14 DEF post_done, end_leg
  <2> QED
    BY <1>1, <1>2, <1>3, <2>1
<1>15. ASSUME NEW l \in DOMAIN lanes, post_fails(l) PROVE FlightTypes'
  BY <1>2, <1>15 DEF post_fails, end_leg
<1>16. CASE UNCHANGED vars
  BY <1>2, <1>16 DEF vars, out
<1> QED
  BY <1>4, <1>5, <1>6, <1>7, <1>8, <1>9, <1>10, <1>11, <1>12, <1>13, <1>14, <1>15,
     <1>16 DEF Next


-----------------------------------------------------------------------------
(* At first every message is with the agent.                               *)
LEMMA CountStarts == Init => CountInv
<1> SUFFICES ASSUME Init PROVE CountInv
  OBVIOUS
<1>1. /\ held = {} /\ unsent = In /\ events = <<>> /\ inbox = <<>> /\ working = {} /\ answers = {}
      /\ reader = [s \in Streams |-> Idle]
      /\ lanes = [l \in {"ordered", "response"} |-> EmptyLane]
  BY DEF Init
<1>2. \A l \in DOMAIN lanes : lanes[l].flight = None /\ lanes[l].queued = <<>>
  BY <1>1 DEF EmptyLane
<1>3. \A s \in Streams : reader[s].sending = None
  BY <1>1 DEF Idle
<1>4. FlightTypes
  BY <1>2 DEF FlightTypes
<1>5. ToSet(<<>>) = {} /\ Len(<<>>) = 0
  BY EmptySeq DEF ToSet
<1>6. Passing = {} /\ Answering = {}
  BY <1>1, <1>3 DEF Passing, Answering
<1>7. Leaving = {}
  <2>1. 1..0 = {}
    OBVIOUS
  <2>2. \A l \in DOMAIN lanes : Len(lanes[l].queued) = 0
    BY <1>2, <1>5
  <2> QED
    BY <1>2, <2>1, <2>2 DEF Leaving, Carries
<1>8. PlacesApart
  BY <1>1, <1>5, <1>6, <1>7 DEF PlacesApart, Apart
<1>9. OncePlaced
  <2>1. Distinct(<<>>)
    <3>1. 1..0 = {}
      OBVIOUS
    <3> QED
      BY <1>5, <3>1 DEF Distinct
  <2> QED
    BY <1>1, <1>3, <2>1 DEF OncePlaced
<1>10. PlacesUsed
  BY <1>1, <1>6, <1>7 DEF PlacesUsed
<1>11. Reserved
  <2>1. retained = {}
    BY <1>1, <1>5, <1>6, <1>10, RetainedIs DEF Kept
  <2>2. NoRequests(retained) = {} /\ NoRequests(held) = {} /\ Requests(retained) = {}
    BY <1>1, <2>1 DEF NoRequests, Requests
  <2>3. \E f \in [{} -> {}] : Matching(f, {}, {})
    <3>1. [x \in {} |-> x] \in [{} -> {}]
      OBVIOUS
    <3>2. Matching([x \in {} |-> x], {}, {})
      BY <3>1 DEF Matching
    <3> QED
      BY <3>1, <3>2
  <2> QED
    BY <2>2, <2>3 DEF Reserved
<1> QED
  BY <1>4, <1>8, <1>9, <1>10, <1>11, BudgetsStart DEF CountInv, OpenInv, Places

(* A connection that has ended is not opened again.                        *)
LEMMA EndedForGood == conn = "ended" /\ [Next]_vars => conn' = "ended"
<1> SUFFICES ASSUME conn = "ended", [Next]_vars PROVE conn' = "ended"
  OBVIOUS
<1> DEFINE Same == conn' \in {conn, "ended"}
<1>1. ASSUME NEW m \in In, agent_sends(m) \/ \E r \in Outcomes : initialize(m, r) PROVE Same
  BY <1>1, Zenon DEF agent_sends, initialize
<1>2. ASSUME NEW s \in Streams,
             \/ \E k \in Sizes : read_bounded_line(s, k) \/ read_sse(s, k)
             \/ admit(s) \/ transfer_message(s) \/ sse_send(s) \/ stream_closed(s)
      PROVE  Same
  <2>1. ASSUME NEW k \in Sizes, read_bounded_line(s, k) PROVE Same
    BY <2>1 DEF read_bounded_line, end_leg
  <2>2. ASSUME NEW k \in Sizes, read_sse(s, k) PROVE Same
    BY <2>2 DEF read_sse
  <2>3. CASE admit(s)
    BY <2>3 DEF admit, end_leg
  <2>4. CASE transfer_message(s) \/ sse_send(s) \/ stream_closed(s)
    BY <2>4, Zenon DEF transfer_message, sse_send, stream_closed
  <2> QED
    BY <1>2, <2>1, <2>2, <2>3, <2>4
<1>3. CASE ws_inbound \/ sse_failure \/ initialize_fails \/ not_initialized \/ http_event
  BY <1>3, Zenon DEF ws_inbound, sse_failure, initialize_fails, not_initialized, http_event
<1>4. CASE stdio_written
  BY <1>4 DEF stdio_written, end_leg
<1>5. ASSUME NEW i \in DOMAIN inbox, on_receive_dispatch(i) PROVE Same
  BY <1>5 DEF on_receive_dispatch
<1>6. ASSUME NEW q \in working, respond(q) PROVE Same
  BY <1>6 DEF respond
<1>7. ASSUME NEW o \in outgoing, stdio_write(o) \/ ws_outbound(o) \/ http_outgoing(o) PROVE Same
  BY <1>7, Zenon DEF stdio_write, ws_outbound, http_outgoing
<1>8. ASSUME NEW l \in DOMAIN lanes,
             \/ start_next(l) \/ post_arrives(l) \/ post_fails(l)
             \/ \E ok \in BOOLEAN : post_done(l, ok)
      PROVE  Same
  BY <1>8, Zenon DEF start_next, post_arrives, post_fails, post_done
<1>9. CASE UNCHANGED vars
  BY <1>9 DEF vars
<1> QED
  BY <1>1, <1>2, <1>3, <1>4, <1>5, <1>6, <1>7, <1>8, <1>9 DEF Next

LEMMA CountKept == CountInv /\ [Next]_vars => CountInv'
<1> SUFFICES ASSUME CountInv, [Next]_vars PROVE CountInv'
  OBVIOUS
<1>1. BudgetInv' /\ FlightTypes'
  BY BudgetsKept, FlightsKept DEF CountInv
<1>2. ASSUME conn' # "ended" PROVE OpenInv'
  <2>1. conn # "ended" /\ BudgetInv /\ FlightTypes /\ OpenInv
    BY <1>2, EndedForGood DEF CountInv
  <2>2. Moves /\ OncePlaced'
    BY <1>2, <2>1, StepMoves DEF Open
  <2>3. leg' = leg
    BY LegKept
  <2> QED
    BY <2>1, <2>2, <2>3, OpenKept
<1> QED
  BY <1>1, <1>2 DEF CountInv

(* On an open connection a request that the hub retains has its            *)
(* reservation, and of any other message there are as many reservations of *)
(* its identity as the hub retains messages with it, worth at least as     *)
(* many bytes: the handler of acp.rs that acknowledges by canonical        *)
(* identity, and the release of the smallest such reservation in flow.rs,  *)
(* never miss and never give back more than is owed, whatever order a      *)
(* proxy delivers in.                                                      *)
THEOREM AcknowledgementsMatch == Spec => []NeverUndercounts
<1>1. CountInv => NeverUndercounts
  <2> SUFFICES ASSUME CountInv, conn # "ended", NEW m \in In \ unsent
               PROVE  LET same == {n \in retained : Kind(n) = Kind(m) /\ Ident(n) = Ident(m)} IN
                      IF Kind(m) = "req" THEN m \in retained => m \in held
                      ELSE /\ Cardinality(same) = Cardinality(matching(m))
                           /\ Sum(same) <= Sum(matching(m))
    BY DEF NeverUndercounts
  <2>1. BudgetInv /\ OpenInv
    BY DEF CountInv
  <2>2. retained \subseteq In /\ held \subseteq In
    BY <2>1, RetainedIs, PlacesAreIn DEF OpenInv, Places, Kept
  <2>3. CASE Kind(m) = "req"
    BY <2>1, <2>3 DEF OpenInv, Reserved, Requests
  <2>4. CASE Kind(m) # "req"
    <3>1. PICK f \in [NoRequests(retained) -> NoRequests(held)] :
            Matching(f, NoRequests(retained), NoRequests(held))
      BY <2>1 DEF OpenInv, Reserved
    <3>2. NoRequests(retained) \in SUBSET In /\ NoRequests(held) \in SUBSET In
      BY <2>2 DEF NoRequests
    <3>3. /\ Alike(NoRequests(retained), m)
               = {n \in retained : Kind(n) = Kind(m) /\ Ident(n) = Ident(m)}
          /\ Alike(NoRequests(held), m) = matching(m)
      BY <2>4 DEF Alike, NoRequests, matching
    <3> QED
      BY <2>4, <3>1, <3>2, <3>3, MatchingCounts
  <2> QED
    BY <2>3, <2>4
<1> QED
  BY <1>1, CountStarts, CountKept, PTL DEF Spec
=============================================================================
