----------------------------- MODULE RpcProofs ------------------------------
(***************************************************************************)
(* What a call over the daemon's socket reports agrees with what the       *)
(* daemon did, and no call is left behind in the map of a closed           *)
(* connection: for any number of connections and requests, any admission   *)
(* limits and any number of clients that die.                              *)
(*                                                                         *)
(* The argument follows each request on its way: it is in the socket, in   *)
(* the reader's hand, in the channel, or taken up by the daemon, never in  *)
(* two of these; once taken up it never starts again; and it is executed   *)
(* before its own answer is written, but never when it is refused.         *)
(***************************************************************************)
EXTENDS Rpc, SequenceTheorems, TLAPS

Marks == {"eof", "error", Nothing}
Items == Reqs \cup Pushes
Frames == [of : Items \cup {Nothing},
           kind : Answers \cup {"terminal", "torn"}]
TaskStates == {"none", "dispatch", "wait", "write", "ok", "close", "err", "end"}
RespKinds == Answers \cup {"none", "terminal"}

\* The tables of the client, and those of the daemon.
ClientTypes ==
  /\ cst \in [Reqs -> {"new", "pending", "written", "done"}]
  /\ reply \in [Reqs -> Answers \cup {"none", "drop"}]
  /\ outcome \in [Reqs -> {"none", "ok", "error", "unavailable", "failed", "reply_lost"}]
  /\ pending \subseteq Reqs
  /\ closed \subseteq Conns /\ drained \subseteq closed /\ gone \subseteq Conns

QueueTypes ==
  /\ up \in [Conns -> Seq(Reqs)]
  /\ rd \in [Conns -> {"slot", "data", "send", "done"}]
  /\ hand \in [Conns -> Reqs \cup Marks]
  /\ chan \in [Conns -> Seq(Reqs \cup Marks)]
  /\ \A k \in Conns : Len(chan[k]) <= 1

LoopTypes ==
  /\ lp \in [Conns -> {"select", "own", "drain", "abort", "closed"}]
  /\ own \in [Conns -> Items \cup {Nothing}]
  /\ task \in [Items -> TaskStates]
  /\ resp \in [Items -> RespKinds]
  /\ ran \subseteq Reqs /\ shut \subseteq Conns

\* Where a request waits before the daemon takes it up.
InUp(r) == \E i \in 1..Len(up[ConnOf[r]]) : up[ConnOf[r]][i] = r
InHand(r) == hand[ConnOf[r]] = r
InChan(r) == \E i \in 1..Len(chan[ConnOf[r]]) : chan[ConnOf[r]][i] = r
Unseen(r) == ~InUp(r) /\ ~InHand(r) /\ ~InChan(r) /\ task[r] = "none"
Taken(r) == task[r] \notin {"none", "dispatch"}

\* A connection carries its own requests, each once.
QueuesPlaced ==
  \A k \in Conns :
    /\ \A i \in 1..Len(up[k]) : ConnOf[up[k][i]] = k
    /\ \A i, j \in 1..Len(up[k]) : up[k][i] = up[k][j] => i = j
    /\ hand[k] \in Reqs => ConnOf[hand[k]] = k
    /\ \A i \in 1..Len(chan[k]) : chan[k][i] \in Reqs => ConnOf[chan[k][i]] = k

\* A request is in one place, and nothing is executed before it is taken up; one
\* that was never written, or that is reported so, is in none.
RequestPlaced(r) ==
  /\ InUp(r) => task[r] = "none" /\ ~InHand(r) /\ ~InChan(r)
  /\ InHand(r) => task[r] = "none" /\ ~InChan(r)
  /\ InChan(r) => task[r] = "none"
  /\ task[r] = "none" => r \notin ran
  /\ cst[r] \in {"new", "pending"} => Unseen(r) /\ outcome[r] = "none"
  /\ r \in Mutate /\ outcome[r] = "unavailable" => Unseen(r) /\ cst[r] = "done"
  /\ reply[r] = "result" \/ outcome[r] = "ok" => r \in ran
  /\ reply[r] = "overload" => Taken(r) /\ r \notin ran
RequestsPlaced == \A r \in Reqs : RequestPlaced(r)

\* A result is written of what was executed, a refusal of what was not.
Written(r) ==
  /\ resp[r] = "result" => r \in ran
  /\ resp[r] = "overload" => r \notin ran
WritersPlaced ==
  /\ \A k \in Conns : own[k] # Nothing =>
       lp[k] = "own" /\ ConnOf[own[k]] = k /\ task[own[k]] \in {"wait", "write"}
  /\ \A r \in Reqs : task[r] \in {"wait", "write"} => Written(r)
  /\ \A x \in Items : task[x] \in {"wait", "write"} => resp[x] # "none"

\* A frame on its way to the client.
FramePlaced(f) ==
  /\ f \in Frames
  /\ f.kind \in {"terminal", "torn"} => f.of = Nothing
  /\ f.of \in Reqs => /\ Taken(f.of)
                      /\ f.kind = "result" => f.of \in ran
                      /\ f.kind = "overload" => f.of \notin ran
FramesPlaced ==
  /\ down \in [Conns -> Seq(Frames)]
  /\ \A k \in Conns : \A i \in 1..Len(down[k]) : FramePlaced(down[k][i])

DaemonInv == QueueTypes /\ LoopTypes /\ QueuesPlaced /\ RequestsPlaced /\ WritersPlaced /\ FramesPlaced
CallInv == ClientTypes /\ NoOrphanPending /\ DaemonInv

-----------------------------------------------------------------------------
\* The names of requests, notifications and marks.
LEMMA Names ==
  /\ \A x \in Items : ConnOf[x] \in Conns /\ x # Nothing /\ x # "eof" /\ x # "error"
  /\ \A r \in Reqs : r \in Items /\ r \notin Pushes /\ r \notin Marks
  /\ \A p \in Pushes : p \in Items /\ p \notin Reqs
  BY RpcAssumption DEF Items, Marks

\* What the loop and the tasks do to the queues: they only empty them.
QueuesShrink ==
  \A k \in Conns :
    /\ up'[k] = up[k] \/ up'[k] = <<>>
    /\ hand'[k] = hand[k] \/ hand'[k] = Nothing
    /\ chan'[k] = chan[k] \/ chan'[k] = <<>>

\* What they do to a request: it stays as it is, it is taken from the channel,
\* it is executed or cut off, or its answer moves on.
Advances(r) ==
  \/ task'[r] = task[r] /\ (r \in ran' <=> r \in ran)
  \/ /\ task[r] = "none" /\ InChan(r) /\ task'[r] # "none"
     /\ chan'[ConnOf[r]] = <<>> /\ (r \in ran' <=> r \in ran)
  \/ task[r] = "dispatch" /\ task'[r] \notin {"none", "dispatch"}
  \/ /\ task[r] \notin {"none", "dispatch"} /\ task'[r] \notin {"none", "dispatch"}
     /\ (r \in ran' <=> r \in ran)

\* What they do to the stream: frames stay and truthful ones are added.
Truthful(f) ==
  /\ f \in Frames
  /\ f.kind \in {"terminal", "torn"} => f.of = Nothing
  /\ f.of \in Reqs => /\ task'[f.of] \notin {"none", "dispatch"}
                      /\ f.kind = "result" => f.of \in ran'
                      /\ f.kind = "overload" => f.of \notin ran'
Extends(s, t) ==
  \A i \in 1..Len(t) : (i \in 1..Len(s) /\ t[i] = s[i]) \/ Truthful(t[i])

\* A request in the state after such a step.
LEMMA AdvanceKeeps ==
  ASSUME ClientTypes, QueueTypes, LoopTypes, NEW r \in Reqs, RequestPlaced(r), UNCHANGED client,
         QueuesShrink, ran \subseteq ran', Advances(r)
  PROVE  RequestPlaced(r)'
  <1> DEFINE k == ConnOf[r]
  <1>0. k \in Conns /\ r \in Items
    BY Names
  <1>1. /\ InUp(r)' => InUp(r)
        /\ InHand(r)' => InHand(r)
        /\ InChan(r)' => InChan(r) /\ chan'[k] # <<>>
    <2>1. up'[k] = up[k] \/ up'[k] = <<>>
      BY <1>0 DEF QueuesShrink
    <2>2. hand'[k] = hand[k] \/ hand'[k] = Nothing
      BY <1>0 DEF QueuesShrink
    <2>3. chan'[k] = chan[k] \/ chan'[k] = <<>>
      BY <1>0 DEF QueuesShrink
    <2>4. r # Nothing
      BY <1>0, Names
    <2> QED
      BY <2>1, <2>2, <2>3, <2>4 DEF InUp, InHand, InChan
  <1>2. UNCHANGED <<cst, reply, outcome>>
    BY DEF client
  <1> QED
    BY <1>1, <1>2 DEF RequestPlaced, Unseen, Taken, Advances

\* What holds of the client, the queues, the requests and the stream survives
\* every such step; what the loop and the tasks write is the step's own duty.
LEMMA LoopKeeps ==
  ASSUME CallInv, UNCHANGED client, QueueTypes', LoopTypes', WritersPlaced',
         QueuesShrink, ran \subseteq ran', \A r \in Reqs : Advances(r),
         down' \in [Conns -> Seq(Frames)], \A k \in Conns : Extends(down[k], down'[k])
  PROVE  CallInv'
  <1>0. /\ ClientTypes /\ NoOrphanPending /\ QueueTypes /\ LoopTypes /\ QueuesPlaced /\ RequestsPlaced
        /\ FramesPlaced
    BY DEF CallInv, DaemonInv
  <1>1. ClientTypes' /\ NoOrphanPending'
    BY <1>0 DEF ClientTypes, NoOrphanPending, client
  <1>2. RequestsPlaced'
    BY <1>0, AdvanceKeeps DEF RequestsPlaced
  <1>3. QueuesPlaced'
    <2> SUFFICES ASSUME NEW k \in Conns
                 PROVE  /\ \A i \in 1..Len(up'[k]) : ConnOf[up'[k][i]] = k
                        /\ \A i, j \in 1..Len(up'[k]) : up'[k][i] = up'[k][j] => i = j
                        /\ hand'[k] \in Reqs => ConnOf[hand'[k]] = k
                        /\ \A i \in 1..Len(chan'[k]) : chan'[k][i] \in Reqs => ConnOf[chan'[k][i]] = k
      BY DEF QueuesPlaced
    <2>1. up'[k] = up[k] \/ up'[k] = <<>>
      BY DEF QueuesShrink
    <2>2. hand'[k] = hand[k] \/ hand'[k] \notin Reqs
      BY Names DEF QueuesShrink, Marks
    <2>3. chan'[k] = chan[k] \/ chan'[k] = <<>>
      BY DEF QueuesShrink
    <2> QED
      BY <1>0, <2>1, <2>2, <2>3 DEF QueuesPlaced
  <1>4. FramesPlaced'
    <2> SUFFICES ASSUME NEW k \in Conns, NEW i \in 1..Len(down'[k])
                 PROVE  FramePlaced(down[k][i])'
      BY DEF FramesPlaced
    <2>1. CASE Truthful(down'[k][i])
      BY <2>1 DEF Truthful, FramePlaced, Taken
    <2>2. CASE i \in 1..Len(down[k]) /\ down'[k][i] = down[k][i]
      <3>1. FramePlaced(down[k][i])
        BY <1>0, <2>2 DEF FramesPlaced
      <3>2. ASSUME NEW r \in Reqs, Taken(r) PROVE Taken(r)' /\ (r \in ran' <=> r \in ran)
        BY <3>2 DEF Taken, Advances
      <3> QED
        BY <2>2, <3>1, <3>2 DEF FramePlaced, Taken
    <2> QED
      BY <2>1, <2>2 DEF Extends
  <1> QED
    BY <1>1, <1>2, <1>3, <1>4 DEF CallInv, DaemonInv

-----------------------------------------------------------------------------
\* What leaving the loop does, table by table.
Leaves(k, t, sent) ==
  /\ \A j \in Conns :
       /\ hand'[j] = hand[j] \/ hand'[j] = Nothing
       /\ chan'[j] = chan[j] \/ chan'[j] = <<>>
       /\ j # k => own'[j] = own[j] /\ lp'[j] = lp[j]
       /\ down'[j] = sent[j] \/ down'[j] = Append(sent[j], Torn)
  /\ own'[k] = Nothing /\ chan'[k] = <<>>
  /\ \A x \in Items :
       /\ \/ task'[x] = t[x]
          \/ /\ task'[x] = "end" /\ x \in Reqs /\ ConnOf[x] = k /\ t[x] \in Busy
             /\ task[x] \in Busy /\ own[k] # x
       /\ task'[x] \in {"wait", "write"} => resp'[x] = resp[x]
  /\ ran \subseteq ran'
  /\ \A r \in ran' : r \notin ran => ConnOf[r] = k /\ t[r] = "dispatch" /\ task'[r] = "end"
  /\ rd' \in [Conns -> {"slot", "data", "send", "done"}] /\ hand' \in [Conns -> Reqs \cup Marks]
  /\ chan' \in [Conns -> Seq(Reqs \cup Marks)] /\ \A j \in Conns : Len(chan'[j]) <= 1
  /\ lp' \in [Conns -> {"select", "own", "drain", "abort", "closed"}]
  /\ own' \in [Conns -> Items \cup {Nothing}]
  /\ task' \in [Items -> TaskStates] /\ resp' \in [Items -> RespKinds]
  /\ ran' \subseteq Reqs /\ down' \in [Conns -> Seq(Frames)]

\* LeaveLoop does it.
LEMMA LeaveFacts ==
  ASSUME QueueTypes, LoopTypes, NEW k \in Conns, NEW a, NEW t \in [Items -> TaskStates],
         NEW sent \in [Conns -> Seq(Frames)], LeaveLoop(k, a, t, sent)
  PROVE  Leaves(k, t, sent)
  <1> DEFINE hit  == {r \in InFlight(k) : a /\ t[r] \in Busy}
             torn == IF \E r \in hit : t[r] = "write" THEN <<Torn>> ELSE <<>>
  <1>1. /\ lp' = [lp EXCEPT ![k] = IF a THEN "abort" ELSE "drain"]
        /\ own' = [own EXCEPT ![k] = Nothing]
        /\ rd' = [rd EXCEPT ![k] = "done"]
        /\ hand' = [hand EXCEPT ![k] = Nothing]
        /\ chan' = [chan EXCEPT ![k] = <<>>]
        /\ task' = [x \in DOMAIN t |-> IF x \in hit THEN "end" ELSE t[x]]
        /\ down' = [sent EXCEPT ![k] = @ \o torn]
        /\ \E run \in SUBSET {r \in hit : t[r] = "dispatch"} : ran' = ran \cup run
        /\ resp' = [x \in DOMAIN t |-> IF task'[x] \in {"wait", "write"} THEN resp[x] ELSE "none"]
    BY DEF LeaveLoop
  <1>2. torn = <<>> \/ torn = <<Torn>>
    OBVIOUS
  <1>3. \A r \in hit : /\ r \in Reqs /\ r \in Items /\ ConnOf[r] = k /\ task[r] \in Busy /\ t[r] \in Busy
                       /\ own[k] # r
    BY DEF InFlight, Of, Items
  <1> HIDE DEF hit, torn
  <1>4. /\ \A j \in Conns :
              /\ hand'[j] = hand[j] \/ hand'[j] = Nothing
              /\ chan'[j] = chan[j] \/ chan'[j] = <<>>
              /\ j # k => own'[j] = own[j] /\ lp'[j] = lp[j]
        /\ own'[k] = Nothing /\ chan'[k] = <<>>
    BY <1>1 DEF QueueTypes, LoopTypes
  <1>5. /\ rd' \in [Conns -> {"slot", "data", "send", "done"}] /\ hand' \in [Conns -> Reqs \cup Marks]
        /\ lp' \in [Conns -> {"select", "own", "drain", "abort", "closed"}]
        /\ own' \in [Conns -> Items \cup {Nothing}]
    BY <1>1 DEF QueueTypes, LoopTypes, Marks
  <1>6. chan' \in [Conns -> Seq(Reqs \cup Marks)] /\ \A j \in Conns : Len(chan'[j]) <= 1
    BY <1>1 DEF QueueTypes
  <1>7. Torn \in Frames
    BY DEF Torn, Frames
  <1>8. down' \in [Conns -> Seq(Frames)] /\ \A j \in Conns : down'[j] = sent[j] \/ down'[j] = Append(sent[j], Torn)
    <2>0. sent[k] \in Seq(Frames) /\ sent[k] \o <<>> = sent[k] /\ sent[k] \o <<Torn>> = Append(sent[k], Torn)
      BY <1>7, ConcatEmptySeq, AppendIsConcat
    <2>1. sent[k] \o torn = sent[k] \/ sent[k] \o torn = Append(sent[k], Torn)
      BY <1>2, <2>0
    <2>2. sent[k] \o torn \in Seq(Frames)
      <3>1. Append(sent[k], Torn) \in Seq(Frames)
        BY <1>7, <2>0, AppendProperties
      <3> QED
        BY <2>0, <2>1, <3>1
    <2> QED
      BY <1>1, <2>1, <2>2
  <1>9. DOMAIN t = Items
    OBVIOUS
  <1>10. \A x \in Items : IF x \in hit THEN task'[x] = "end" ELSE task'[x] = t[x]
    BY <1>1, <1>9
  <1>11. task' \in [Items -> TaskStates]
    BY <1>1, <1>9 DEF TaskStates
  <1>12. resp' \in [Items -> RespKinds] /\ \A x \in Items : task'[x] \in {"wait", "write"} => resp'[x] = resp[x]
    BY <1>1, <1>9 DEF LoopTypes, RespKinds
  <1>13. PICK run \in SUBSET {r \in hit : t[r] = "dispatch"} : ran' = ran \cup run
    BY <1>1
  <1>14. ran \subseteq ran' /\ ran' \subseteq Reqs
    BY <1>3, <1>13 DEF LoopTypes
  <1>15. ASSUME NEW r \in ran', r \notin ran PROVE r \in hit /\ ConnOf[r] = k /\ t[r] = "dispatch" /\ task'[r] = "end"
    BY <1>3, <1>10, <1>13, <1>15
  <1> QED
    BY <1>3, <1>4, <1>5, <1>6, <1>8, <1>10, <1>11, <1>12, <1>14, <1>15 DEF Leaves

\* A stream that got one more truthful frame, and perhaps a torn one.
LEMMA ExtendsFacts ==
  ASSUME NEW s \in Seq(Frames)
  PROVE  /\ Extends(s, s)
         /\ \A f \in Frames : Truthful(f) => Extends(s, Append(s, f))
         /\ \A u \in Seq(Frames) : Extends(s, u) => Extends(s, Append(u, Torn))
  <1>1. Extends(s, s)
    BY DEF Extends
  <1>2. Torn \in Frames /\ Truthful(Torn)
    BY Names DEF Torn, Frames, Truthful, Items
  <1>3. ASSUME NEW u \in Seq(Frames), Extends(s, u), NEW f \in Frames, Truthful(f)
        PROVE  Extends(s, Append(u, f))
    <2>1. /\ Len(Append(u, f)) = Len(u) + 1 /\ Append(u, f)[Len(u) + 1] = f
          /\ \A i \in 1..Len(u) : Append(u, f)[i] = u[i]
      BY <1>3, AppendProperties
    <2>2. Len(u) \in Nat
      BY <1>3, LenProperties
    <2> SUFFICES ASSUME NEW i \in 1..Len(Append(u, f))
                 PROVE  (i \in 1..Len(s) /\ Append(u, f)[i] = s[i]) \/ Truthful(Append(u, f)[i])
      BY DEF Extends
    <2>3. i \in 1..Len(u) \/ i = Len(u) + 1
      BY <2>1, <2>2
    <2> QED
      BY <1>3, <2>1, <2>3 DEF Extends
  <1> QED
    BY <1>1, <1>2, <1>3

\* The loop is left by a step that has ended x, a request from the channel, a
\* task that has been joined or what the loop itself was writing, or nothing.
LEMMA LeaveKeeps ==
  ASSUME CallInv, NEW k \in Conns, NEW x \in Items \cup {Nothing}, own[k] \in {Nothing, x},
         NEW t \in [Items -> TaskStates], \A y \in Items : y # x => t[y] = task[y],
         x \in Items => /\ t[x] = "end" /\ ConnOf[x] = k /\ task[x] # "dispatch"
                        /\ task[x] = "none" /\ x \in Reqs => InChan(x),
         NEW a, NEW sent \in [Conns -> Seq(Frames)], LeaveLoop(k, a, t, sent),
         UNCHANGED <<client, up>>, shut' \subseteq Conns,
         (x \in Items => task'[x] = "end") => \A j \in Conns : Extends(down[j], sent[j])
  PROVE  CallInv'
  <1>0. QueueTypes /\ LoopTypes /\ WritersPlaced /\ FramesPlaced
    BY DEF CallInv, DaemonInv
  <1>1. /\ \A y \in Items : y # x => t[y] = task[y]
        /\ x \in Items => t[x] = "end"
    OBVIOUS
  <1>2. /\ \A j \in Conns :
             /\ hand'[j] = hand[j] \/ hand'[j] = Nothing
             /\ chan'[j] = chan[j] \/ chan'[j] = <<>>
             /\ j # k => own'[j] = own[j] /\ lp'[j] = lp[j]
             /\ down'[j] = sent[j] \/ down'[j] = Append(sent[j], Torn)
        /\ own'[k] = Nothing /\ chan'[k] = <<>>
        /\ \A y \in Items :
             /\ \/ task'[y] = t[y]
                \/ /\ task'[y] = "end" /\ y \in Reqs /\ ConnOf[y] = k /\ t[y] \in Busy
                   /\ task[y] \in Busy /\ own[k] # y
             /\ task'[y] \in {"wait", "write"} => resp'[y] = resp[y]
        /\ ran \subseteq ran'
        /\ \A r \in ran' : r \notin ran => ConnOf[r] = k /\ t[r] = "dispatch" /\ task'[r] = "end"
        /\ rd' \in [Conns -> {"slot", "data", "send", "done"}] /\ hand' \in [Conns -> Reqs \cup Marks]
        /\ chan' \in [Conns -> Seq(Reqs \cup Marks)] /\ \A j \in Conns : Len(chan'[j]) <= 1
        /\ lp' \in [Conns -> {"select", "own", "drain", "abort", "closed"}]
        /\ own' \in [Conns -> Items \cup {Nothing}]
        /\ task' \in [Items -> TaskStates] /\ resp' \in [Items -> RespKinds]
        /\ ran' \subseteq Reqs /\ down' \in [Conns -> Seq(Frames)]
    <2>2. Leaves(k, t, sent)
      BY <1>0, LeaveFacts
    <2> QED
      BY <2>2 DEF Leaves
  <1>3. QueueTypes' /\ LoopTypes' /\ QueuesShrink
    BY <1>0, <1>2 DEF QueueTypes, LoopTypes, QueuesShrink
  <1>4. x \in Items => task'[x] = "end"
    BY <1>1, <1>2 DEF Busy
  <1>5. \A j \in Conns : Extends(down[j], down'[j])
    <2> TAKE j \in Conns
    <2>1. Extends(down[j], sent[j]) /\ down[j] \in Seq(Frames) /\ sent[j] \in Seq(Frames)
      BY <1>0, <1>4 DEF FramesPlaced
    <2>2. Extends(down[j], Append(sent[j], Torn))
      BY <2>1, ExtendsFacts
    <2>3. down'[j] = sent[j] \/ down'[j] = Append(sent[j], Torn)
      BY <1>2
    <2> QED
      BY <2>1, <2>2, <2>3
  <1>6. \A r \in Reqs : Advances(r)
    <2> TAKE r \in Reqs
    <2>0. r \in Items
      BY Names
    <2>1. CASE r = x
      <3>1. r \in ran' <=> r \in ran
        BY <1>1, <1>2, <2>0, <2>1
      <3>2. task[x] \in TaskStates
        BY <1>0, <2>0, <2>1 DEF LoopTypes
      <3> QED
        BY <1>2, <1>4, <2>0, <2>1, <3>1, <3>2 DEF Advances, TaskStates
    <2>2. CASE r # x
      <3>1. t[r] = task[r]
        BY <1>1, <2>0, <2>2
      <3>2. CASE task'[r] = t[r]
        <4>1. r \in ran' <=> r \in ran
          BY <1>2, <3>1, <3>2
        <4> QED
          BY <3>1, <3>2, <4>1 DEF Advances
      <3>3. CASE task'[r] = "end" /\ t[r] \in Busy
        BY <1>2, <3>1, <3>3 DEF Advances, Busy
      <3> QED
        BY <1>2, <2>0, <3>2, <3>3
    <2> QED
      BY <2>1, <2>2
  <1>7. WritersPlaced'
    <2>1. ASSUME NEW j \in Conns, own'[j] # Nothing
          PROVE  /\ lp'[j] = "own" /\ ConnOf[own'[j]] = j
                 /\ task'[own'[j]] \in {"wait", "write"}
      <3>1. j # k /\ own'[j] = own[j] /\ lp'[j] = lp[j]
        BY <1>2, <2>1
      <3> DEFINE y == own[j]
      <3>2. /\ y \in Items /\ lp[j] = "own" /\ ConnOf[y] = j /\ task[y] \in {"wait", "write"}
        BY <1>0, <2>1, <3>1 DEF WritersPlaced, LoopTypes
      <3>3. task'[y] = task[y]
        BY <1>1, <1>2, <3>1, <3>2
      <3> QED
        BY <3>1, <3>2, <3>3
    <2>2. ASSUME NEW r \in Reqs, task'[r] \in {"wait", "write"} PROVE Written(r)'
      <3>0. r \in Items /\ ConnOf[r] \in Conns
        BY Names
      <3>1. r # x /\ task'[r] = task[r] /\ task'[r] # "end" /\ t[r] = task[r]
        BY <1>1, <1>2, <1>4, <2>2, <3>0
      <3>2. resp'[r] = resp[r] /\ Written(r)
        BY <1>0, <1>2, <2>2, <3>0, <3>1 DEF WritersPlaced
      <3>3. r \in ran' <=> r \in ran
        BY <1>2, <2>2, <3>1
      <3> QED
        BY <3>2, <3>3 DEF Written
    <2>3. ASSUME NEW y \in Items, task'[y] \in {"wait", "write"} PROVE resp'[y] # "none"
      <3>0. y # x
        BY <1>4, <2>3
      <3>1. task'[y] = task[y]
        <4>1. task'[y] = t[y] \/ task'[y] = "end"
          BY <1>2
        <4> QED
          BY <1>1, <2>3, <3>0, <4>1
      <3>2. resp'[y] = resp[y]
        BY <1>2, <2>3
      <3>3. resp[y] # "none"
        BY <1>0, <2>3, <3>1 DEF WritersPlaced
      <3> QED
        BY <3>2, <3>3
    <2> QED
      BY <2>1, <2>2, <2>3 DEF WritersPlaced
  <1> QED
    BY <1>2, <1>3, <1>5, <1>6, <1>7, LoopKeeps

-----------------------------------------------------------------------------
\* A delivery ends: with its frame in the stream, with an error, or with the
\* connection.
LEMMA DeliveredKeeps ==
  ASSUME CallInv, NEW x \in Items, task[x] \in {"wait", "write"},
         NEW res \in {"ok", "close", "err"}, NEW sent \in [Conns -> Seq(Frames)],
         Delivered(x, res, sent), UNCHANGED <<client, up>>, shut' \subseteq Conns,
         task'[x] \in {"ok", "close", "err", "end"} /\ (x \in ran' <=> x \in ran)
           => \A j \in Conns : Extends(down[j], sent[j])
  PROVE  CallInv'
  <1> DEFINE k == ConnOf[x]
             t == [task EXCEPT ![x] = "end"]
  <1>0. k \in Conns /\ x # Nothing /\ QueueTypes /\ LoopTypes /\ WritersPlaced /\ FramesPlaced
    BY Names DEF CallInv, DaemonInv
  <1>1. t \in [Items -> TaskStates] /\ t[x] = "end" /\ \A y \in Items : y # x => t[y] = task[y]
    BY <1>0 DEF LoopTypes, TaskStates
  <1>2. CASE own[k] = x /\ res # "ok"
    <2>1. LeaveLoop(k, TRUE, t, sent)
      BY <1>0, <1>2 DEF Delivered
    <2>2. x \in ran' <=> x \in ran
      <3>1. Leaves(k, t, sent)
        BY <1>0, <1>1, <2>1, LeaveFacts
      <3> QED
        BY <1>1, <3>1 DEF Leaves
    <2> HIDE DEF t
    <2> QED
      BY <1>0, <1>1, <1>2, <2>1, <2>2, LeaveKeeps
  <1>3. CASE ~(own[k] = x /\ res # "ok")
    <2>0. /\ \/ task' = [task EXCEPT ![x] = res] /\ own[k] # x /\ UNCHANGED <<lp, own>>
             \/ /\ task' = [task EXCEPT ![x] = "end"] /\ own[k] = x
                /\ lp' = [lp EXCEPT ![k] = "select"] /\ own' = [own EXCEPT ![k] = Nothing]
          /\ resp' = [resp EXCEPT ![x] = "none"] /\ down' = sent /\ UNCHANGED <<reader, ran>>
      BY <1>3 DEF Delivered
    <2>1. /\ task'[x] \in {"ok", "close", "err", "end"} /\ \A y \in Items : y # x => task'[y] = task[y]
          /\ task' \in [Items -> TaskStates] /\ resp' \in [Items -> RespKinds]
          /\ \A y \in Items : y # x => resp'[y] = resp[y]
      BY <1>0, <2>0 DEF LoopTypes, TaskStates, RespKinds
    <2>2. /\ \A j \in Conns : \/ own'[j] = own[j] /\ lp'[j] = lp[j] /\ own[j] # x
                              \/ own'[j] = Nothing
          /\ \A r \in Reqs : r # x => (own[ConnOf[r]] = r <=> own'[ConnOf[r]] = r)
          /\ own' \in [Conns -> Items \cup {Nothing}]
          /\ lp' \in [Conns -> {"select", "own", "drain", "abort", "closed"}]
      <3>1. \A j \in Conns : own[j] = x => j = k
        BY <1>0 DEF WritersPlaced
      <3>2. \A r \in Reqs : ConnOf[r] \in Conns /\ r # Nothing
        BY Names
      <3> QED
        BY <1>0, <2>0, <3>1, <3>2 DEF LoopTypes
    <2>3. /\ QueueTypes' /\ LoopTypes' /\ QueuesShrink /\ ran \subseteq ran'
          /\ down' \in [Conns -> Seq(Frames)] /\ \A j \in Conns : Extends(down[j], down'[j])
      BY <1>0, <2>0, <2>1, <2>2 DEF QueueTypes, LoopTypes, QueuesShrink, reader
    <2>4. \A r \in Reqs : Advances(r)
      BY <2>0, <2>1, Names DEF Advances
    <2>5. WritersPlaced'
      <3>1. ASSUME NEW j \in Conns, own'[j] # Nothing
            PROVE  /\ lp'[j] = "own" /\ ConnOf[own'[j]] = j
                   /\ task'[own'[j]] \in {"wait", "write"}
        <4>1. own'[j] = own[j] /\ lp'[j] = lp[j] /\ own[j] # x /\ own[j] \in Items
          BY <1>0, <2>2, <3>1 DEF LoopTypes
        <4> QED
          BY <1>0, <2>0, <2>1, <3>1, <4>1 DEF WritersPlaced
      <3>2. ASSUME NEW r \in Reqs, task'[r] \in {"wait", "write"} PROVE Written(r)'
        <4>1. r # x /\ r \in Items
          BY <2>1, <3>2, Names
        <4> QED
          BY <1>0, <2>0, <2>1, <3>2, <4>1 DEF WritersPlaced, Written
      <3>3. ASSUME NEW y \in Items, task'[y] \in {"wait", "write"} PROVE resp'[y] # "none"
        BY <1>0, <2>1, <3>3 DEF WritersPlaced
      <3> QED
        BY <3>1, <3>2, <3>3 DEF WritersPlaced
    <2> QED
      BY <2>3, <2>4, <2>5, LoopKeeps
  <1> QED
    BY <1>2, <1>3

\* The writers: blocked, done, failed or out of time.
LEMMA WriterSteps ==
  ASSUME CallInv, NEW x \in Items,
         write_blocked(x) \/ write_all(x) \/ write_error(x) \/ write_timeout(x)
  PROVE  CallInv'
  <1> DEFINE k == ConnOf[x]
  <1>0. k \in Conns /\ x # Nothing /\ QueueTypes /\ LoopTypes /\ WritersPlaced /\ FramesPlaced
    BY Names DEF CallInv, DaemonInv
  <1>1. HasWriter(x) => task[x] \in {"wait", "write"}
    BY DEF HasWriter
  <1>2. /\ down \in [Conns -> Seq(Frames)]
        /\ \A j \in Conns : Extends(down[j], down[j])
        /\ shut \subseteq Conns
    BY <1>0, ExtendsFacts DEF FramesPlaced, LoopTypes
  <1>3. ASSUME NEW f \in Frames, NEW j \in Conns, Truthful(f)
        PROVE  Extends(down[j], [down EXCEPT ![k] = Append(@, f)][j])
    BY <1>2, <1>3, ExtendsFacts
  <1>4. ASSUME NEW f \in Frames PROVE [down EXCEPT ![k] = Append(@, f)] \in [Conns -> Seq(Frames)]
    BY <1>0, <1>2, AppendProperties
  <1>5. Torn \in Frames /\ Truthful(Torn)
    BY Names DEF Torn, Frames, Truthful, Items
  <1>6. CASE write_blocked(x)
    <2>1. /\ task[x] = "wait" /\ task' = [task EXCEPT ![x] = "write"]
          /\ UNCHANGED <<client, socket, reader, lp, own, resp, ran>>
      BY <1>6 DEF write_blocked
    <2>2. /\ task'[x] = "write" /\ \A y \in Items : y # x => task'[y] = task[y]
          /\ task' \in [Items -> TaskStates]
      BY <1>0, <2>1 DEF LoopTypes, TaskStates
    <2>3. QueueTypes' /\ LoopTypes' /\ QueuesShrink /\ ran \subseteq ran'
      BY <1>0, <2>1, <2>2 DEF QueueTypes, LoopTypes, QueuesShrink, reader, socket
    <2>4. \A r \in Reqs : Advances(r)
      BY <2>1, <2>2, Names DEF Advances
    <2>5. WritersPlaced'
      <3>1. \A r \in Reqs : r \in Items /\ (Written(r) => Written(r)')
        BY <2>1, Names DEF Written
      <3> QED
        BY <1>0, <2>1, <2>2, <3>1 DEF WritersPlaced, LoopTypes
    <2>6. down' \in [Conns -> Seq(Frames)] /\ \A j \in Conns : Extends(down[j], down'[j])
      BY <1>2, <2>1 DEF socket
    <2>7. UNCHANGED client
      BY <2>1
    <2> QED
      BY <2>3, <2>4, <2>5, <2>6, <2>7, LoopKeeps
  <1>7. CASE write_error(x)
    BY <1>1, <1>2, <1>7, DeliveredKeeps DEF write_error
  <1>8. CASE write_timeout(x)
    <2>1. /\ task[x] \in {"wait", "write"} /\ UNCHANGED <<client, up, shut>>
          /\ Delivered(x, "err", [down EXCEPT ![k] = Append(@, Torn)]) \/ Delivered(x, "err", down)
      BY <1>8 DEF write_timeout
    <2>2. CASE Delivered(x, "err", down)
      BY <1>2, <2>1, <2>2, DeliveredKeeps
    <2>3. CASE Delivered(x, "err", [down EXCEPT ![k] = Append(@, Torn)])
      <3> DEFINE sent == [down EXCEPT ![k] = Append(@, Torn)]
      <3>1. sent \in [Conns -> Seq(Frames)] /\ \A j \in Conns : Extends(down[j], sent[j])
        BY <1>3, <1>4, <1>5
      <3> HIDE DEF sent
      <3>2. Delivered(x, "err", sent)
        BY <2>3 DEF sent
      <3> QED
        BY <1>2, <2>1, <3>1, <3>2, DeliveredKeeps
    <2> QED
      BY <2>1, <2>2, <2>3
  <1>9. CASE write_all(x)
    <2> DEFINE last == resp[x] = "terminal"
               res == IF last THEN "close" ELSE "ok"
               f == [of |-> IF last THEN Nothing ELSE x, kind |-> resp[x]]
               sent == [down EXCEPT ![k] = Append(@, f)]
    <2>1. /\ HasWriter(x) /\ shut' = IF last THEN shut \cup {k} ELSE shut
          /\ Delivered(x, res, sent)
          /\ UNCHANGED <<client, up>>
      BY <1>9 DEF write_all
    <2>2. task[x] \in {"wait", "write"} /\ resp[x] \in Answers \cup {"terminal"}
      BY <1>0, <1>1, <2>1 DEF WritersPlaced, LoopTypes, RespKinds
    <2>3. f \in Frames /\ f.of = (IF last THEN Nothing ELSE x) /\ f.kind = resp[x]
      BY <2>2 DEF Frames
    <2>4. shut' \subseteq Conns
      BY <1>0, <1>2, <2>1
    <2>5. res \in {"ok", "close", "err"}
      OBVIOUS
    <2>6. ASSUME task'[x] \in {"ok", "close", "err", "end"}, x \in ran' <=> x \in ran
          PROVE  Truthful(f)
      <3>1. x \in Reqs => Written(x)
        BY <1>0, <2>2 DEF WritersPlaced
      <3> QED
        BY <2>2, <2>3, <2>6, <3>1, Names DEF Truthful, Written, Answers
    <2> HIDE DEF f, res
    <2>7. sent \in [Conns -> Seq(Frames)]
      BY <1>4, <2>3
    <2>8. task'[x] \in {"ok", "close", "err", "end"} /\ (x \in ran' <=> x \in ran)
            => \A j \in Conns : Extends(down[j], sent[j])
      BY <1>3, <2>3, <2>6
    <2> HIDE DEF sent
    <2> QED
      BY <2>1, <2>2, <2>4, <2>5, <2>7, <2>8, DeliveredKeeps
  <1> QED
    BY <1>6, <1>7, <1>8, <1>9

-----------------------------------------------------------------------------
\* The loop takes a frame out of the channel, or leaves it.
LEMMA ChanShrinks ==
  ASSUME QueueTypes, NEW k \in Conns, chan' = chan \/ chan' = [chan EXCEPT ![k] = <<>>],
         UNCHANGED <<up, rd, hand>>
  PROVE  QueueTypes' /\ QueuesShrink
  <1>1. /\ up \in [Conns -> Seq(Reqs)] /\ rd \in [Conns -> {"slot", "data", "send", "done"}]
        /\ hand \in [Conns -> Reqs \cup Marks] /\ chan \in [Conns -> Seq(Reqs \cup Marks)]
        /\ \A j \in Conns : Len(chan[j]) <= 1
    BY DEF QueueTypes
  <1>2. /\ <<>> \in Seq(Reqs \cup Marks) /\ Len(<<>>) = 0
    BY EmptySeq
  <1>3. \A j \in Conns : chan'[j] = chan[j] \/ chan'[j] = <<>>
    BY <1>1
  <1>4. chan' \in [Conns -> Seq(Reqs \cup Marks)]
    BY <1>1, <1>2
  <1>5. \A j \in Conns : Len(chan'[j]) <= 1
    BY <1>1, <1>2, <1>3
  <1> QED
    BY <1>1, <1>3, <1>4, <1>5 DEF QueueTypes, QueuesShrink

\* The loop starts to write x itself.
LEMMA WritesKeeps ==
  ASSUME CallInv, NEW k \in Conns, NEW x \in Items, ConnOf[x] = k, lp[k] = "select",
         NEW kind \in RespKinds \ {"none"}, Writes(k, x, kind), x \in Reqs => kind # "result",
         chan' = chan \/ chan' = [chan EXCEPT ![k] = <<>>],
         task[x] = "none", x \in Reqs => InChan(x) /\ chan' = [chan EXCEPT ![k] = <<>>],
         UNCHANGED <<client, up, shut>>
  PROVE  CallInv'
  <1>0. /\ x # Nothing /\ QueueTypes /\ LoopTypes /\ WritersPlaced /\ FramesPlaced
        /\ RequestsPlaced
    BY Names DEF CallInv, DaemonInv
  <1>1. /\ own' = [own EXCEPT ![k] = x] /\ lp' = [lp EXCEPT ![k] = "own"]
        /\ task' = [task EXCEPT ![x] = "wait"] /\ resp' = [resp EXCEPT ![x] = kind]
        /\ UNCHANGED <<rd, hand, down, ran>>
    BY DEF Writes
  <1>2. own[k] = Nothing
    BY <1>0 DEF WritersPlaced
  <1>3. x \notin ran
    BY <1>0, Names DEF RequestsPlaced, RequestPlaced, LoopTypes
  <1>4. /\ task'[x] = "wait" /\ resp'[x] = kind
        /\ \A y \in Items : y # x => task'[y] = task[y] /\ resp'[y] = resp[y]
        /\ task' \in [Items -> TaskStates] /\ resp' \in [Items -> RespKinds]
    BY <1>0, <1>1 DEF LoopTypes, TaskStates, RespKinds
  <1>5. /\ own'[k] = x /\ lp'[k] = "own" /\ \A j \in Conns : j # k => own'[j] = own[j] /\ lp'[j] = lp[j]
        /\ own' \in [Conns -> Items \cup {Nothing}]
        /\ lp' \in [Conns -> {"select", "own", "drain", "abort", "closed"}]
    BY <1>0, <1>1 DEF LoopTypes
  <1>6. QueueTypes' /\ QueuesShrink
    BY <1>0, <1>1, ChanShrinks
  <1>7. LoopTypes'
    BY <1>0, <1>1, <1>4, <1>5 DEF LoopTypes
  <1>8. \A r \in Reqs : Advances(r)
    <2> TAKE r \in Reqs
    <2>1. CASE r = x
      <3>1. chan'[k] = <<>> /\ InChan(x)
        BY <1>0, <2>1 DEF QueueTypes
      <3> QED
        BY <1>1, <1>4, <2>1, <3>1 DEF Advances
    <2>2. CASE r # x
      BY <1>1, <1>4, <2>2, Names DEF Advances
    <2> QED
      BY <2>1, <2>2
  <1>9. WritersPlaced'
    <2>1. ASSUME NEW j \in Conns, own'[j] # Nothing
          PROVE  /\ lp'[j] = "own" /\ ConnOf[own'[j]] = j
                 /\ task'[own'[j]] \in {"wait", "write"}
      <3>1. CASE j = k
        BY <1>1, <1>4, <1>5, <3>1
      <3>2. CASE j # k
        <4>1. own[j] # x /\ own[j] \in Items
          BY <1>0, <1>5, <2>1, <3>2 DEF WritersPlaced, LoopTypes
        <4> QED
          BY <1>0, <1>1, <1>4, <1>5, <2>1, <3>2, <4>1 DEF WritersPlaced
      <3> QED
        BY <3>1, <3>2
    <2>2. ASSUME NEW r \in Reqs, task'[r] \in {"wait", "write"} PROVE Written(r)'
      <3>1. CASE r = x
        BY <1>1, <1>3, <1>4, <3>1 DEF Written
      <3>2. CASE r # x
        <4>1. r \in Items
          BY Names
        <4> QED
          BY <1>0, <1>1, <1>4, <2>2, <3>2, <4>1 DEF WritersPlaced, Written
      <3> QED
        BY <3>1, <3>2
    <2>3. ASSUME NEW y \in Items, task'[y] \in {"wait", "write"} PROVE resp'[y] # "none"
      BY <1>0, <1>4, <2>3 DEF WritersPlaced
    <2> QED
      BY <2>1, <2>2, <2>3 DEF WritersPlaced
  <1>10. down' \in [Conns -> Seq(Frames)] /\ \A j \in Conns : Extends(down[j], down'[j])
    BY <1>0, <1>1, ExtendsFacts DEF FramesPlaced
  <1>11. UNCHANGED client /\ ran \subseteq ran'
    BY <1>1
  <1> QED
    BY <1>6, <1>7, <1>8, <1>9, <1>10, <1>11, LoopKeeps

\* A task moves and nothing is written.
LEMMA TaskKeeps ==
  ASSUME CallInv, NEW x \in Items, NEW st \in TaskStates, NEW kind \in RespKinds,
         task' = [task EXCEPT ![x] = st], resp' = [resp EXCEPT ![x] = kind],
         chan' = chan \/ chan' = [chan EXCEPT ![ConnOf[x]] = <<>>],
         UNCHANGED <<client, socket, rd, hand, lp, own>>,
         \/ /\ task[x] = "none" /\ st \in {"dispatch", "end"} /\ UNCHANGED ran
            /\ x \in Reqs => InChan(x) /\ chan' = [chan EXCEPT ![ConnOf[x]] = <<>>]
         \/ /\ task[x] = "dispatch" /\ ran' \in {ran, ran \cup {x}} /\ x \in Reqs
            /\ st = "err" \/ (st = "wait" /\ kind \notin {"none", "overload"})
            /\ kind = "result" => x \in ran'
         \/ task[x] \in {"ok", "close", "err"} /\ st = "end" /\ UNCHANGED ran
  PROVE  CallInv'
  <1>0. /\ ConnOf[x] \in Conns /\ x # Nothing /\ QueueTypes /\ LoopTypes /\ WritersPlaced /\ FramesPlaced
    BY Names DEF CallInv, DaemonInv
  <1>1. /\ task'[x] = st /\ resp'[x] = kind
        /\ \A y \in Items : y # x => task'[y] = task[y] /\ resp'[y] = resp[y]
        /\ task' \in [Items -> TaskStates] /\ resp' \in [Items -> RespKinds]
    BY <1>0 DEF LoopTypes
  <1>2. /\ ran \subseteq ran' /\ ran' \subseteq Reqs /\ \A y \in Items : y # x => (y \in ran' <=> y \in ran)
    BY <1>0 DEF LoopTypes
  <1>3. QueueTypes' /\ QueuesShrink
    BY <1>0, ChanShrinks DEF socket
  <1>4. LoopTypes'
    BY <1>0, <1>1, <1>2 DEF LoopTypes, socket
  <1>5. \A r \in Reqs : Advances(r)
    <2> TAKE r \in Reqs
    <2>1. CASE r = x
      <3>1. x \in Reqs /\ task[x] = "none" => chan'[ConnOf[x]] = <<>> /\ InChan(x)
        BY <1>0 DEF QueueTypes
      <3> QED
        BY <1>1, <2>1, <3>1 DEF Advances
    <2>2. CASE r # x
      BY <1>1, <1>2, <2>2, Names DEF Advances
    <2> QED
      BY <2>1, <2>2
  <1>6. WritersPlaced'
    <2>1. ASSUME NEW j \in Conns, own[j] # Nothing
          PROVE  /\ lp[j] = "own" /\ ConnOf[own[j]] = j
                 /\ task'[own[j]] \in {"wait", "write"}
      <3>1. own[j] \in Items /\ own[j] # x
        BY <1>0, <2>1 DEF WritersPlaced, LoopTypes
      <3> QED
        BY <1>0, <1>1, <1>2, <2>1, <3>1 DEF WritersPlaced
    <2>2. ASSUME NEW r \in Reqs, task'[r] \in {"wait", "write"} PROVE Written(r)'
      <3>1. CASE r = x
        BY <1>1, <2>2, <3>1 DEF Written
      <3>2. CASE r # x
        <4>1. r \in Items
          BY Names
        <4> QED
          BY <1>0, <1>1, <1>2, <2>2, <3>2, <4>1 DEF WritersPlaced, Written
      <3> QED
        BY <3>1, <3>2
    <2>3. ASSUME NEW y \in Items, task'[y] \in {"wait", "write"} PROVE resp'[y] # "none"
      BY <1>0, <1>1, <2>3 DEF WritersPlaced
    <2>4. UNCHANGED <<own, lp>>
      OBVIOUS
    <2> QED
      BY <2>1, <2>2, <2>3, <2>4 DEF WritersPlaced
  <1>7. down' \in [Conns -> Seq(Frames)] /\ \A j \in Conns : Extends(down[j], down'[j])
    BY <1>0, ExtendsFacts DEF FramesPlaced, socket
  <1>8. UNCHANGED client
    OBVIOUS
  <1> QED
    BY <1>2, <1>3, <1>4, <1>5, <1>6, <1>7, <1>8, LoopKeeps

\* The loop of a connection, its tasks and its notifications.
LEMMA LoopSteps ==
  ASSUME CallInv, NEW k \in Conns, recv_frame(k) \/ close_connection(k) \/ \E p \in Pushes : push(k, p)
  PROVE  CallInv'
  <1>0. /\ QueueTypes /\ LoopTypes /\ WritersPlaced /\ FramesPlaced /\ QueuesPlaced /\ RequestsPlaced
    BY DEF CallInv, DaemonInv
  <1>1. down \in [Conns -> Seq(Frames)] /\ \A j \in Conns : Extends(down[j], down[j])
    BY <1>0, ExtendsFacts DEF FramesPlaced
  <1>2. task \in [Items -> TaskStates]
    BY <1>0 DEF LoopTypes
  <1>3. CASE recv_frame(k)
    <2> DEFINE f == Head(chan[k])
    <2>1. /\ lp[k] = "select" /\ chan[k] # <<>> /\ UNCHANGED <<client, up, shut>>
          /\ \/ f \notin Reqs /\ LeaveLoop(k, f = "error", task, down)
             \/ /\ f \in Reqs /\ chan' = [chan EXCEPT ![k] = <<>>]
                /\ task' = [task EXCEPT ![f] = "dispatch"]
                /\ UNCHANGED <<rd, hand, lp, own, down, resp, ran>>
             \/ f \in Reqs /\ write_overload_response(k, f)
      BY <1>3 DEF recv_frame
    <2>2. own[k] = Nothing
      BY <1>0, <2>1 DEF WritersPlaced
    <2>3. f = chan[k][1] /\ 1 \in 1..Len(chan[k])
      <3>1. chan[k] \in Seq(Reqs \cup Marks)
        BY <1>0 DEF QueueTypes
      <3> QED
        BY <2>1, <3>1, EmptySeq
    <2>4. f \in Reqs => ConnOf[f] = k /\ f \in Items /\ InChan(f) /\ task[f] = "none"
      <3>1. f \in Reqs => ConnOf[f] = k /\ f \in Items
        BY <1>0, <2>3, Names DEF QueuesPlaced
      <3>2. f \in Reqs => InChan(f)
        BY <2>3, <3>1 DEF InChan
      <3> QED
        BY <1>0, <3>1, <3>2 DEF RequestsPlaced, RequestPlaced
    <2> HIDE DEF f
    <2>5. CASE f \notin Reqs /\ LeaveLoop(k, f = "error", task, down)
      <3>1. Nothing \notin Items /\ shut' \subseteq Conns
        BY <1>0, <2>1, Names DEF LoopTypes
      <3> QED
        BY <1>1, <1>2, <2>1, <2>2, <2>5, <3>1, LeaveKeeps
    <2>6. CASE /\ f \in Reqs /\ chan' = [chan EXCEPT ![k] = <<>>]
               /\ task' = [task EXCEPT ![f] = "dispatch"]
               /\ UNCHANGED <<rd, hand, lp, own, down, resp, ran>>
      <3>1. resp' = [resp EXCEPT ![f] = resp[f]] /\ resp[f] \in RespKinds
        BY <1>0, <2>4, <2>6 DEF LoopTypes
      <3>2. UNCHANGED <<client, socket, rd, hand, lp, own>>
        BY <2>1, <2>6 DEF socket
      <3>3. "dispatch" \in TaskStates
        BY DEF TaskStates
      <3> QED
        BY <2>4, <2>6, <3>1, <3>2, <3>3, TaskKeeps
    <2>7. CASE f \in Reqs /\ write_overload_response(k, f)
      <3> DEFINE kind == encode_response_with_fallback(f, "overload")
                 t == [task EXCEPT ![f] = "end"]
      <3>1. /\ chan' = [chan EXCEPT ![k] = <<>>]
            /\ \/ kind # "fail" /\ Writes(k, f, kind)
               \/ LeaveLoop(k, TRUE, t, down)
        BY <2>7 DEF write_overload_response
      <3>2. kind \in {"overload", "limited", "large", "terminal", "fail"}
        BY DEF encode_response_with_fallback
      <3>5. {"overload", "limited", "large", "terminal"} \subseteq RespKinds \ {"none", "result"}
        BY DEF RespKinds, Answers
      <3> HIDE DEF kind
      <3>3. CASE kind # "fail" /\ Writes(k, f, kind)
        BY <2>1, <2>4, <2>7, <3>1, <3>2, <3>3, <3>5, WritesKeeps
      <3>4. CASE LeaveLoop(k, TRUE, t, down)
        <4>1. t \in [Items -> TaskStates] /\ t[f] = "end" /\ \A y \in Items : y # f => t[y] = task[y]
          BY <1>2, <2>4, <2>7 DEF TaskStates
        <4>2. shut' \subseteq Conns
          BY <1>0, <2>1 DEF LoopTypes
        <4> HIDE DEF t
        <4> QED
          BY <1>1, <2>1, <2>2, <2>4, <2>7, <3>4, <4>1, <4>2, LeaveKeeps
      <3> QED
        BY <3>1, <3>3, <3>4
    <2> QED
      BY <2>1, <2>5, <2>6, <2>7
  <1>4. CASE close_connection(k)
    <2>1. /\ lp[k] \in {"drain", "abort"} /\ lp' = [lp EXCEPT ![k] = "closed"]
          /\ up' = [up EXCEPT ![k] = <<>>]
          /\ UNCHANGED <<client, down, shut, reader, own, tasks>>
      BY <1>4 DEF close_connection
    <2>2. QueueTypes' /\ QueuesShrink
      <3>1. up' \in [Conns -> Seq(Reqs)] /\ \A j \in Conns : up'[j] = up[j] \/ up'[j] = <<>>
        BY <1>0, <2>1 DEF QueueTypes
      <3> QED
        BY <1>0, <2>1, <3>1 DEF QueueTypes, QueuesShrink, reader
    <2>3. LoopTypes' /\ ran \subseteq ran' /\ \A r \in Reqs : Advances(r)
      BY <1>0, <2>1 DEF LoopTypes, Advances, tasks
    <2>4. WritersPlaced'
      <3>1. \A j \in Conns : lp[j] = "own" => lp'[j] = "own"
        BY <1>0, <2>1 DEF LoopTypes
      <3> QED
        BY <1>0, <2>1, <3>1 DEF WritersPlaced, Written, tasks
    <2> QED
      BY <1>1, <2>1, <2>2, <2>3, <2>4, LoopKeeps
  <1>5. ASSUME NEW p \in Pushes, push(k, p) PROVE CallInv'
    <2>1. /\ lp[k] = "select" /\ ConnOf[p] = k /\ task[p] = "none" /\ UNCHANGED <<client, up, shut>>
          /\ \/ Writes(k, p, "result") /\ UNCHANGED chan
             \/ /\ task' = [task EXCEPT ![p] = "end"]
                /\ UNCHANGED <<lp, own, rd, hand, chan, down, resp, ran>>
      BY <1>5 DEF push
    <2>2. p \in Items /\ p \notin Reqs
      BY Names
    <2>3. CASE Writes(k, p, "result") /\ UNCHANGED chan
      <3>1. "result" \in RespKinds \ {"none"}
        BY DEF RespKinds, Answers
      <3> QED
        BY <2>1, <2>2, <2>3, <3>1, WritesKeeps
    <2>4. CASE /\ task' = [task EXCEPT ![p] = "end"]
               /\ UNCHANGED <<lp, own, rd, hand, chan, down, resp, ran>>
      <3>1. resp' = [resp EXCEPT ![p] = resp[p]] /\ resp[p] \in RespKinds
        BY <1>0, <2>2, <2>4 DEF LoopTypes
      <3>2. UNCHANGED <<client, socket, rd, hand, lp, own>>
        BY <2>1, <2>4 DEF socket
      <3>3. "end" \in TaskStates
        BY DEF TaskStates
      <3> QED
        BY <2>1, <2>2, <2>4, <3>1, <3>2, <3>3, TaskKeeps
    <2> QED
      BY <2>1, <2>3, <2>4
  <1> QED
    BY <1>3, <1>4, <1>5

\* A request is executed, or its task is joined.
LEMMA RequestSteps ==
  ASSUME CallInv, NEW r \in Reqs, handle_rpc_line(r) \/ join_next(r)
  PROVE  CallInv'
  <1>0. /\ QueueTypes /\ LoopTypes /\ WritersPlaced /\ FramesPlaced
        /\ r \in Items /\ ConnOf[r] \in Conns
    BY Names DEF CallInv, DaemonInv
  <1>1. task \in [Items -> TaskStates] /\ resp \in [Items -> RespKinds]
    BY <1>0 DEF LoopTypes
  <1>2. CASE handle_rpc_line(r)
    <2>1. PICK answer \in {"result", "typed", "untyped"}, applied \in BOOLEAN :
            /\ IF answer = "result" THEN applied ELSE r \in Failing
            /\ ran' = IF applied THEN ran \cup {r} ELSE ran
            /\ LET kind == encode_response_with_fallback(r, answer) IN
                 /\ task' = [task EXCEPT ![r] = IF kind = "fail" THEN "err" ELSE "wait"]
                 /\ resp' = [resp EXCEPT ![r] = IF kind = "fail" THEN "none" ELSE kind]
      BY <1>2 DEF handle_rpc_line
    <2> DEFINE kind == encode_response_with_fallback(r, answer)
               st == IF kind = "fail" THEN "err" ELSE "wait"
               rk == IF kind = "fail" THEN "none" ELSE kind
    <2>2. kind \in {answer, "limited", "large", "terminal", "fail"}
      BY DEF encode_response_with_fallback
    <2>3. /\ st \in TaskStates /\ rk \in RespKinds
          /\ st = "err" \/ (st = "wait" /\ rk \notin {"none", "overload"})
          /\ rk = "result" => r \in ran'
      BY <2>1, <2>2 DEF TaskStates, RespKinds, Answers
    <2>4. task' = [task EXCEPT ![r] = st] /\ resp' = [resp EXCEPT ![r] = rk]
      BY <2>1
    <2>5. /\ task[r] = "dispatch" /\ ran' \in {ran, ran \cup {r}}
          /\ chan' = chan /\ UNCHANGED <<client, socket, rd, hand, lp, own>>
      BY <1>2, <2>1 DEF handle_rpc_line, reader
    <2> HIDE DEF st, rk
    <2> QED
      BY <1>0, <2>3, <2>4, <2>5, TaskKeeps
  <1>3. CASE join_next(r)
    <2> DEFINE k == ConnOf[r]
               t == [task EXCEPT ![r] = "end"]
    <2>1. /\ lp[k] \in {"select", "drain", "abort"} /\ task[r] \in {"ok", "close", "err"}
          /\ UNCHANGED <<client, up, shut>>
          /\ \/ task' = t /\ UNCHANGED <<reader, lp, own, resp, ran, down>>
             \/ LeaveLoop(k, TRUE, t, down)
      BY <1>3 DEF join_next
    <2>2. t \in [Items -> TaskStates] /\ t[r] = "end" /\ \A y \in Items : y # r => t[y] = task[y]
      BY <1>0, <1>1 DEF TaskStates
    <2>3. own[k] = Nothing /\ shut' \subseteq Conns
      BY <1>0, <2>1 DEF WritersPlaced, LoopTypes
    <2>4. CASE task' = t /\ UNCHANGED <<reader, lp, own, resp, ran, down>>
      <3>1. resp' = [resp EXCEPT ![r] = resp[r]] /\ resp[r] \in RespKinds /\ "end" \in TaskStates
        BY <1>0, <1>1, <2>4 DEF TaskStates
      <3>2. chan' = chan /\ UNCHANGED <<client, socket, rd, hand, lp, own>>
        BY <2>1, <2>4 DEF reader, socket
      <3> QED
        BY <1>0, <2>1, <2>4, <3>1, <3>2, TaskKeeps
    <2>5. CASE LeaveLoop(k, TRUE, t, down)
      <3>1. down \in [Conns -> Seq(Frames)] /\ \A j \in Conns : Extends(down[j], down[j])
        BY <1>0, ExtendsFacts DEF FramesPlaced
      <3> HIDE DEF t
      <3> QED
        BY <1>0, <2>1, <2>2, <2>3, <2>5, <3>1, LeaveKeeps
    <2> QED
      BY <2>1, <2>4, <2>5
  <1> QED
    BY <1>2, <1>3

-----------------------------------------------------------------------------
\* The head of a queue and what is behind it.
LEMMA TailFacts ==
  ASSUME NEW S, NEW s \in Seq(S), s # <<>>
  PROVE  /\ Head(s) = s[1] /\ 1 \in 1..Len(s) /\ Tail(s) \in Seq(S)
         /\ \A i \in 1..Len(Tail(s)) : \E m \in 1..Len(s) : m = i + 1 /\ m # 1 /\ Tail(s)[i] = s[m]
  <1>1. /\ Head(s) = s[1] /\ Len(s) \in Nat \ {0} /\ Tail(s) \in Seq(S) /\ Len(Tail(s)) = Len(s) - 1
        /\ \A i \in 1..Len(Tail(s)) : Tail(s)[i] = s[i + 1]
    BY HeadTailProperties, EmptySeq
  <1>2. ASSUME NEW i \in 1..Len(Tail(s)) PROVE i + 1 \in 1..Len(s) /\ i + 1 # 1 /\ Tail(s)[i] = s[i + 1]
    BY <1>1
  <1> QED
    BY <1>1, <1>2

\* What the reader and the client do to the queues is the step's own duty; the
\* daemon's tables stay.
LEMMA QueueKeeps ==
  ASSUME CallInv, UNCHANGED <<shut, lp, own, tasks>>, ClientTypes', NoOrphanPending',
         QueueTypes', QueuesPlaced', RequestsPlaced', FramesPlaced'
  PROVE  CallInv'
  <1>1. LoopTypes' /\ WritersPlaced'
    BY DEF CallInv, DaemonInv, LoopTypes, WritersPlaced, Written, tasks
  <1> QED
    BY <1>1 DEF CallInv, DaemonInv

\* The frame reader of a connection.
LEMMA ReaderSteps ==
  ASSUME CallInv, NEW k \in Conns, ReaderStep(k)
  PROVE  CallInv'
  <1>0. /\ ClientTypes /\ NoOrphanPending /\ QueueTypes /\ LoopTypes /\ QueuesPlaced /\ RequestsPlaced /\ FramesPlaced
        /\ up \in [Conns -> Seq(Reqs)] /\ rd \in [Conns -> {"slot", "data", "send", "done"}]
        /\ hand \in [Conns -> Reqs \cup Marks] /\ chan \in [Conns -> Seq(Reqs \cup Marks)]
        /\ \A j \in Conns : Len(chan[j]) <= 1
    BY DEF CallInv, DaemonInv, QueueTypes
  <1>1. UNCHANGED <<client, down, shut, lp, own, tasks>>
    BY DEF ReaderStep, read_slot, read_frame, read_eof, read_timeout, send_frame, Reads, socket
  <1>2. ClientTypes' /\ NoOrphanPending' /\ FramesPlaced'
    BY <1>0, <1>1 DEF ClientTypes, NoOrphanPending, client, FramesPlaced, FramePlaced, Taken, tasks
  <1>3. UNCHANGED <<cst, reply, outcome, task, ran>>
    BY <1>1 DEF client, tasks
  <1>4. \A r \in Reqs : ConnOf[r] \in Conns /\ r \notin Marks
    BY Names
  <1>5. CASE read_slot(k)
    <2>1. rd' = [rd EXCEPT ![k] = "data"] /\ UNCHANGED <<up, hand, chan>>
      BY <1>5 DEF read_slot, socket
    <2>2. QueueTypes' /\ QueuesPlaced' /\ RequestsPlaced'
      BY <1>0, <1>3, <2>1 DEF QueueTypes, QueuesPlaced, RequestsPlaced, RequestPlaced, InUp, InHand, InChan,
                            Unseen, Taken
    <2> QED
      BY <1>1, <1>2, <2>2, QueueKeeps
  <1>6. ASSUME NEW f, f \in Marks \/ (up[k] # <<>> /\ f = Head(up[k])), Reads(k, f),
               up' = up \/ (up[k] # <<>> /\ up' = [up EXCEPT ![k] = Tail(@)]),
               f \notin Marks => up' = [up EXCEPT ![k] = Tail(@)]
        PROVE  CallInv'
    <2>0. /\ rd' = [rd EXCEPT ![k] = "send"] /\ hand' = [hand EXCEPT ![k] = f] /\ UNCHANGED chan
      BY <1>6 DEF Reads
    <2>1. up[k] # <<>> => /\ Head(up[k]) = up[k][1] /\ 1 \in 1..Len(up[k]) /\ Tail(up[k]) \in Seq(Reqs)
                          /\ \A i \in 1..Len(Tail(up[k])) :
                               \E m \in 1..Len(up[k]) : m = i + 1 /\ m # 1 /\ Tail(up[k])[i] = up[k][m]
      <3>1. up[k] \in Seq(Reqs)
        BY <1>0
      <3> QED
        BY <3>1, TailFacts
    <2>2. /\ up' \in [Conns -> Seq(Reqs)] /\ \A j \in Conns : j # k => up'[j] = up[j] /\ hand'[j] = hand[j]
          /\ up'[k] = up[k] \/ (up[k] # <<>> /\ up'[k] = Tail(up[k]))
          /\ f \notin Marks => up[k] # <<>> /\ up'[k] = Tail(up[k])
          /\ hand'[k] = f
      BY <1>0, <1>6, <2>0, <2>1
    <2>3. f \in Reqs \cup Marks
      BY <1>0, <1>6, <2>1, ElementOfSeq
    <2>4. QueueTypes'
      BY <1>0, <2>0, <2>2, <2>3 DEF QueueTypes
    <2>5. QueuesPlaced'
      <3> SUFFICES ASSUME NEW j \in Conns
                   PROVE  /\ \A i \in 1..Len(up'[j]) : ConnOf[up'[j][i]] = j
                          /\ \A i, l \in 1..Len(up'[j]) : up'[j][i] = up'[j][l] => i = l
                          /\ hand'[j] \in Reqs => ConnOf[hand'[j]] = j
                          /\ \A i \in 1..Len(chan'[j]) : chan'[j][i] \in Reqs => ConnOf[chan'[j][i]] = j
        BY DEF QueuesPlaced
      <3>1. CASE j # k
        BY <1>0, <2>0, <2>2, <3>1 DEF QueuesPlaced
      <3>2. CASE j = k
        <4>1. \A i \in 1..Len(chan'[k]) : chan'[k][i] \in Reqs => ConnOf[chan'[k][i]] = k
          BY <1>0, <2>0 DEF QueuesPlaced
        <4>2. f \in Reqs => ConnOf[f] = k
          BY <1>0, <1>4, <1>6, <2>1 DEF QueuesPlaced
        <4>3. CASE up'[k] = up[k]
          BY <1>0, <2>2, <3>2, <4>1, <4>2, <4>3 DEF QueuesPlaced
        <4>4. CASE up[k] # <<>> /\ up'[k] = Tail(up[k])
          <5>1. \A i \in 1..Len(up'[k]) : ConnOf[up'[k][i]] = k
            BY <1>0, <2>1, <4>4 DEF QueuesPlaced
          <5>2. ASSUME NEW i \in 1..Len(up'[k]), NEW l \in 1..Len(up'[k]), up'[k][i] = up'[k][l]
                PROVE  i = l
            <6>1. PICK m \in 1..Len(up[k]) : m = i + 1 /\ Tail(up[k])[i] = up[k][m]
              BY <2>1, <4>4
            <6>2. PICK n \in 1..Len(up[k]) : n = l + 1 /\ Tail(up[k])[l] = up[k][n]
              BY <2>1, <4>4
            <6>3. up[k][m] = up[k][n]
              BY <4>4, <5>2, <6>1, <6>2
            <6>4. m = n
              BY <1>0, <6>3 DEF QueuesPlaced
            <6> QED
              BY <6>1, <6>2, <6>4
          <5> QED
            BY <2>2, <3>2, <4>1, <4>2, <5>1, <5>2
        <4> QED
          BY <2>2, <4>3, <4>4
      <3> QED
        BY <3>1, <3>2
    <2>6. RequestsPlaced'
      <3> SUFFICES ASSUME NEW r \in Reqs PROVE RequestPlaced(r)'
        BY DEF RequestsPlaced
      <3>1. RequestPlaced(r) /\ ConnOf[r] \in Conns /\ r \notin Marks
        BY <1>0, <1>4 DEF RequestsPlaced
      <3>2. ASSUME InUp(r)' PROVE InUp(r) /\ (ConnOf[r] = k /\ up'[k] = Tail(up[k]) /\ up[k] # <<>> => r # Head(up[k]))
        <4>1. CASE ConnOf[r] # k
          BY <2>2, <3>1, <3>2, <4>1 DEF InUp
        <4>2. CASE ConnOf[r] = k
          <5>1. PICK i \in 1..Len(up'[k]) : up'[k][i] = r
            BY <3>2, <4>2 DEF InUp
          <5>2. CASE up[k] # <<>> /\ up'[k] = Tail(up[k])
            <6>1. PICK m \in 1..Len(up[k]) : m # 1 /\ Tail(up[k])[i] = up[k][m]
              BY <2>1, <5>1, <5>2
            <6>2. up[k][m] = r
              BY <5>1, <5>2, <6>1
            <6>3. up[k][m] = up[k][1] => m = 1
              BY <1>0, <2>1, <5>2 DEF QueuesPlaced
            <6> QED
              BY <2>1, <4>2, <5>2, <6>1, <6>2, <6>3 DEF InUp
          <5>3. CASE ~(up[k] # <<>> /\ up'[k] = Tail(up[k]))
            <6>1. up'[k] = up[k]
              BY <2>2, <5>3
            <6>2. up[k][i] = r /\ i \in 1..Len(up[k])
              BY <5>1, <6>1
            <6> QED
              BY <4>2, <5>3, <6>2 DEF InUp
          <5> QED
            BY <5>2, <5>3
        <4> QED
          BY <4>1, <4>2
      <3>3. InHand(r)' => InHand(r) \/ (InUp(r) /\ f = r /\ ConnOf[r] = k)
        <4>1. CASE ConnOf[r] # k
          BY <2>2, <3>1, <4>1 DEF InHand
        <4>2. CASE ConnOf[r] = k
          BY <1>6, <2>1, <2>2, <3>1, <4>2 DEF InHand, InUp
        <4> QED
          BY <4>1, <4>2
      <3>4. f = r /\ ConnOf[r] = k => ~InUp(r)'
        BY <1>6, <2>2, <3>1, <3>2
      <3>5. InChan(r)' <=> InChan(r)
        BY <2>0 DEF InChan
      <3>6. InHand(r)' /\ ConnOf[r] = k => f = r
        BY <2>2 DEF InHand
      <3>7. InHand(r)' /\ InUp(r)' => InHand(r)
        BY <3>3, <3>4
      <3> QED
        BY <1>3, <3>1, <3>2, <3>3, <3>4, <3>5, <3>6, <3>7 DEF RequestPlaced, Unseen, Taken
    <2> QED
      BY <1>1, <1>2, <2>4, <2>5, <2>6, QueueKeeps
  <1>7. CASE read_frame(k)
    <2>1. /\ up[k] # <<>> /\ up' = [up EXCEPT ![k] = Tail(@)]
          /\ Reads(k, Head(up[k])) \/ Reads(k, "error")
      BY <1>7 DEF read_frame
    <2>2. "error" \in Marks
      BY DEF Marks
    <2> QED
      BY <1>6, <2>1, <2>2
  <1>8. CASE read_eof(k) \/ read_timeout(k)
    <2>1. (Reads(k, "eof") \/ Reads(k, "error")) /\ up' = up
      BY <1>8 DEF read_eof, read_timeout
    <2>2. "error" \in Marks /\ "eof" \in Marks
      BY DEF Marks
    <2> QED
      BY <1>6, <2>1, <2>2
  <1>9. CASE send_frame(k)
    <2>0. /\ chan' = [chan EXCEPT ![k] = <<hand[k]>>] /\ hand' = [hand EXCEPT ![k] = Nothing]
          /\ rd' = [rd EXCEPT ![k] = IF hand[k] \in Reqs THEN "slot" ELSE "done"]
          /\ UNCHANGED up
      BY <1>9 DEF send_frame, socket
    <2>1. /\ chan'[k] = <<hand[k]>> /\ hand'[k] = Nothing
          /\ \A j \in Conns : j # k => chan'[j] = chan[j] /\ hand'[j] = hand[j]
      BY <1>0, <2>0
    <2>2. <<hand[k]>> \in Seq(Reqs \cup Marks) /\ Len(<<hand[k]>>) = 1 /\ <<hand[k]>>[1] = hand[k]
      BY <1>0
    <2>3. QueueTypes'
      <3>1. chan' \in [Conns -> Seq(Reqs \cup Marks)]
        BY <1>0, <2>0, <2>2
      <3>2. ASSUME NEW j \in Conns PROVE Len(chan'[j]) <= 1
        <4>1. CASE j = k
          <5>1. Len(chan'[j]) = 1
            BY <2>1, <4>1
          <5> QED
            BY <5>1
        <4>2. CASE j # k
          BY <1>0, <2>1, <4>2
        <4> QED
          BY <4>1, <4>2
      <3>3. hand' \in [Conns -> Reqs \cup Marks] /\ rd' \in [Conns -> {"slot", "data", "send", "done"}]
        BY <1>0, <2>0 DEF Marks
      <3> QED
        BY <1>0, <2>0, <3>1, <3>2, <3>3 DEF QueueTypes
    <2>4. QueuesPlaced'
      <3> SUFFICES ASSUME NEW j \in Conns
                   PROVE  /\ \A i \in 1..Len(up[j]) : ConnOf[up[j][i]] = j
                          /\ \A i, l \in 1..Len(up[j]) : up[j][i] = up[j][l] => i = l
                          /\ hand'[j] \in Reqs => ConnOf[hand'[j]] = j
                          /\ \A i \in 1..Len(chan'[j]) : chan'[j][i] \in Reqs => ConnOf[chan'[j][i]] = j
        BY <2>0 DEF QueuesPlaced
      <3>1. CASE j # k
        BY <1>0, <2>1, <3>1 DEF QueuesPlaced
      <3>2. CASE j = k
        <4>1. hand'[k] \notin Reqs
          BY <1>4, <2>1 DEF Marks
        <4>2. \A i \in 1..Len(chan'[k]) : chan'[k][i] = hand[k]
          BY <2>1, <2>2
        <4> QED
          BY <1>0, <3>2, <4>1, <4>2 DEF QueuesPlaced
      <3> QED
        BY <3>1, <3>2
    <2>5. RequestsPlaced'
      <3> SUFFICES ASSUME NEW r \in Reqs PROVE RequestPlaced(r)'
        BY DEF RequestsPlaced
      <3>1. RequestPlaced(r) /\ ConnOf[r] \in Conns /\ r # Nothing
        BY <1>0, <1>4 DEF RequestsPlaced, Marks
      <3>2. InUp(r)' <=> InUp(r)
        BY <2>0 DEF InUp
      <3>3. CASE ConnOf[r] # k
        <4>1. (InHand(r)' <=> InHand(r)) /\ (InChan(r)' <=> InChan(r))
          BY <2>1, <3>1, <3>3 DEF InHand, InChan
        <4> QED
          BY <1>3, <3>1, <3>2, <4>1 DEF RequestPlaced, Unseen, Taken
      <3>4. CASE ConnOf[r] = k
        <4>1. ~InHand(r)' /\ (InChan(r)' => InHand(r))
          BY <2>1, <2>2, <3>1, <3>4 DEF InHand, InChan
        <4> QED
          BY <1>3, <3>1, <3>2, <4>1 DEF RequestPlaced, Unseen, Taken
      <3> QED
        BY <3>3, <3>4
    <2> QED
      BY <1>1, <1>2, <2>3, <2>4, <2>5, QueueKeeps
  <1> QED
    BY <1>5, <1>7, <1>8, <1>9 DEF ReaderStep

-----------------------------------------------------------------------------
\* A step of the client that leaves the socket's way up and the daemon alone.
LEMMA ClientKeeps ==
  ASSUME CallInv, UNCHANGED <<up, shut, reader, lp, own, tasks>>, ClientTypes', NoOrphanPending',
         down' \in [Conns -> Seq(Frames)],
         \A k \in Conns : \A i \in 1..Len(down'[k]) : \E j \in 1..Len(down[k]) : down'[k][i] = down[k][j],
         \A r \in Reqs :
           /\ cst'[r] \in {"new", "pending"} => cst[r] \in {"new", "pending"} /\ outcome'[r] = "none"
           /\ outcome'[r] = outcome[r] \/ (outcome'[r] = "unavailable" /\ r \in Mutate => Unseen(r))
           /\ r \in Mutate /\ outcome'[r] = "unavailable" => cst'[r] = "done"
           /\ outcome'[r] = "ok" => outcome[r] = "ok" \/ reply[r] = "result"
           /\ reply'[r] = "result" => reply[r] = "result" \/ r \in ran
           /\ reply'[r] = "overload" => reply[r] = "overload" \/ (Taken(r) /\ r \notin ran)
  PROVE  CallInv'
  <1>0. QueueTypes /\ QueuesPlaced /\ RequestsPlaced /\ FramesPlaced
    BY DEF CallInv, DaemonInv
  <1>1. UNCHANGED <<up, rd, hand, chan, task, ran>>
    BY DEF reader, tasks
  <1>2. QueueTypes' /\ QueuesPlaced'
    BY <1>0, <1>1 DEF QueueTypes, QueuesPlaced
  <1>3. FramesPlaced'
    <2> SUFFICES ASSUME NEW k \in Conns, NEW i \in 1..Len(down'[k])
                 PROVE  FramePlaced(down[k][i])'
      BY DEF FramesPlaced
    <2>1. PICK j \in 1..Len(down[k]) : down'[k][i] = down[k][j]
      OBVIOUS
    <2>2. FramePlaced(down[k][j])
      BY <1>0 DEF FramesPlaced
    <2> QED
      BY <1>1, <2>1, <2>2 DEF FramePlaced, Taken
  <1>4. RequestsPlaced'
    <2> SUFFICES ASSUME NEW r \in Reqs PROVE RequestPlaced(r)'
      BY DEF RequestsPlaced
    <2>1. RequestPlaced(r)
      BY <1>0 DEF RequestsPlaced
    <2>2. (InUp(r)' <=> InUp(r)) /\ (InHand(r)' <=> InHand(r)) /\ (InChan(r)' <=> InChan(r))
      BY <1>1 DEF InUp, InHand, InChan
    <2>3. (Unseen(r)' <=> Unseen(r)) /\ (Taken(r)' <=> Taken(r))
      BY <1>1, <2>2 DEF Unseen, Taken
    <2> QED
      BY <1>1, <2>1, <2>2, <2>3 DEF RequestPlaced
  <1> QED
    BY <1>2, <1>3, <1>4, QueueKeeps

\* The client takes a frame off its stream.
LEMMA TakeFrame ==
  ASSUME down \in [Conns -> Seq(Frames)], NEW k \in Conns, down[k] # <<>>,
         down' = [down EXCEPT ![k] = Tail(@)]
  PROVE  /\ down' \in [Conns -> Seq(Frames)]
         /\ \A j \in Conns : \A i \in 1..Len(down'[j]) : \E l \in 1..Len(down[j]) : down'[j][i] = down[j][l]
  <1>1. /\ Tail(down[k]) \in Seq(Frames)
        /\ \A i \in 1..Len(Tail(down[k])) : \E m \in 1..Len(down[k]) : Tail(down[k])[i] = down[k][m]
    <2>1. down[k] \in Seq(Frames)
      OBVIOUS
    <2> QED
      BY <2>1, TailFacts
  <1>2. down'[k] = Tail(down[k]) /\ \A j \in Conns : j # k => down'[j] = down[j]
    OBVIOUS
  <1>3. down' \in [Conns -> Seq(Frames)]
    BY <1>1
  <1>4. ASSUME NEW j \in Conns, NEW i \in 1..Len(down'[j])
        PROVE  \E l \in 1..Len(down[j]) : down'[j][i] = down[j][l]
    <2>1. CASE j = k
      BY <1>1, <1>2, <2>1
    <2>2. CASE j # k
      BY <1>2, <2>2
    <2> QED
      BY <2>1, <2>2
  <1> QED
    BY <1>3, <1>4

\* The client's reader, its close and its death.
LEMMA ConnSteps ==
  ASSUME CallInv, NEW k \in Conns, reader_loop(k) \/ close_pending(k) \/ die(k)
  PROVE  CallInv'
  <1>0. /\ ClientTypes /\ NoOrphanPending /\ FramesPlaced /\ RequestsPlaced
        /\ down \in [Conns -> Seq(Frames)]
    BY DEF CallInv, DaemonInv, FramesPlaced
  <1>1. ASSUME NEW r \in Reqs, cst[r] \in {"new", "pending"} PROVE outcome[r] = "none"
    BY <1>0, <1>1 DEF RequestsPlaced, RequestPlaced
  <1>2. ASSUME NEW r \in Reqs, r \in Mutate, outcome[r] = "unavailable" PROVE cst[r] = "done"
    BY <1>0, <1>2 DEF RequestsPlaced, RequestPlaced
  <1>3. CASE close_pending(k)
    <2>1. /\ k \in closed /\ pending' = {r \in pending : ConnOf[r] # k} /\ drained' = drained \cup {k}
          /\ reply' = [r \in Reqs |-> IF r \in pending /\ ConnOf[r] = k THEN "drop" ELSE reply[r]]
          /\ UNCHANGED <<cst, outcome, closed, gone, socket, reader, lp, own, tasks>>
      BY <1>3 DEF close_pending
    <2>2. ClientTypes' /\ NoOrphanPending'
      BY <1>0, <2>1 DEF ClientTypes, NoOrphanPending
    <2>3. UNCHANGED <<up, down, shut>>
      BY <2>1 DEF socket
    <2> QED
      BY <1>0, <1>1, <1>2, <2>1, <2>2, <2>3, ClientKeeps
  <1>4. CASE die(k)
    <2>1. /\ gone' = gone \cup {k} /\ pending' = {r \in pending : ConnOf[r] # k}
          /\ cst' = [r \in Reqs |-> IF ConnOf[r] = k THEN "done" ELSE cst[r]]
          /\ reply' = [r \in Reqs |-> IF ConnOf[r] = k THEN "none" ELSE reply[r]]
          /\ down' = [down EXCEPT ![k] = <<>>]
          /\ UNCHANGED <<outcome, closed, drained, up, shut, reader, lp, own, tasks>>
      BY <1>4 DEF die
    <2>2. ClientTypes' /\ NoOrphanPending'
      BY <1>0, <2>1 DEF ClientTypes, NoOrphanPending
    <2>3. /\ down' \in [Conns -> Seq(Frames)]
          /\ \A j \in Conns : down'[j] = down[j] \/ down'[j] = <<>>
      BY <1>0, <2>1
    <2>4. \A j \in Conns : \A i \in 1..Len(down'[j]) : \E l \in 1..Len(down[j]) : down'[j][i] = down[j][l]
      BY <2>3
    <2> QED
      BY <1>1, <1>2, <2>1, <2>2, <2>3, <2>4, ClientKeeps
  <1>5. CASE reader_loop(k)
    <2>0. UNCHANGED <<cst, outcome, drained, gone, up, shut, reader, lp, own, tasks>>
      BY <1>5 DEF reader_loop
    <2>1. CASE closed' = closed \cup {k} /\ UNCHANGED <<pending, reply>>
               /\ (UNCHANGED down \/ (down[k] # <<>> /\ down' = [down EXCEPT ![k] = Tail(@)]))
      <3>1. ClientTypes' /\ NoOrphanPending'
        BY <1>0, <2>0, <2>1 DEF ClientTypes, NoOrphanPending
      <3>2. /\ down' \in [Conns -> Seq(Frames)]
            /\ \A j \in Conns : \A i \in 1..Len(down'[j]) : \E l \in 1..Len(down[j]) : down'[j][i] = down[j][l]
        <4>1. CASE UNCHANGED down
          BY <1>0, <4>1
        <4>2. CASE down[k] # <<>> /\ down' = [down EXCEPT ![k] = Tail(@)]
          BY <1>0, <4>2, TakeFrame
        <4> QED
          BY <2>1, <4>1, <4>2
      <3> QED
        BY <1>1, <1>2, <2>0, <2>1, <3>1, <3>2, ClientKeeps
    <2>2. CASE /\ down[k] # <<>> /\ down' = [down EXCEPT ![k] = Tail(@)] /\ UNCHANGED closed
               /\ Head(down[k]).kind # "torn" /\ pending' = pending \ {Head(down[k]).of}
               /\ reply' = [r \in Reqs |-> IF r = Head(down[k]).of /\ r \in pending
                                             THEN Head(down[k]).kind ELSE reply[r]]
      <3> DEFINE f == Head(down[k])
      <3>0. down[k] \in Seq(Frames)
        BY <1>0
      <3>1. FramePlaced(f)
        <4>1. f = down[k][1] /\ 1 \in 1..Len(down[k])
          BY <2>2, <3>0, TailFacts
        <4> QED
          BY <1>0, <4>1 DEF FramesPlaced
      <3>2. /\ down' \in [Conns -> Seq(Frames)]
            /\ \A j \in Conns : \A i \in 1..Len(down'[j]) : \E l \in 1..Len(down[j]) : down'[j][i] = down[j][l]
        BY <1>0, <2>2, TakeFrame
      <3>3. /\ f.of \in Reqs => f.kind \in Answers /\ Taken(f.of)
            /\ f.of \in Reqs /\ f.kind = "result" => f.of \in ran
            /\ f.of \in Reqs /\ f.kind = "overload" => f.of \notin ran
        <4>1. f.kind \in Answers \cup {"terminal", "torn"}
          BY <3>1 DEF FramePlaced, Frames
        <4> QED
          BY <2>2, <3>1, <4>1, Names DEF FramePlaced
      <3> HIDE DEF f
      <3>4. /\ reply' = [r \in Reqs |-> IF r = f.of /\ r \in pending THEN f.kind ELSE reply[r]]
            /\ pending' = pending \ {f.of}
        BY <2>2 DEF f
      <3>5. ClientTypes' /\ NoOrphanPending'
        BY <1>0, <2>0, <2>2, <3>3, <3>4 DEF ClientTypes, NoOrphanPending
      <3>6. ASSUME NEW r \in Reqs
            PROVE  /\ reply'[r] = "result" => reply[r] = "result" \/ r \in ran
                   /\ reply'[r] = "overload" => reply[r] = "overload" \/ (Taken(r) /\ r \notin ran)
        BY <3>3, <3>4
      <3> QED
        BY <1>1, <1>2, <2>0, <3>2, <3>5, <3>6, ClientKeeps
    <2> QED
      BY <1>5, <2>1, <2>2 DEF reader_loop
  <1> QED
    BY <1>3, <1>4, <1>5

\* The calls of a client.
LEMMA CallSteps ==
  ASSUME CallInv, NEW r \in Reqs, CallStep(r)
  PROVE  CallInv'
  <1> DEFINE k == ConnOf[r]
  <1>0. /\ ClientTypes /\ NoOrphanPending /\ FramesPlaced /\ RequestsPlaced /\ QueueTypes /\ QueuesPlaced
        /\ down \in [Conns -> Seq(Frames)] /\ k \in Conns /\ up \in [Conns -> Seq(Reqs)]
    BY Names DEF CallInv, DaemonInv, FramesPlaced, QueueTypes
  <1>1. ASSUME NEW q \in Reqs, cst[q] \in {"new", "pending"} PROVE outcome[q] = "none" /\ Unseen(q)
    BY <1>0, <1>1 DEF RequestsPlaced, RequestPlaced
  <1>2. ASSUME NEW q \in Reqs, q \in Mutate, outcome[q] = "unavailable" PROVE cst[q] = "done"
    BY <1>0, <1>2 DEF RequestsPlaced, RequestPlaced
  <1>3. CASE request_value(r)
    <2>1. /\ cst[r] = "new" /\ UNCHANGED <<reply, closed, drained, gone, socket, reader, lp, own, tasks>>
          /\ \/ /\ cst' = [cst EXCEPT ![r] = "done"] /\ UNCHANGED pending
                /\ outcome' = [outcome EXCEPT ![r] = "unavailable"]
             \/ /\ cst' = [cst EXCEPT ![r] = "pending"] /\ pending' = pending \cup {r} /\ UNCHANGED outcome
                /\ k \notin closed
      BY <1>3 DEF request_value
    <2>2. ClientTypes' /\ NoOrphanPending'
      BY <1>0, <2>1 DEF ClientTypes, NoOrphanPending
    <2>3. ASSUME NEW q \in Reqs
          PROVE  /\ cst'[q] \in {"new", "pending"} => cst[q] \in {"new", "pending"} /\ outcome'[q] = "none"
                 /\ outcome'[q] = outcome[q] \/ (outcome'[q] = "unavailable" /\ q \in Mutate => Unseen(q))
                 /\ q \in Mutate /\ outcome'[q] = "unavailable" => cst'[q] = "done"
                 /\ outcome'[q] = "ok" => outcome[q] = "ok"
      BY <1>0, <1>1, <1>2, <2>1 DEF ClientTypes
    <2>4. UNCHANGED <<up, down, shut>>
      BY <2>1 DEF socket
    <2> QED
      BY <1>0, <2>1, <2>2, <2>3, <2>4, ClientKeeps
  <1>4. CASE receive(r) \/ request_timeout(r)
    <2>1. /\ cst[r] = "written" /\ cst' = [cst EXCEPT ![r] = "done"] /\ pending' = pending \ {r}
          /\ UNCHANGED <<reply, closed, drained, gone, socket, reader, lp, own, tasks>>
          /\ \E out \in {"ok", "error", "unavailable", "failed", "reply_lost"} :
               /\ outcome' = [outcome EXCEPT ![r] = out]
               /\ out = "ok" => reply[r] = "result"
               /\ r \in Mutate => out # "unavailable"
      BY <1>4 DEF receive, request_timeout, Returns, LostReply
    <2>2. PICK out \in {"ok", "error", "unavailable", "failed", "reply_lost"} :
               /\ outcome' = [outcome EXCEPT ![r] = out]
               /\ out = "ok" => reply[r] = "result"
               /\ r \in Mutate => out # "unavailable"
      BY <2>1
    <2>3. ClientTypes' /\ NoOrphanPending'
      BY <1>0, <2>1, <2>2 DEF ClientTypes, NoOrphanPending
    <2>4. ASSUME NEW q \in Reqs
          PROVE  /\ cst'[q] \in {"new", "pending"} => cst[q] \in {"new", "pending"} /\ outcome'[q] = "none"
                 /\ outcome'[q] = outcome[q] \/ (outcome'[q] = "unavailable" /\ q \in Mutate => Unseen(q))
                 /\ q \in Mutate /\ outcome'[q] = "unavailable" => cst'[q] = "done"
                 /\ outcome'[q] = "ok" => outcome[q] = "ok" \/ reply[q] = "result"
      BY <1>0, <1>1, <1>2, <2>1, <2>2 DEF ClientTypes
    <2>5. UNCHANGED <<up, down, shut>>
      BY <2>1 DEF socket
    <2> QED
      BY <1>0, <2>1, <2>3, <2>4, <2>5, ClientKeeps
  <1>5. CASE write_line(r)
    <2>0. cst[r] = "pending" /\ UNCHANGED <<reply, drained, gone, down, shut, reader, lp, own, tasks>>
      BY <1>5 DEF write_line
    <2>1. CASE Returns(r, "unavailable") /\ closed' = closed \cup {k} /\ UNCHANGED up
      <3>1. /\ cst' = [cst EXCEPT ![r] = "done"] /\ pending' = pending \ {r}
            /\ outcome' = [outcome EXCEPT ![r] = "unavailable"]
        BY <2>1 DEF Returns
      <3>2. ClientTypes' /\ NoOrphanPending'
        BY <1>0, <2>0, <2>1, <3>1 DEF ClientTypes, NoOrphanPending
      <3>3. ASSUME NEW q \in Reqs
            PROVE  /\ cst'[q] \in {"new", "pending"} => cst[q] \in {"new", "pending"} /\ outcome'[q] = "none"
                   /\ outcome'[q] = outcome[q] \/ (outcome'[q] = "unavailable" /\ q \in Mutate => Unseen(q))
                   /\ q \in Mutate /\ outcome'[q] = "unavailable" => cst'[q] = "done"
                   /\ outcome'[q] = "ok" => outcome[q] = "ok"
        BY <1>0, <1>1, <1>2, <2>0, <3>1 DEF ClientTypes
      <3> QED
        BY <1>0, <2>0, <2>1, <3>2, <3>3, ClientKeeps
    <2>2. CASE /\ up' = [up EXCEPT ![k] = Append(@, r)] /\ cst' = [cst EXCEPT ![r] = "written"]
               /\ UNCHANGED <<outcome, pending, closed>>
      <3>1. ClientTypes' /\ NoOrphanPending'
        BY <1>0, <2>0, <2>2 DEF ClientTypes, NoOrphanPending
      <3>2. UNCHANGED <<rd, hand, chan, task, ran>>
        BY <2>0 DEF reader, tasks
      <3>3. /\ up[k] \in Seq(Reqs) /\ Len(up[k]) \in Nat /\ Len(Append(up[k], r)) = Len(up[k]) + 1
            /\ Append(up[k], r) \in Seq(Reqs) /\ Append(up[k], r)[Len(up[k]) + 1] = r
            /\ \A i \in 1..Len(up[k]) : Append(up[k], r)[i] = up[k][i]
        <4>1. up[k] \in Seq(Reqs)
          BY <1>0
        <4> QED
          BY <4>1, AppendProperties, LenProperties
      <3>4. /\ up'[k] = Append(up[k], r) /\ up' \in [Conns -> Seq(Reqs)]
            /\ \A j \in Conns : j # k => up'[j] = up[j]
        BY <1>0, <2>2, <3>3
      <3>5. QueueTypes'
        BY <1>0, <3>2, <3>4 DEF QueueTypes
      <3>6. \A i \in 1..Len(up'[k]) : (i \in 1..Len(up[k]) /\ up'[k][i] = up[k][i]) \/ (i = Len(up[k]) + 1 /\ up'[k][i] = r)
        BY <3>3, <3>4
      <3>7. \A i \in 1..Len(up[k]) : up[k][i] # r
        BY <1>1, <2>0 DEF Unseen, InUp
      <3>8. QueuesPlaced'
        <4> SUFFICES ASSUME NEW j \in Conns
                     PROVE  /\ \A i \in 1..Len(up'[j]) : ConnOf[up'[j][i]] = j
                            /\ \A i, l \in 1..Len(up'[j]) : up'[j][i] = up'[j][l] => i = l
                            /\ hand[j] \in Reqs => ConnOf[hand[j]] = j
                            /\ \A i \in 1..Len(chan[j]) : chan[j][i] \in Reqs => ConnOf[chan[j][i]] = j
          BY <3>2 DEF QueuesPlaced
        <4>1. CASE j # k
          BY <1>0, <3>4, <4>1 DEF QueuesPlaced
        <4>2. CASE j = k
          <5>0. /\ \A i \in 1..Len(up[k]) : ConnOf[up[k][i]] = k
                /\ \A i, l \in 1..Len(up[k]) : up[k][i] = up[k][l] => i = l
            BY <1>0 DEF QueuesPlaced
          <5>1. \A i \in 1..Len(up'[k]) : ConnOf[up'[k][i]] = k
            <6> TAKE i \in 1..Len(up'[k])
            <6>1. CASE i \in 1..Len(up[k]) /\ up'[k][i] = up[k][i]
              BY <5>0, <6>1
            <6>2. CASE up'[k][i] = r
              BY <6>2
            <6> QED
              BY <3>6, <6>1, <6>2
          <5>2. \A i, l \in 1..Len(up'[k]) : up'[k][i] = up'[k][l] => i = l
            BY <3>6, <3>7, <5>0
          <5> QED
            BY <1>0, <4>2, <5>1, <5>2 DEF QueuesPlaced
        <4> QED
          BY <4>1, <4>2
      <3>9. RequestsPlaced'
        <4> SUFFICES ASSUME NEW q \in Reqs PROVE RequestPlaced(q)'
          BY DEF RequestsPlaced
        <4>1. RequestPlaced(q) /\ ConnOf[q] \in Conns
          BY <1>0, Names DEF RequestsPlaced
        <4>2. (InHand(q)' <=> InHand(q)) /\ (InChan(q)' <=> InChan(q))
          BY <3>2 DEF InHand, InChan
        <4>3. CASE q # r
          <5>1. InUp(q)' => InUp(q)
            BY <3>4, <3>6, <4>1, <4>3 DEF InUp
          <5>2. cst'[q] = cst[q]
            BY <1>0, <2>2, <4>3 DEF ClientTypes
          <5> QED
            BY <2>0, <2>2, <3>2, <4>1, <4>2, <5>1, <5>2 DEF RequestPlaced, Unseen, Taken
        <4>4. CASE q = r
          <5>1. Unseen(r) /\ outcome[r] = "none" /\ cst'[r] = "written"
            BY <1>0, <1>1, <2>0, <2>2 DEF ClientTypes
          <5> QED
            BY <2>0, <2>2, <3>2, <4>1, <4>2, <4>4, <5>1 DEF RequestPlaced, Unseen, Taken
        <4> QED
          BY <4>3, <4>4
      <3>10. FramesPlaced'
        BY <1>0, <2>0, <3>2 DEF FramesPlaced, FramePlaced, Taken
      <3> QED
        BY <2>0, <3>1, <3>5, <3>8, <3>9, <3>10, QueueKeeps
    <2> QED
      BY <1>5, <2>1, <2>2 DEF write_line
  <1> QED
    BY <1>3, <1>4, <1>5 DEF CallStep

\* The invariant holds from the start and in every step.
LEMMA CallsInvariant == Spec => []CallInv
  <1>1. Init => CallInv
    <2> SUFFICES ASSUME Init PROVE CallInv
      OBVIOUS
    <2>1. ClientTypes /\ NoOrphanPending
      BY DEF Init, ClientTypes, NoOrphanPending
    <2>2. QueueTypes /\ LoopTypes
      BY DEF Init, QueueTypes, LoopTypes, Items, Marks, TaskStates, RespKinds
    <2>3. FramesPlaced
      BY DEF Init, FramesPlaced
    <2>4. WritersPlaced
      BY DEF Init, WritersPlaced, Items
    <2>5. QueuesPlaced
      BY Names DEF Init, QueuesPlaced, Marks
    <2>6. ASSUME NEW r \in Reqs PROVE RequestPlaced(r)
      <3>1. ConnOf[r] \in Conns /\ r # Nothing /\ r \in Items
        BY Names
      <3>2. up[ConnOf[r]] = <<>> /\ chan[ConnOf[r]] = <<>> /\ hand[ConnOf[r]] = Nothing /\ task[r] = "none"
            /\ ran = {} /\ outcome[r] = "none" /\ reply[r] = "none"
        BY <3>1 DEF Init, Items
      <3> QED
        BY <3>1, <3>2 DEF RequestPlaced, InUp, InHand, InChan, Unseen, Taken
    <2> QED
      BY <2>1, <2>2, <2>3, <2>4, <2>5, <2>6 DEF CallInv, DaemonInv, RequestsPlaced
  <1>2. CallInv /\ [Next]_vars => CallInv'
    <2> SUFFICES ASSUME CallInv, [Next]_vars PROVE CallInv'
      OBVIOUS
    <2>1. CASE UNCHANGED vars
      <3>1. /\ UNCHANGED <<cst, reply, outcome, pending, closed, drained, gone>>
            /\ UNCHANGED <<up, down, shut, rd, hand, chan, lp, own, task, resp, ran>>
        BY <2>1 DEF vars, client, socket, reader, tasks
      <3> QED
        BY <3>1 DEF CallInv, DaemonInv, ClientTypes, NoOrphanPending, QueueTypes, LoopTypes, QueuesPlaced,
                    RequestsPlaced, RequestPlaced, WritersPlaced, Written, FramesPlaced, FramePlaced, InUp, InHand,
                    InChan, Unseen, Taken
    <2>2. ASSUME NEW k \in Conns, LoopStep(k) PROVE CallInv'
      BY <2>2, LoopSteps, RequestSteps DEF LoopStep
    <2>3. ASSUME NEW x \in Reqs \cup Pushes, TaskStep(x) PROVE CallInv'
      BY <2>3, WriterSteps, RequestSteps DEF TaskStep, Items
    <2> QED
      BY <2>1, <2>2, <2>3, LoopSteps, ReaderSteps, ConnSteps, CallSteps DEF Next
  <1> QED
    BY <1>1, <1>2, PTL DEF Spec

\* Whatever the clients, the sockets and the admission limits do, the tables of
\* both ends have their types and no request is left in the map of a connection
\* that close_pending has drained, where nothing would ever answer it (rpc.rs,
\* request_value_timeout and close_pending).
THEOREM NoCallOrphaned == Spec => []RpcInv
  <1>1. CallInv => RpcInv
    <2> SUFFICES ASSUME CallInv PROVE RpcInv
      OBVIOUS
    <2>1. ClientTypes /\ NoOrphanPending /\ QueueTypes /\ LoopTypes /\ FramesPlaced
      BY DEF CallInv, DaemonInv
    <2>2. /\ \A k \in Conns : \A i \in 1..Len(down[k]) : down[k][i] \in Frames
          /\ drained \subseteq closed /\ closed \subseteq Conns
      BY <2>1 DEF FramesPlaced, FramePlaced, ClientTypes
    <2>3. RpcTypeOK
      BY <2>1, <2>2 DEF RpcTypeOK, ClientTypes, QueueTypes, LoopTypes, Frames, Items, Marks, TaskStates,
                       RespKinds, Busy
    <2> QED
      BY <2>1, <2>3 DEF RpcInv
  <1> QED
    BY <1>1, CallsInvariant, PTL

\* A call reports what the daemon did: one that reports success was executed,
\* one refused for overload never is, and one that changes the hub and got no
\* answer is reported as "daemon unavailable" only when it never reached the
\* daemon and never will (rpc.rs, is_mutate_rpc and reply_lost_after_write;
\* daemon/rpc_io.rs, write_overload_response). What the daemon itself answers
\* with an untyped error is left out: the code gives that report to changes
\* that were made (AppliedNotUnavailable).
THEOREM CallsReportTheTruth == Spec => []OutcomeHonest
  <1>1. CallInv => OutcomeHonest
    BY DEF CallInv, DaemonInv, RequestsPlaced, RequestPlaced, Unseen, Taken, OutcomeHonest
  <1> QED
    BY <1>1, CallsInvariant, PTL
=============================================================================
