---------------------------- MODULE MCTransport ----------------------------
(* Instance of Transport.  n1 and n2 are the same notification in two wire *)
(* sizes, q1 and q2 are requests of the agent that use the same id.        *)
EXTENDS Transport, TLC
CONSTANTS i1, c1, n1, n2, q1, q2, s1
Messages == {i1, c1, n1, n2, q1, q2}
MCKind == i1 :> "resp" @@ c1 :> "resp" @@ n1 :> "note" @@ n2 :> "note" @@ q1 :> "req" @@ q2 :> "req"
KindOf(m) == MCKind[m]
IdentOf(m) == IF m \in {n1, n2} THEN "update" ELSE ToString(m)
SizeOf(m) == IF m = n2 THEN 2 ELSE 1
IdOf(m) == 1
StreamFor(m) == IF m \in {n1, q2} THEN s1 ELSE Main
TriggerOf(m) == CASE m = i1 -> "initialize" [] m = c1 -> "session/new" [] OTHER -> "session/prompt"
OpensFor(m) == IF m = c1 THEN s1 ELSE None
Sent(op, s, m) == [op |-> op, session |-> s, after |-> m]
Prompting == << Sent("initialize", None, None), Sent("session/new", None, i1),
                Sent("session/prompt", s1, c1), Sent("session/cancel", s1, c1) >>
=============================================================================
