-------------------------- MODULE TerminalsProofs ---------------------------
(***************************************************************************)
(* Terminals stay within their quotas, none outlives the unbind of its     *)
(* session, and one that can be asked about has its process or its status: *)
(* for any number of sessions, terminals, faults and attempts.             *)
(***************************************************************************)
EXTENDS Terminals, FiniteSetTheorems, TLAPS

\* The rows of the tables, named.
TermRows == [state : {"none", "spawned", "held", "retired", "gone"}, owner : Sessions \cup {None},
             os : {"none", "running", "dead"}, child : BOOLEAN, exit : BOOLEAN, tries : 0..Attempts]
TermTypes ==
  /\ term \in [Terms -> TermRows]
  /\ wait \in [Terms -> {"none", "polling", "exited", "ok", "error"}]
  /\ unb \in [Sessions -> {"idle", "unbound", "retiring"}]
  /\ ops \in [Sessions -> 0..MaxOps] /\ faults \in 0..MaxFaults

\* A session is bound, being bound, being unbound or closed.
SessionPlaced ==
  /\ bound \subseteq Sessions /\ binding \subseteq Sessions /\ closed \subseteq Sessions
  /\ \A s \in Sessions :
       /\ s \in bound => s \notin binding /\ s \notin closed /\ unb[s] = "idle"
       /\ s \in binding => s \notin closed /\ unb[s] = "idle"

\* A handle in creation belongs to a bound session; one that can be asked about
\* has a child or a status; attempts are left for a retired one, and none or no
\* process for one that is gone.
TermPlaced ==
  \A x \in Terms :
    /\ term[x].state = "none" => term[x].owner = None /\ term[x].os = "none"
    /\ term[x].state = "spawned" => term[x].owner \in bound
    /\ term[x].state \in {"spawned", "held"} => term[x].child \/ term[x].exit
    /\ term[x].state \in {"spawned", "held"} => term[x].tries = 0
    /\ term[x].state = "retired" => term[x].tries < Attempts
    /\ term[x].state = "gone" => term[x].os = "dead" \/ term[x].tries = Attempts

\* Once the handles of a session are taken out of the map, none comes back, and
\* none is left when the unbind has returned.
UnboundPlaced ==
  \A x \in Terms : \A s \in Sessions : term[x].owner = s =>
    /\ unb[s] = "retiring" => term[x].state \in {"retired", "gone"}
    /\ s \in closed => term[x].state = "gone"

\* The map is finite and within the quotas.
QuotaPlaced ==
  /\ IsFiniteSet(held)
  /\ TerminalQuota

TermInv == TermTypes /\ SessionPlaced /\ TermPlaced /\ UnboundPlaced /\ QuotaPlaced

-----------------------------------------------------------------------------
\* The bounds are numbers.
LEMMA Bounds ==
  /\ MaxSession \in Nat /\ MaxGlobal \in Nat /\ Attempts \in Nat /\ MaxFaults \in Nat /\ MaxOps \in Nat
  /\ Attempts > 0 /\ None \notin Sessions
  BY TerminalsAssumption

\* What a killed process leaves of its handle.
LEMMA ReapedFacts ==
  ASSUME NEW h \in TermRows
  PROVE  /\ reaped(h) \in TermRows
         /\ reaped(h).state = h.state /\ reaped(h).owner = h.owner /\ reaped(h).os = "dead"
         /\ reaped(h).tries = h.tries /\ reaped(h).exit = (h.exit \/ h.child)
  <1>1. (h.exit \/ h.child) \in BOOLEAN
    BY DEF TermRows
  <1> DEFINE e == h.exit \/ h.child
  <1>2. reaped(h) = [h EXCEPT !.os = "dead", !.child = FALSE, !.exit = e]
    BY DEF reaped
  <1> HIDE DEF e
  <1>3. e \in BOOLEAN
    BY <1>1 DEF e
  <1>4. /\ reaped(h) \in TermRows
        /\ reaped(h).state = h.state /\ reaped(h).owner = h.owner /\ reaped(h).os = "dead"
        /\ reaped(h).tries = h.tries /\ reaped(h).exit = e
    BY <1>2, <1>3 DEF TermRows
  <1> QED
    BY <1>4 DEF e

\* A handle changes its state.
LEMMA StateFacts ==
  ASSUME NEW h \in TermRows, NEW st \in {"none", "spawned", "held", "retired", "gone"}
  PROVE  LET g == [h EXCEPT !.state = st] IN
         /\ g \in TermRows /\ g.state = st /\ g.owner = h.owner /\ g.os = h.os /\ g.child = h.child
         /\ g.exit = h.exit /\ g.tries = h.tries
  BY DEF TermRows

\* A handle changes its state and its count of attempts.
LEMMA TriesFacts ==
  ASSUME NEW h \in TermRows, NEW st \in {"none", "spawned", "held", "retired", "gone"},
         NEW n \in 0..Attempts
  PROVE  LET g == [h EXCEPT !.state = st, !.tries = n] IN
         g \in TermRows /\ g.state = st /\ g.owner = h.owner /\ g.tries = n
  BY DEF TermRows

\* Who may change a handle, and to what: what every row promises stays true, a
\* handle leaves the map for good, and enters it under the quotas.
Changes(x, h) ==
  /\ term' = [term EXCEPT ![x] = h] /\ h \in TermRows
  /\ \/ h.owner = term[x].owner
     \/ term[x].state = "none" /\ h.state = "spawned" /\ h.owner \in bound
  /\ h.state = term[x].state \/ h.state = "gone" \/ h.owner \in bound
  /\ h.state # "none"
  /\ h.state = "spawned" => h.owner \in bound
  /\ h.state \in {"spawned", "held"} => (h.child \/ h.exit) /\ h.tries = 0
  /\ h.state = "retired" => h.tries < Attempts
  /\ h.state = "gone" => h.os = "dead" \/ h.tries = Attempts
  /\ h.state = "held" => term[x].state = "held" \/ (term[x].state = "spawned" /\ quota_left(h.owner))
  /\ UNCHANGED <<bound, binding, closed, unb, ops>>

\* Such a change keeps what is promised about every handle.
LEMMA ChangeKeeps ==
  ASSUME TermInv, NEW x \in Terms, NEW h, Changes(x, h),
         wait' \in [Terms -> {"none", "polling", "exited", "ok", "error"}], faults' \in 0..MaxFaults
  PROVE  TermInv'
  <1>0. /\ term \in [Terms -> TermRows] /\ TermTypes /\ SessionPlaced /\ TermPlaced /\ UnboundPlaced
        /\ IsFiniteSet(held) /\ TerminalQuota
        /\ unb \in [Sessions -> {"idle", "unbound", "retiring"}]
    BY DEF TermInv, TermTypes, QuotaPlaced
  <1>1. /\ term'[x] = h /\ \A y \in Terms \ {x} : term'[y] = term[y]
        /\ term' \in [Terms -> TermRows]
        /\ UNCHANGED <<bound, binding, closed, unb, ops>>
    BY <1>0 DEF Changes
  <1>2. TermTypes'
    BY <1>0, <1>1 DEF TermTypes
  <1>3. SessionPlaced'
    BY <1>0, <1>1 DEF SessionPlaced
  <1>4. TermPlaced'
    <2> SUFFICES ASSUME NEW y \in Terms
                 PROVE  /\ term'[y].state = "none" => term'[y].owner = None /\ term'[y].os = "none"
                        /\ term'[y].state = "spawned" => term'[y].owner \in bound
                        /\ term'[y].state \in {"spawned", "held"} => term'[y].child \/ term'[y].exit
                        /\ term'[y].state \in {"spawned", "held"} => term'[y].tries = 0
                        /\ term'[y].state = "retired" => term'[y].tries < Attempts
                        /\ term'[y].state = "gone" => term'[y].os = "dead" \/ term'[y].tries = Attempts
      BY <1>1 DEF TermPlaced
    <2>1. CASE y = x
      BY <1>1, <2>1 DEF Changes
    <2>2. CASE y # x
      BY <1>0, <1>1, <2>2 DEF TermPlaced
    <2> QED
      BY <2>1, <2>2
  <1>5. UnboundPlaced'
    <2> SUFFICES ASSUME NEW y \in Terms, NEW s \in Sessions, term'[y].owner = s
                 PROVE  /\ unb[s] = "retiring" => term'[y].state \in {"retired", "gone"}
                        /\ s \in closed => term'[y].state = "gone"
      BY <1>1 DEF UnboundPlaced
    <2>1. CASE y = x /\ h.owner \in bound
      BY <1>0, <1>1, <2>1 DEF SessionPlaced
    <2>2. CASE y = x /\ h.owner \notin bound
      <3>1. h.owner = term[x].owner /\ (h.state = term[x].state \/ h.state = "gone")
        BY <2>2 DEF Changes
      <3> QED
        BY <1>0, <1>1, <2>2, <3>1 DEF UnboundPlaced
    <2>3. CASE y # x
      BY <1>0, <1>1, <2>3 DEF UnboundPlaced
    <2> QED
      BY <2>1, <2>2, <2>3
  <1>6. QuotaPlaced'
    <2>1. CASE ~(h.state = "held" /\ term[x].state = "spawned")
      <3>1. held' \subseteq held /\ \A s \in Sessions : held_by(s)' \subseteq held_by(s)
        <4>1. \A y \in Terms : term'[y].state = "held" => term[y].state = "held" /\ term[y].owner = term'[y].owner
          BY <1>1, <2>1 DEF Changes
        <4> QED
          BY <4>1 DEF held, held_by
      <3>2. IsFiniteSet(held') /\ Cardinality(held') <= Cardinality(held)
        BY <1>0, <3>1, FS_Subset
      <3>3. ASSUME NEW s \in Sessions PROVE Cardinality(held_by(s)') <= MaxSession
        <4>1. IsFiniteSet(held_by(s))
          BY <1>0, FS_Subset DEF held_by
        <4>2. IsFiniteSet(held_by(s)') /\ Cardinality(held_by(s)') <= Cardinality(held_by(s))
          BY <3>1, <4>1, FS_Subset
        <4>3. Cardinality(held_by(s)) \in Nat /\ Cardinality(held_by(s)') \in Nat /\ Cardinality(held_by(s)) <= MaxSession
          BY <1>0, <4>1, <4>2, FS_CardinalityType DEF TerminalQuota
        <4> QED
          BY <4>2, <4>3, Bounds
      <3>4. Cardinality(held) \in Nat /\ Cardinality(held') \in Nat /\ Cardinality(held) <= MaxGlobal
        BY <1>0, <3>2, FS_CardinalityType DEF TerminalQuota
      <3>5. Cardinality(held') <= MaxGlobal
        BY <3>2, <3>4, Bounds
      <3> QED
        BY <3>2, <3>3, <3>5 DEF QuotaPlaced, TerminalQuota
    <2>2. CASE h.state = "held" /\ term[x].state = "spawned"
      <3>1. h.owner = term[x].owner /\ quota_left(h.owner)
        BY <2>2 DEF Changes
      <3>2. held' = held \cup {x} /\ x \notin held
        <4>1. \A y \in Terms : term'[y].state = "held" <=> term[y].state = "held" \/ y = x
          BY <1>1, <2>2
        <4> QED
          BY <2>2, <4>1 DEF held
      <3>3. IsFiniteSet(held') /\ Cardinality(held') = Cardinality(held) + 1
        BY <1>0, <3>2, FS_AddElement
      <3>4. Cardinality(held') <= MaxGlobal
        BY <1>0, <3>1, <3>3, FS_CardinalityType, Bounds DEF quota_left
      <3>5. ASSUME NEW s \in Sessions PROVE Cardinality(held_by(s)') <= MaxSession
        <4>0. IsFiniteSet(held_by(s)) /\ Cardinality(held_by(s)) \in Nat /\ Cardinality(held_by(s)) <= MaxSession
          BY <1>0, FS_Subset, FS_CardinalityType DEF held_by, TerminalQuota
        <4>1. CASE h.owner = s
          <5>1. held_by(s)' = held_by(s) \cup {x} /\ x \notin held_by(s)
            BY <1>1, <3>2, <4>1 DEF held_by, held
          <5>2. Cardinality(held_by(s)') = Cardinality(held_by(s)) + 1
            BY <4>0, <5>1, FS_AddElement
          <5>3. Cardinality(held_by(s)) < MaxSession
            BY <3>1, <4>1 DEF quota_left
          <5> QED
            BY <4>0, <5>2, <5>3, Bounds
        <4>2. CASE h.owner # s
          <5>1. held_by(s)' = held_by(s)
            BY <1>1, <2>2, <3>1, <3>2, <4>2 DEF held_by, held
          <5> QED
            BY <4>0, <5>1
        <4> QED
          BY <4>1, <4>2
      <3> QED
        BY <3>3, <3>4, <3>5 DEF QuotaPlaced, TerminalQuota
    <2> QED
      BY <2>1, <2>2
  <1> QED
    BY <1>2, <1>3, <1>4, <1>5, <1>6 DEF TermInv

\* The facts about one handle that its changes rest on.
LEMMA RowFacts ==
  ASSUME TermInv, NEW x \in Terms
  PROVE  /\ term \in [Terms -> TermRows] /\ term[x] \in TermRows
         /\ wait \in [Terms -> {"none", "polling", "exited", "ok", "error"}] /\ faults \in 0..MaxFaults
         /\ term[x].state = "none" => term[x].owner = None /\ term[x].os = "none"
         /\ term[x].state = "spawned" => term[x].owner \in bound
         /\ term[x].state \in {"spawned", "held"} => term[x].child \/ term[x].exit
         /\ term[x].state \in {"spawned", "held"} => term[x].tries = 0
         /\ term[x].state = "retired" => term[x].tries < Attempts
         /\ term[x].state = "gone" => term[x].os = "dead" \/ term[x].tries = Attempts
         /\ kill_fails => faults' \in 0..MaxFaults
  <1>1. kill_fails => faults' \in 0..MaxFaults
    BY Bounds DEF TermInv, TermTypes, kill_fails
  <1> QED
    BY <1>1 DEF TermInv, TermTypes, TermPlaced

\* A process is reaped and its handle stays or goes.
LEMMA ReapChanges ==
  ASSUME TermInv, NEW x \in Terms, term[x].state \in {"spawned", "held", "retired"},
         UNCHANGED <<bound, wait, unb, binding, closed, ops, faults>>,
         \/ term' = [term EXCEPT ![x] = [reaped(term[x]) EXCEPT !.state = "gone"]]
         \/ term' = [term EXCEPT ![x] = reaped(term[x])] /\ term[x].state = "held"
  PROVE  TermInv'
  <1> DEFINE r == reaped(term[x])
             g == [r EXCEPT !.state = "gone"]
  <1>0. /\ term \in [Terms -> TermRows] /\ term[x] \in TermRows
        /\ wait \in [Terms -> {"none", "polling", "exited", "ok", "error"}] /\ faults \in 0..MaxFaults
        /\ term[x].state \in {"spawned", "held"} => term[x].child \/ term[x].exit
        /\ term[x].state \in {"spawned", "held"} => term[x].tries = 0
    BY RowFacts
  <1>1. /\ r \in TermRows /\ r.state = term[x].state /\ r.owner = term[x].owner /\ r.os = "dead"
        /\ r.tries = term[x].tries /\ r.exit = (term[x].exit \/ term[x].child)
    BY <1>0, ReapedFacts
  <1>2. g \in TermRows /\ g.state = "gone" /\ g.owner = r.owner /\ g.os = r.os
    BY <1>1, StateFacts
  <1> HIDE DEF r, g
  <1>3. CASE term' = [term EXCEPT ![x] = g]
    <2>1. Changes(x, g)
      BY <1>1, <1>2, <1>3 DEF Changes
    <2> QED
      BY <1>0, <2>1, ChangeKeeps
  <1>4. CASE term' = [term EXCEPT ![x] = r] /\ term[x].state = "held"
    <2>1. Changes(x, r)
      BY <1>0, <1>1, <1>4 DEF Changes
    <2> QED
      BY <1>0, <2>1, ChangeKeeps
  <1> QED
    BY <1>3, <1>4 DEF r, g

\* Nothing changes but the waiters and the count of faults.
LEMMA WaitKeeps ==
  ASSUME TermInv, UNCHANGED <<bound, term, unb, binding, closed, ops>>,
         wait' \in [Terms -> {"none", "polling", "exited", "ok", "error"}], faults' \in 0..MaxFaults
  PROVE  TermInv'
  BY DEF TermInv, TermTypes, SessionPlaced, TermPlaced, UnboundPlaced, QuotaPlaced, TerminalQuota, held, held_by

\* The callbacks of an agent, its waits and the ends of processes.
LEMMA TermSteps ==
  ASSUME TermInv, NEW x \in Terms, Callback(x) \/ Waiter(x) \/ process_exits(x) \/ retire_cleanup(x)
  PROVE  TermInv'
  <1> DEFINE o == term[x]
  <1>0. /\ term \in [Terms -> TermRows] /\ o \in TermRows
        /\ wait \in [Terms -> {"none", "polling", "exited", "ok", "error"}] /\ faults \in 0..MaxFaults
        /\ o.state = "none" => o.owner = None /\ o.os = "none"
        /\ o.state = "spawned" => o.owner \in bound
        /\ o.state \in {"spawned", "held"} => o.child \/ o.exit
        /\ o.state \in {"spawned", "held"} => o.tries = 0
        /\ o.state = "retired" => o.tries < Attempts
        /\ o.state = "gone" => o.os = "dead" \/ o.tries = Attempts
        /\ kill_fails => faults' \in 0..MaxFaults
    BY RowFacts
  <1>1. ASSUME NEW s \in Sessions, terminal_create(s, x) PROVE TermInv'
    <2> DEFINE h == SpawnedTerm(s)
    <2>2. h \in TermRows
      BY Bounds DEF TermRows, SpawnedTerm
    <2>3. h.state = "spawned" /\ h.owner = s /\ h.child = TRUE /\ h.tries = 0
      BY DEF SpawnedTerm
    <2>4. /\ term' = [term EXCEPT ![x] = h] /\ s \in bound /\ o.state = "none"
          /\ UNCHANGED <<bound, wait, unb, binding, closed, ops, faults>>
      BY <1>1 DEF terminal_create
    <2> HIDE DEF h
    <2>5. Changes(x, h)
      BY <2>2, <2>3, <2>4 DEF Changes
    <2> QED
      BY <1>0, <2>4, <2>5, ChangeKeeps
  <1>2. CASE terminal_insert(x)
    <2>1. o.state = "spawned" /\ UNCHANGED <<bound, wait, unb, binding, closed, ops>>
      BY <1>2 DEF terminal_insert
    <2>2. CASE quota_left(o.owner) /\ term' = [term EXCEPT ![x].state = "held"] /\ UNCHANGED faults
      <3> DEFINE h == [o EXCEPT !.state = "held"]
      <3>1. /\ h \in TermRows /\ h.state = "held" /\ h.owner = o.owner /\ h.child = o.child
            /\ h.exit = o.exit /\ h.tries = o.tries
        BY <1>0, StateFacts
      <3>2. term' = [term EXCEPT ![x] = h]
        BY <2>2
      <3> HIDE DEF h
      <3>3. Changes(x, h)
        BY <1>0, <2>1, <2>2, <3>1, <3>2 DEF Changes
      <3> QED
        BY <1>0, <2>1, <2>2, <3>3, ChangeKeeps
    <2>3. CASE term' = [term EXCEPT ![x] = [reaped(@) EXCEPT !.state = "gone"]] /\ UNCHANGED faults
      BY <2>1, <2>3, ReapChanges
    <2>4. CASE kill_fails /\ term' = [term EXCEPT ![x].state = "retired", ![x].tries = Attempts - 1]
      <3> DEFINE n == Attempts - 1
                 h == [o EXCEPT !.state = "retired", !.tries = n]
      <3>0. n \in 0..Attempts /\ n < Attempts
        BY Bounds
      <3>2. term' = [term EXCEPT ![x] = h]
        BY <1>0, <2>4
      <3> HIDE DEF n
      <3>1. h \in TermRows /\ h.state = "retired" /\ h.owner = o.owner /\ h.tries = n
        <4>1. o \in TermRows /\ n \in 0..Attempts
          BY <1>0, <3>0
        <4> HIDE DEF o
        <4> QED
          BY <4>1, TriesFacts
      <3> HIDE DEF h
      <3>3. Changes(x, h)
        BY <1>0, <2>1, <3>0, <3>1, <3>2 DEF Changes
      <3> QED
        BY <1>0, <2>1, <2>4, <3>3, ChangeKeeps
    <2> QED
      BY <1>2, <2>2, <2>3, <2>4 DEF terminal_insert
  <1>3. CASE process_exits(x)
    <2> DEFINE h == [o EXCEPT !.os = "dead"]
    <2>1. /\ h \in TermRows /\ h.state = o.state /\ h.owner = o.owner /\ h.tries = o.tries
          /\ h.child = o.child /\ h.exit = o.exit /\ h.os = "dead"
      BY <1>0 DEF TermRows
    <2>2. /\ term' = [term EXCEPT ![x] = h] /\ o.os = "running"
          /\ UNCHANGED <<bound, wait, unb, binding, closed, ops, faults>>
      BY <1>3 DEF process_exits
    <2>3. o.state # "none"
      BY <1>0, <2>2
    <2> HIDE DEF h
    <2>4. Changes(x, h)
      BY <1>0, <2>1, <2>2, <2>3 DEF Changes
    <2> QED
      BY <1>0, <2>2, <2>4, ChangeKeeps
  <1>4. ASSUME o.state = "held", term' = [term EXCEPT ![x].child = FALSE, ![x].exit = TRUE],
               UNCHANGED <<bound, unb, binding, closed, ops, faults>>,
               wait' \in [Terms -> {"none", "polling", "exited", "ok", "error"}]
        PROVE  TermInv'
    <2> DEFINE h == [o EXCEPT !.child = FALSE, !.exit = TRUE]
    <2>1. h \in TermRows /\ h.state = o.state /\ h.owner = o.owner /\ h.tries = o.tries /\ h.exit = TRUE
      BY <1>0 DEF TermRows
    <2>2. term' = [term EXCEPT ![x] = h]
      BY <1>0, <1>4
    <2> HIDE DEF h
    <2>3. Changes(x, h)
      BY <1>0, <1>4, <2>1, <2>2 DEF Changes
    <2> QED
      BY <1>0, <1>4, <2>3, ChangeKeeps
  <1>5. CASE terminal_output(x)
    BY <1>0, <1>4, <1>5 DEF terminal_output, callback, verified, held
  <1>6. CASE terminal_kill(x) \/ terminal_release(x)
    <2>1. o.state = "held" /\ UNCHANGED <<bound, wait, unb, binding, closed, ops>>
      BY <1>6 DEF terminal_kill, terminal_release, callback, verified, held
    <2>2. CASE kill_fails /\ UNCHANGED term
      BY <1>0, <2>1, <2>2, WaitKeeps
    <2>3. CASE /\ UNCHANGED faults
               /\ \/ term' = [term EXCEPT ![x] = reaped(@)]
                  \/ term' = [term EXCEPT ![x] = [reaped(@) EXCEPT !.state = "gone"]]
      BY <2>1, <2>3, ReapChanges
    <2> QED
      BY <1>6, <2>2, <2>3 DEF terminal_kill, terminal_release
  <1>7. CASE terminal_wait(x) \/ wait_poll(x)
    <2>1. UNCHANGED <<bound, term, unb, binding, closed, ops, faults>>
      BY <1>7 DEF terminal_wait, wait_poll
    <2>2. verified(x) => o.child \/ o.exit
      BY <1>0 DEF verified, held
    <2>3. wait' \in [Terms -> {"none", "polling", "exited", "ok", "error"}]
      BY <1>0, <1>7, <2>2 DEF terminal_wait, wait_poll
    <2> QED
      BY <1>0, <2>1, <2>3, WaitKeeps
  <1>8. CASE wait_record(x)
    <2>1. wait' \in [Terms -> {"none", "polling", "exited", "ok", "error"}]
          /\ UNCHANGED <<bound, unb, binding, closed, ops, faults>>
      BY <1>0, <1>8 DEF wait_record
    <2>2. CASE x \in held
      BY <1>4, <1>8, <2>1, <2>2 DEF wait_record, held
    <2>3. CASE x \notin held
      BY <1>0, <1>8, <2>1, <2>3, WaitKeeps DEF wait_record
    <2> QED
      BY <2>2, <2>3
  <1>9. CASE retire_cleanup(x)
    <2>1. o.state = "retired" /\ UNCHANGED <<bound, wait, unb, binding, closed, ops>>
      BY <1>9 DEF retire_cleanup
    <2>2. CASE term' = [term EXCEPT ![x] = [reaped(o) EXCEPT !.state = "gone"]] /\ UNCHANGED faults
      BY <2>1, <2>2, ReapChanges
    <2>3. CASE /\ kill_fails
               /\ term' = [term EXCEPT ![x] = [o EXCEPT !.tries = @ + 1,
                             !.state = IF o.tries + 1 = Attempts THEN "gone" ELSE "retired"]]
      <3> DEFINE h == [o EXCEPT !.tries = o.tries + 1,
                                !.state = IF o.tries + 1 = Attempts THEN "gone" ELSE "retired"]
      <3>0. o.tries + 1 \in 0..Attempts /\ o.tries \in Nat
        BY <1>0, <2>1, Bounds DEF TermRows
      <3>1. /\ h \in TermRows /\ h.owner = o.owner /\ h.tries = o.tries + 1
            /\ h.state = IF o.tries + 1 = Attempts THEN "gone" ELSE "retired"
        BY <1>0, <3>0 DEF TermRows
      <3>2. term' = [term EXCEPT ![x] = h]
        BY <2>3
      <3> HIDE DEF h
      <3>3. Changes(x, h)
        BY <1>0, <2>1, <3>0, <3>1, <3>2, Bounds DEF Changes
      <3> QED
        BY <1>0, <2>1, <2>3, <3>3, ChangeKeeps
    <2> QED
      BY <1>9, <2>2, <2>3 DEF retire_cleanup
  <1> QED
    BY <1>1, <1>2, <1>3, <1>5, <1>6, <1>7, <1>8, <1>9 DEF Callback, Waiter

\* A step of bind or unbind: the sessions change and the handles do not, or all
\* of one session are taken out of the map.
LEMMA SessionSteps ==
  ASSUME TermInv, NEW s \in Sessions, Session(s)
  PROVE  TermInv'
  <1>0. /\ term \in [Terms -> TermRows] /\ TermTypes /\ SessionPlaced /\ TermPlaced /\ UnboundPlaced /\ QuotaPlaced
        /\ unb \in [Sessions -> {"idle", "unbound", "retiring"}]
        /\ ops \in [Sessions -> 0..MaxOps]
    BY DEF TermInv, TermTypes
  <1>1. ASSUME ops' = [ops EXCEPT ![s] = @ + 1], ops[s] < MaxOps PROVE ops' \in [Sessions -> 0..MaxOps]
    BY <1>0, <1>1, Bounds
  <1>2. ASSUME UNCHANGED term PROVE QuotaPlaced'
    BY <1>0, <1>2 DEF QuotaPlaced, TerminalQuota, held, held_by
  <1>3. ASSUME sessions_write PROVE \A x \in Terms : term[x].state # "spawned"
    BY <1>3 DEF sessions_write, spawned
  <1>4. CASE bind_start(s)
    <2>1. /\ sessions_write /\ unb[s] = "idle" /\ s \notin binding /\ ops' \in [Sessions -> 0..MaxOps]
          /\ bound' = bound \ {s} /\ binding' = binding \cup {s} /\ closed' = closed \ {s}
          /\ UNCHANGED <<term, wait, unb, faults>>
      BY <1>1, <1>4 DEF bind_start
    <2>2. TermTypes' /\ SessionPlaced'
      BY <1>0, <2>1 DEF TermTypes, SessionPlaced
    <2>3. TermPlaced' /\ UnboundPlaced'
      BY <1>0, <1>3, <2>1 DEF TermPlaced, UnboundPlaced
    <2> QED
      BY <1>2, <2>1, <2>2, <2>3 DEF TermInv
  <1>5. CASE bind_finish(s)
    <2>1. /\ s \in binding /\ bound' \in {bound, bound \cup {s}} /\ binding' = binding \ {s}
          /\ UNCHANGED <<term, wait, unb, closed, ops, faults>>
      BY <1>5 DEF bind_finish
    <2>2. TermTypes' /\ SessionPlaced'
      BY <1>0, <2>1 DEF TermTypes, SessionPlaced
    <2>3. TermPlaced' /\ UnboundPlaced'
      BY <1>0, <2>1 DEF TermPlaced, UnboundPlaced
    <2> QED
      BY <1>2, <2>1, <2>2, <2>3 DEF TermInv
  <1>6. CASE unbind_start(s)
    <2>1. /\ sessions_write /\ unb[s] = "idle" /\ s \notin binding /\ ops' \in [Sessions -> 0..MaxOps]
          /\ bound' = bound \ {s} /\ unb' = [unb EXCEPT ![s] = "unbound"]
          /\ UNCHANGED <<term, wait, binding, closed, faults>>
      BY <1>1, <1>6 DEF unbind_start
    <2>2. TermTypes' /\ SessionPlaced'
      BY <1>0, <2>1 DEF TermTypes, SessionPlaced
    <2>3. TermPlaced' /\ UnboundPlaced'
      BY <1>0, <1>3, <2>1 DEF TermPlaced, UnboundPlaced
    <2> QED
      BY <1>2, <2>1, <2>2, <2>3 DEF TermInv
  <1>7. CASE retire_terminals(s)
    <2>1. /\ unb[s] = "unbound" /\ unb' = [unb EXCEPT ![s] = "retiring"]
          /\ \A x \in Terms : term'[x] = IF x \in held_by(s) THEN [term[x] EXCEPT !.state = "retired"] ELSE term[x]
          /\ term' = [x \in Terms |-> term'[x]]
          /\ UNCHANGED <<bound, wait, binding, closed, ops, faults>>
      BY <1>7 DEF retire_terminals
    <2>2. \A x \in Terms :
            /\ term'[x] \in TermRows /\ term'[x].owner = term[x].owner /\ term'[x].os = term[x].os
            /\ term'[x].child = term[x].child /\ term'[x].exit = term[x].exit
            /\ term'[x].tries = term[x].tries
            /\ IF term[x].state = "held" /\ term[x].owner = s THEN term'[x].state = "retired"
                                                              ELSE term'[x].state = term[x].state
      <3> SUFFICES ASSUME NEW x \in Terms
                   PROVE  /\ term'[x] \in TermRows /\ term'[x].owner = term[x].owner /\ term'[x].os = term[x].os
                          /\ term'[x].child = term[x].child /\ term'[x].exit = term[x].exit
                          /\ term'[x].tries = term[x].tries
                          /\ IF term[x].state = "held" /\ term[x].owner = s THEN term'[x].state = "retired"
                                                                            ELSE term'[x].state = term[x].state
        OBVIOUS
      <3>1. CASE term[x].state = "held" /\ term[x].owner = s
        <4>1. term'[x] = [term[x] EXCEPT !.state = "retired"]
          BY <2>1, <3>1 DEF held_by, held
        <4> DEFINE g == [term[x] EXCEPT !.state = "retired"]
        <4>2. term[x] \in TermRows
          BY <1>0
        <4>3. /\ g \in TermRows /\ g.state = "retired" /\ g.owner = term[x].owner /\ g.os = term[x].os
              /\ g.child = term[x].child /\ g.exit = term[x].exit /\ g.tries = term[x].tries
          BY <4>2, StateFacts
        <4> HIDE DEF g
        <4>4. term'[x] = g
          BY <4>1 DEF g
        <4> QED
          BY <3>1, <4>3, <4>4
      <3>2. CASE ~(term[x].state = "held" /\ term[x].owner = s)
        <4>1. term'[x] = term[x]
          BY <2>1, <3>2 DEF held_by, held
        <4> QED
          BY <1>0, <3>2, <4>1
      <3> QED
        BY <3>1, <3>2
    <2>3. TermTypes'
      BY <1>0, <2>1, <2>2 DEF TermTypes
    <2>4. SessionPlaced'
      BY <1>0, <2>1 DEF SessionPlaced
    <2>5. TermPlaced'
      BY <1>0, <2>1, <2>2, Bounds DEF TermPlaced
    <2>6. UnboundPlaced'
      <3> SUFFICES ASSUME NEW x \in Terms, NEW q \in Sessions, term[x].owner = q
                   PROVE  /\ unb'[q] = "retiring" => term'[x].state \in {"retired", "gone"}
                          /\ q \in closed => term'[x].state = "gone"
        BY <2>1, <2>2 DEF UnboundPlaced
      <3>1. CASE q # s
        BY <1>0, <2>1, <2>2, <3>1 DEF UnboundPlaced
      <3>2. CASE q = s
        <4>1. s \notin bound
          BY <1>0, <2>1 DEF SessionPlaced
        <4>2. term[x].state \in {"held", "retired", "gone"}
          BY <1>0, <3>2, <4>1, Bounds DEF TermPlaced, TermRows
        <4> QED
          BY <1>0, <2>1, <2>2, <3>2, <4>2 DEF UnboundPlaced
      <3> QED
        BY <3>1, <3>2
    <2>7. QuotaPlaced'
      <3>1. held' \subseteq held /\ \A q \in Sessions : held_by(q)' \subseteq held_by(q)
        BY <2>2 DEF held, held_by
      <3>2. IsFiniteSet(held) /\ TerminalQuota
        BY <1>0 DEF QuotaPlaced
      <3>3. IsFiniteSet(held') /\ Cardinality(held') <= Cardinality(held)
        BY <3>1, <3>2, FS_Subset
      <3>4. Cardinality(held') <= MaxGlobal
        BY <3>2, <3>3, FS_CardinalityType, Bounds DEF TerminalQuota
      <3>5. ASSUME NEW q \in Sessions PROVE Cardinality(held_by(q)') <= MaxSession
        <4>1. IsFiniteSet(held_by(q))
          BY <3>2, FS_Subset DEF held_by
        <4>2. IsFiniteSet(held_by(q)') /\ Cardinality(held_by(q)') <= Cardinality(held_by(q))
          BY <3>1, <4>1, FS_Subset
        <4> QED
          BY <3>2, <4>1, <4>2, FS_CardinalityType, Bounds DEF TerminalQuota
      <3> QED
        BY <3>3, <3>4, <3>5 DEF QuotaPlaced, TerminalQuota
    <2> QED
      BY <2>3, <2>4, <2>5, <2>6, <2>7 DEF TermInv
  <1>8. CASE unbind_done(s)
    <2>1. /\ unb[s] = "retiring" /\ unb' = [unb EXCEPT ![s] = "idle"] /\ closed' = closed \cup {s}
          /\ \A x \in Terms : term[x].owner = s => term[x].state # "retired"
          /\ UNCHANGED <<bound, term, wait, binding, ops, faults>>
      BY <1>8 DEF unbind_done
    <2>2. TermTypes' /\ SessionPlaced'
      BY <1>0, <2>1 DEF TermTypes, SessionPlaced
    <2>3. TermPlaced' /\ UnboundPlaced'
      BY <1>0, <2>1 DEF TermPlaced, UnboundPlaced
    <2> QED
      BY <1>2, <2>1, <2>2, <2>3 DEF TermInv
  <1> QED
    BY <1>4, <1>5, <1>6, <1>7, <1>8 DEF Session

\* Whatever agents, sessions and processes do: the terminals in the map are
\* within both quotas, a session whose unbind has returned has no terminal left
\* and no process either, unless every attempt to kill it failed, and a
\* terminal that can be asked about has its process or its exit status
\* (callbacks/terminal.rs handle_terminal_create, callbacks/connection.rs
\* unbind_session).
THEOREM TerminalsContained == Spec => []TerminalsInv
  <1>1. Init => TermInv
    <2> SUFFICES ASSUME Init PROVE TermInv
      OBVIOUS
    <2>1. /\ \A x \in Terms : term[x] = NoTerm /\ NoTerm \in TermRows
          /\ term \in [Terms -> TermRows]
      BY Bounds DEF Init, NoTerm, TermRows
    <2>2. TermTypes /\ SessionPlaced
      BY <2>1, Bounds DEF Init, TermTypes, SessionPlaced
    <2>3. TermPlaced /\ UnboundPlaced
      BY <2>1, Bounds DEF Init, TermPlaced, UnboundPlaced, NoTerm
    <2>4. held = {} /\ \A s \in Sessions : held_by(s) = {}
      BY <2>1 DEF held, held_by, NoTerm
    <2>5. IsFiniteSet({}) /\ Cardinality({}) = 0
      BY FS_EmptySet
    <2>6. QuotaPlaced
      BY <2>4, <2>5, Bounds DEF QuotaPlaced, TerminalQuota
    <2> QED
      BY <2>2, <2>3, <2>6 DEF TermInv
  <1>2. TermInv /\ [Next]_vars => TermInv'
    <2> SUFFICES ASSUME TermInv, [Next]_vars PROVE TermInv'
      OBVIOUS
    <2>1. CASE UNCHANGED vars
      <3>1. /\ wait \in [Terms -> {"none", "polling", "exited", "ok", "error"}] /\ faults \in 0..MaxFaults
        BY DEF TermInv, TermTypes
      <3> QED
        BY <2>1, <3>1, WaitKeeps DEF vars
    <2> QED
      BY <2>1, TermSteps, SessionSteps DEF Next
  <1>3. TermInv => TerminalsInv
    <2> SUFFICES ASSUME TermInv PROVE TerminalsInv
      OBVIOUS
    <2>1. TermTypes /\ SessionPlaced /\ TermPlaced /\ UnboundPlaced /\ TerminalQuota
      BY DEF TermInv, QuotaPlaced
    <2>2. \A x \in Terms : term[x] \in TermRows
      BY <2>1 DEF TermTypes
    <2>3. TerminalsTypeOK
      BY <2>1, <2>2 DEF TermTypes, SessionPlaced, TermRows, TerminalsTypeOK
    <2>4. ClosedHasNoTerminal
      BY <2>1 DEF ClosedHasNoTerminal, UnboundPlaced, TermPlaced, SessionPlaced
    <2>5. ExitRecorded
      BY <2>1 DEF ExitRecorded, held, TermPlaced
    <2> QED
      BY <2>1, <2>3, <2>4, <2>5 DEF TerminalsInv
  <1> QED
    BY <1>1, <1>2, <1>3, PTL DEF Spec
=============================================================================
