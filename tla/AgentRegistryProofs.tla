------------------------ MODULE AgentRegistryProofs -------------------------
(***************************************************************************)
(* The agent registry keeps its promises for any number of agents,         *)
(* requests, connections, configurations and mutations: commands run on    *)
(* the connection the callbacks accept, nothing is replaced under them,    *)
(* memory is what agents.json says, and a published handle is current.     *)
(***************************************************************************)
EXTENDS AgentRegistry, TLAPS

\* The rows of the tables, named.
TaskRows == [kind : {"none", "op", "query"}, agent : Agents,
             pc : {"idle", "handle", "lock", "init", "publish", "send", "queued", "exec"},
             conn : Conns \cup {NoConn}, epoch : Nat]
ConnRows == [agent : Agents, from : Endpoints, state : ConnStates, cmd : Tasks \cup {NoTask}]
MutRows  == [pc : {"idle", "locks", "writers", "save", "verify", "teardown"},
             next : Registries, affected : SUBSET Agents, live : SUBSET Agents,
             saved : BOOLEAN, count : 0..MaxMutations, cut : BOOLEAN]

\* A request that connects, one that has a connection to use, and the states a
\* connection goes through once it has served.
InitPcs    == {"init", "publish"}
UsePcs     == {"send", "queued", "exec"}
LateStates == {"serving", "closing", "revoking", "closed"}

\* A request that has a connection has one of its agent, built from a
\* configuration; it looks for a handle under the initialiser's lock.
TaskPlaced ==
  \A t \in Tasks :
    LET c == task[t].conn IN
    /\ task[t].pc \in InitPcs \cup UsePcs =>
         c \in Conns /\ conn[c].agent = task[t].agent /\ conn[c].from.conf # NoConf
    /\ task[t].pc \in InitPcs => initLock[task[t].agent] = t /\ handles[task[t].agent] = NoConn
    /\ task[t].pc \in UsePcs \cup {"publish"} => conn[c].state \in LateStates

\* So does a published handle, ...
HandlePlaced ==
  \A a \in Agents : handles[a] # NoConn =>
    LET c == handles[a] IN conn[c].agent = a /\ conn[c].from.conf # NoConf /\ conn[c].state \in LateStates

\* ... and what the callbacks accept is configured and not closed.
ConnectionPlaced ==
  \A a \in Agents : connections[a] # NoConn =>
    LET c == connections[a] IN
    conn[c].agent = a /\ conn[c].state \in {"configured", "serving", "closing", "revoking"}

\* A command belongs to the request that executes it.
CommandPlaced ==
  \A c \in Conns : LET t == conn[c].cmd IN
    t # NoTask => conn[c].state = "serving" /\ task[t].pc = "exec" /\ task[t].conn = c

\* The connection a request uses is the published one, as long as it serves and
\* the callbacks accept it.
UsedIsHandle ==
  \A t \in Tasks :
    LET a == task[t].agent  c == task[t].conn IN
    task[t].pc \in UsePcs /\ conn[c].state = "serving" /\ connections[a] = c => handles[a] = c

\* The mutation holds the writers of agents without a command, ...
WritersQuiet == \A c \in Conns : conn[c].agent \in writers => conn[c].cmd = NoTask

\* ... the initialisers of everything it affects, so that no handle appears that
\* it has not seen, and the writers of all it has seen.
MutationHolds ==
  /\ mut.pc \in {"writers", "save", "verify", "teardown"} =>
       \A a \in mut.affected : initLock[a] = Mutator /\ (a \notin mut.live => handles[a] = NoConn)
  /\ mut.pc \in {"save", "verify", "teardown"} => mut.live \subseteq writers

\* What is affected was computed for the registry still in force.
MutationAffects ==
  mut.pc \in {"locks", "writers", "save", "verify"} => mut.affected = AffectedAgents(registry, mut.next)

\* The fingerprint is never ahead of the file.
DiskFollows ==
  /\ fingerprint <= disk.stamp /\ disk.stamp > 0
  /\ mut.pc = "verify" /\ mut.saved => disk.reg = mut.next

\* A connection attempt reads the registry of its epoch.
AttemptFrom ==
  \A t \in Tasks : task[t].pc \in InitPcs =>
    /\ task[t].epoch <= epoch
    /\ task[t].epoch = epoch => conn[task[t].conn].from = Endpoint(registry, task[t].agent)

\* Who waits for the generation writer.
Waiters == {"waiting", "revoking"}

\* The connections that wait for the writer of an agent, each once.
QueuePlaced ==
  /\ \A a \in Agents : \A i, j \in 1..Len(queue[a]) :
       /\ conn[queue[a][i]].agent = a /\ conn[queue[a][i]].state \in Waiters
       /\ queue[a][i] = queue[a][j] => i = j
  /\ \A c \in Conns : conn[c].state \in Waiters =>
       \E i \in 1..Len(queue[conn[c].agent]) : queue[conn[c].agent][i] = c

\* d is served before c.
Before(d, c, a) == \A i, j \in 1..Len(queue[a]) : queue[a][i] = d /\ queue[a][j] = c => i < j

\* The connection attempt in progress, or the published handle.
Candidate(c) ==
  (\E t \in Tasks : task[t].pc \in InitPcs /\ task[t].conn = c) \/ handles[conn[c].agent] = c

\* Nobody is cut off: every spawned connection is attended, ...
SpawnedAttended ==
  ~mut.cut => \A c \in Conns : conn[c].state = "spawned" =>
    \E t \in Tasks : task[t].pc = "init" /\ task[t].conn = c

\* ... earlier attempts are served before the candidate, ...
CandidateLast ==
  ~mut.cut => \A c, d \in Conns :
    Candidate(c) /\ d # c /\ conn[d].agent = conn[c].agent /\ conn[d].state = "waiting" =>
      /\ conn[c].state \in {"spawned", "waiting"}
      /\ conn[c].state = "waiting" => Before(d, c, conn[c].agent)

\* ... so that it stays the one the callbacks accept.
CandidateAccepted ==
  ~mut.cut => \A c \in Conns :
    Candidate(c) /\ conn[c].state \in {"configured", "serving"} => connections[conn[c].agent] = c

\* What an unused identifier stands for is well typed.
LEMMA UnusedTypes == Unused \in ConnRows /\ IdleTask \in TaskRows
  BY RegistryAssumption DEF Unused, IdleTask, Request, Endpoints, ConnStates, ConnRows, TaskRows

\* The types hold at the start.
LEMMA TypeInit == Init => RegTypeOK
  <1> SUFFICES ASSUME Init PROVE RegTypeOK
    OBVIOUS
  <1>1. conn \in [Conns -> ConnRows] /\ task \in [Tasks -> TaskRows]
    BY UnusedTypes DEF Init
  <1>2. queue \in [Agents -> Seq(Conns)]
    BY DEF Init
  <1>3. mut \in MutRows
    BY RegistryAssumption DEF Init, NoMutation, MutRows
  <1> QED
    BY <1>1, <1>2, <1>3 DEF Init, RegTypeOK, ConnRows, TaskRows, MutRows, Unused

\* The types, row by row and table by table.
Rows ==
  /\ conn \in [Conns -> ConnRows]
  /\ \A c \in Conns : conn[c].state # "closed" => conn[c].from.conf # NoConf
  /\ task \in [Tasks -> TaskRows]
  /\ mut \in MutRows
Tables ==
  /\ registry \in Registries /\ epoch \in Nat /\ fingerprint \in Nat
  /\ disk \in [reg : Registries, stamp : Nat]
  /\ handles \in [Agents -> Conns \cup {NoConn}]
  /\ connections \in [Agents -> Conns \cup {NoConn}]
  /\ initLock \in [Agents -> Tasks \cup {NoTask, Mutator}]
  /\ queue \in [Agents -> Seq(Conns)]
  /\ writers \in SUBSET Agents /\ inbound \in SUBSET Conns

\* Together they are the type invariant.
LEMMA TypeParts == RegTypeOK <=> Rows /\ Tables
  BY DEF RegTypeOK, Rows, Tables, ConnRows, TaskRows, MutRows

\* A mutation changes one entry of the registry.
LEMMA MutationTypes ==
  ASSUME registry \in Registries
  PROVE  Mutations(registry) \subseteq Registries
  BY DEF Mutations, Registries

\* How a request moves.
LEMMA GotoFacts ==
  ASSUME task \in [Tasks -> TaskRows], NEW t \in Tasks, NEW pc, Goto(t, pc)
  PROVE  /\ task'[t].pc = pc /\ task'[t].conn = task[t].conn /\ task'[t].epoch = task[t].epoch
         /\ task'[t].agent = task[t].agent /\ task'[t].kind = task[t].kind
         /\ \A u \in Tasks \ {t} : task'[u] = task[u]
         /\ pc \in {"idle", "handle", "lock", "init", "publish", "send", "queued", "exec"} =>
              task' \in [Tasks -> TaskRows]
  BY DEF Goto, TaskRows

\* A request is given a connection.
LEMMA UsesFacts ==
  ASSUME task \in [Tasks -> TaskRows], NEW t \in Tasks, NEW c \in Conns \cup {NoConn}, Uses(t, c)
  PROVE  /\ task'[t].pc = "send" /\ task'[t].conn = c
         /\ task'[t].agent = task[t].agent /\ task'[t].kind = task[t].kind
         /\ \A u \in Tasks \ {t} : task'[u] = task[u]
         /\ task' \in [Tasks -> TaskRows]
  BY DEF Uses, TaskRows, Request

\* A request ends.
LEMMA EndFacts ==
  ASSUME task \in [Tasks -> TaskRows], NEW t \in Tasks, End(t)
  PROVE  /\ task'[t].pc = "idle" /\ task'[t].conn = NoConn
         /\ \A u \in Tasks \ {t} : task'[u] = task[u]
         /\ task' \in [Tasks -> TaskRows]
  BY UnusedTypes DEF End, IdleTask, Request

\* A request starts.
LEMMA BeginFacts ==
  ASSUME task \in [Tasks -> TaskRows], NEW t \in Tasks, NEW k \in Kinds, NEW a \in Agents, Begin(t, k, a)
  PROVE  /\ task'[t].pc = "handle" /\ \A u \in Tasks \ {t} : task'[u] = task[u]
         /\ task' \in [Tasks -> TaskRows]
  BY RegistryAssumption DEF Begin, TaskRows, Request

\* A connection changes its state, and what else it keeps.
LEMMA ConnFacts ==
  ASSUME conn \in [Conns -> ConnRows], NEW c \in Conns, NEW state, Become(c, state)
  PROVE  /\ conn'[c].state = state /\ conn'[c].agent = conn[c].agent
         /\ conn'[c].from = conn[c].from /\ conn'[c].cmd = conn[c].cmd
         /\ \A d \in Conns \ {c} : conn'[d] = conn[d]
         /\ state \in ConnStates => conn' \in [Conns -> ConnRows]
  BY DEF Become, ConnRows

\* It starts or ends a command.
LEMMA CmdFacts ==
  ASSUME conn \in [Conns -> ConnRows], NEW c \in Conns, NEW t \in Tasks \cup {NoTask},
         conn' = [conn EXCEPT ![c].cmd = t]
  PROVE  /\ conn'[c].state = conn[c].state /\ conn'[c].agent = conn[c].agent
         /\ conn'[c].from = conn[c].from /\ conn'[c].cmd = t
         /\ \A d \in Conns \ {c} : conn'[d] = conn[d]
         /\ conn' \in [Conns -> ConnRows]
  BY DEF ConnRows

\* It disconnects.
LEMMA DisconnectFacts ==
  ASSUME conn \in [Conns -> ConnRows], NEW c \in Conns, Disconnect(c)
  PROVE  /\ conn'[c].state = "closing" /\ conn'[c].agent = conn[c].agent
         /\ conn'[c].from = conn[c].from /\ conn'[c].cmd = NoTask
         /\ \A d \in Conns \ {c} : conn'[d] = conn[d]
         /\ conn' \in [Conns -> ConnRows]
  BY DEF Disconnect, ConnRows, ConnStates

\* A connection attempt begins: what is spawned, from what, for whom.
Spawns(t, c) ==
  LET a == task[t].agent IN
  /\ a \in Agents /\ task[t].pc = "lock" /\ initLock[a] = NoTask /\ handles[a] = NoConn
  /\ conn[c].state = "closed" /\ ~Referenced(c)
  /\ conn'[c] = [agent |-> a, from |-> Endpoint(registry, a), state |-> "spawned", cmd |-> NoTask]
  /\ conn'[c].from.conf # NoConf
  /\ \A d \in Conns \ {c} : conn'[d] = conn[d]
  /\ task'[t].pc = "init" /\ task'[t].conn = c /\ task'[t].epoch = epoch
  /\ task'[t].agent = a /\ task'[t].kind = task[t].kind
  /\ \A u \in Tasks \ {t} : task'[u] = task[u]
  /\ initLock' = [initLock EXCEPT ![a] = t]
  /\ UNCHANGED <<regVars, handles, connections, queue, inbound, writers, mut>>

\* The outcomes of the look under the initialiser's lock.
LEMMA SpawnCases ==
  ASSUME Rows, Tables, NEW t \in Tasks, SpawnConnection(t)
  PROVE  \/ \E c \in Conns : /\ Spawns(t, c)
                             /\ conn' \in [Conns -> ConnRows] /\ task' \in [Tasks -> TaskRows]
         \/ /\ (handles[task[t].agent] # NoConn /\ Uses(t, handles[task[t].agent])) \/ End(t)
            /\ task[t].pc = "lock"
            /\ UNCHANGED <<regVars, handles, initLock, connVars, writers, mut>>
  <1> DEFINE a == task[t].agent
  <1>1. a \in Agents /\ task[t].pc = "lock" /\ initLock[a] = NoTask
    BY DEF Rows, TaskRows, SpawnConnection, At
  <1>2. CASE handles[a] = NoConn /\ Registered(a)
    <2>1. PICK c \in Conns :
            /\ conn[c].state = "closed" /\ ~Referenced(c)
            /\ conn' = [conn EXCEPT ![c] = [agent |-> a, from |-> Endpoint(registry, a),
                                           state |-> "spawned", cmd |-> NoTask]]
            /\ task' = [task EXCEPT ![t] = Request(task[t].kind, a, "init", c, epoch)]
      BY <1>2 DEF SpawnConnection
    <2>2. Endpoint(registry, a) \in Endpoints /\ Endpoint(registry, a).conf # NoConf
      BY <1>1, <1>2 DEF Endpoint, Endpoints, Tables, Registries, Registered
    <2>3. /\ conn'[c] = [agent |-> a, from |-> Endpoint(registry, a), state |-> "spawned", cmd |-> NoTask]
          /\ \A d \in Conns \ {c} : conn'[d] = conn[d]
      BY <2>1 DEF Rows
    <2>4. conn' \in [Conns -> ConnRows]
      BY <1>1, <2>1, <2>2 DEF Rows, ConnRows, ConnStates
    <2>5. /\ task'[t].pc = "init" /\ task'[t].conn = c /\ task'[t].epoch = epoch
          /\ task'[t].agent = a /\ task'[t].kind = task[t].kind
          /\ \A u \in Tasks \ {t} : task'[u] = task[u]
      BY <2>1 DEF Rows, TaskRows, Request
    <2>6. task' \in [Tasks -> TaskRows]
      <3>1. epoch \in Nat /\ task \in [Tasks -> TaskRows] /\ task[t].kind \in {"none", "op", "query"}
        BY DEF Rows, Tables, TaskRows
      <3> QED
        BY <1>1, <2>1, <3>1 DEF TaskRows, Request
    <2>7. conn'[c].from.conf # NoConf
      BY <2>2, <2>3
    <2>8. initLock' = [initLock EXCEPT ![a] = t]
            /\ UNCHANGED <<regVars, handles, connections, queue, inbound, writers, mut>>
      BY <1>2 DEF SpawnConnection
    <2> QED
      BY <1>1, <1>2, <2>1, <2>3, <2>4, <2>5, <2>6, <2>7, <2>8 DEF Spawns
  <1>3. CASE ~(handles[a] = NoConn /\ Registered(a))
    BY <1>1, <1>3 DEF SpawnConnection, connVars
  <1> QED
    BY <1>2, <1>3

\* The steps of a request keep the types.
LEMMA TypeTasks ==
  ASSUME Rows, Tables, NEW t \in Tasks,
         \/ \E k \in Kinds, a \in Agents : Begin(t, k, a)
         \/ RequestStep(t) \/ AgentStep(t) \/ AbortRequest(t)
  PROVE  Rows' /\ Tables'
  <1> USE DEF regVars, connVars
  <1>0. /\ task \in [Tasks -> TaskRows] /\ conn \in [Conns -> ConnRows]
        /\ task[t].agent \in Agents /\ task[t].conn \in Conns \cup {NoConn}
        /\ handles \in [Agents -> Conns \cup {NoConn}]
        /\ initLock \in [Agents -> Tasks \cup {NoTask, Mutator}]
    BY DEF Rows, Tables, TaskRows
  <1>a. ASSUME task' \in [Tasks -> TaskRows], handles' \in [Agents -> Conns \cup {NoConn}],
               initLock' \in [Agents -> Tasks \cup {NoTask, Mutator}],
               UNCHANGED <<regVars, connections, conn, queue, inbound, writers, mut>>
        PROVE  Rows' /\ Tables'
    BY <1>a DEF Rows, Tables
  <1>b. /\ Unlock(task[t].agent) => initLock' \in [Agents -> Tasks \cup {NoTask, Mutator}]
        /\ Evict(t) => handles' \in [Agents -> Conns \cup {NoConn}]
    BY <1>0 DEF Unlock, Evict
  <1>1. CASE \E k \in Kinds, a \in Agents : Begin(t, k, a)
    <2>1. task' \in [Tasks -> TaskRows]
      BY <1>0, <1>1, BeginFacts
    <2> QED
      BY <1>a, <1>0, <1>1, <2>1 DEF Begin
  <1>2. CASE FindHandle(t)
    <2>1. task' \in [Tasks -> TaskRows]
      BY <1>0, <1>2, GotoFacts, UsesFacts DEF FindHandle
    <2> QED
      BY <1>a, <1>0, <1>2, <2>1 DEF FindHandle
  <1>3. CASE SpawnConnection(t)
    <2>1. ASSUME NEW c \in Conns, Spawns(t, c), conn' \in [Conns -> ConnRows], task' \in [Tasks -> TaskRows]
          PROVE  Rows' /\ Tables'
      <3>1. \A d \in Conns : conn'[d].state # "closed" => conn'[d].from.conf # NoConf
        BY <2>1 DEF Spawns, Rows
      <3>2. initLock' \in [Agents -> Tasks \cup {NoTask, Mutator}]
        BY <1>0, <2>1 DEF Spawns
      <3> QED
        BY <2>1, <3>1, <3>2 DEF Spawns, Rows, Tables
    <2>2. CASE /\ (handles[task[t].agent] # NoConn /\ Uses(t, handles[task[t].agent])) \/ End(t)
               /\ UNCHANGED <<regVars, handles, initLock, connVars, writers, mut>>
      <3>1. task' \in [Tasks -> TaskRows]
        BY <1>0, <2>2, UsesFacts, EndFacts
      <3> QED
        BY <1>a, <1>0, <2>2, <3>1
    <2> QED
      BY <1>3, <2>1, <2>2, SpawnCases
  <1>4. CASE InitFails(t)
    BY <1>a, <1>b, <1>0, <1>4, EndFacts DEF InitFails
  <1>5. CASE PublishHandle(t)
    <2>1. CASE End(t) /\ UNCHANGED handles
      BY <1>a, <1>b, <1>0, <1>5, <2>1, EndFacts DEF PublishHandle
    <2>2. CASE handles' = [handles EXCEPT ![task[t].agent] = task[t].conn] /\ Uses(t, task[t].conn)
      <3>1. handles' \in [Agents -> Conns \cup {NoConn}]
        BY <1>0, <2>2
      <3>2. task' \in [Tasks -> TaskRows]
        BY <1>0, <2>2, UsesFacts
      <3> QED
        BY <1>a, <1>b, <1>0, <1>5, <3>1, <3>2 DEF PublishHandle
    <2> QED
      BY <1>5, <2>1, <2>2 DEF PublishHandle
  <1>6. CASE SendCommand(t) \/ LoseReply(t)
    <2>1. task' \in [Tasks -> TaskRows]
      BY <1>0, <1>6, EndFacts, GotoFacts DEF SendCommand, LoseReply
    <2>2. handles' \in [Agents -> Conns \cup {NoConn}]
      BY <1>0, <1>b, <1>6 DEF SendCommand, LoseReply
    <2> QED
      BY <1>a, <1>0, <1>6, <2>1, <2>2 DEF SendCommand, LoseReply
  <1>7. CASE AgentStep(t)
    <2>1. task' \in [Tasks -> TaskRows]
      BY <1>0, <1>7, EndFacts, GotoFacts DEF AgentStep, StartCommand, EndCommand
    <2>2. conn' \in [Conns -> ConnRows]
          /\ \A d \in Conns : conn'[d].state # "closed" => conn'[d].from.conf # NoConf
      BY <1>7 DEF AgentStep, StartCommand, EndCommand, Rows, ConnRows
    <2> QED
      BY <1>7, <2>1, <2>2 DEF AgentStep, StartCommand, EndCommand, Rows, Tables
  <1>8. CASE AbortRequest(t)
    <2>1. task' \in [Tasks -> TaskRows] /\ initLock' \in [Agents -> Tasks \cup {NoTask, Mutator}]
      BY <1>0, <1>b, <1>8, EndFacts DEF AbortRequest
    <2>2. mut' \in MutRows
      BY <1>8 DEF AbortRequest, Rows, MutRows
    <2> QED
      BY <1>8, <2>1, <2>2 DEF AbortRequest, Rows, Tables
  <1> QED
    BY <1>1, <1>2, <1>3, <1>4, <1>5, <1>6, <1>7, <1>8 DEF RequestStep

\* The steps of a connection keep the types.
LEMMA TypeConns ==
  ASSUME Rows, Tables, NEW c \in Conns, ConnectionStep(c) \/ PeerStep(c)
  PROVE  Rows' /\ Tables'
  <1> USE DEF Become, regVars, connVars
  <1>0. conn[c].agent \in Agents /\ conn[c].state \in ConnStates
    BY DEF Rows, ConnRows
  <1>1. conn' \in [Conns -> ConnRows] /\ \A d \in Conns : conn'[d].state # "closed" => conn'[d].from.conf # NoConf
    BY DEF ConnectionStep, PeerStep, JoinGate, Configure, BeginRevoke, EndRevoke, Initialized,
           Disconnect, StartCallback, EndCallback, Rows, ConnRows, ConnStates
  <1>2. task' \in [Tasks -> TaskRows]
    <2>1. CASE Initialized(c)
      BY <2>1, GotoFacts DEF Initialized, Rows
    <2>2. CASE ~Initialized(c)
      BY <2>2 DEF ConnectionStep, PeerStep, JoinGate, Configure, BeginRevoke, EndRevoke,
         Disconnect, StartCallback, EndCallback, Rows
    <2> QED
      BY <2>1, <2>2
  <1>3. connections' \in [Agents -> Conns \cup {NoConn}]
    BY <1>0 DEF ConnectionStep, PeerStep, JoinGate, Configure, BeginRevoke, EndRevoke, Initialized,
           Disconnect, StartCallback, EndCallback, Tables, Revoked
  <1>4. queue' \in [Agents -> Seq(Conns)]
    <2>1. \A a \in Agents : Append(queue[a], c) \in Seq(Conns)
      BY DEF Tables
    <2>2. ASSUME Granted(c) PROVE Tail(queue[conn[c].agent]) \in Seq(Conns)
      BY <1>0, <2>2 DEF Granted, Tables
    <2> QED
      BY <1>0, <2>1, <2>2 DEF ConnectionStep, PeerStep, JoinGate, Configure, BeginRevoke, EndRevoke,
         Initialized, Disconnect, StartCallback, EndCallback, Tables
  <1>5. inbound' \in SUBSET Conns
    BY DEF ConnectionStep, PeerStep, JoinGate, Configure, BeginRevoke, EndRevoke, Initialized,
           Disconnect, StartCallback, EndCallback, Tables
  <1>6. UNCHANGED <<registry, fingerprint, epoch, disk, handles, initLock, writers, mut>>
    BY DEF ConnectionStep, PeerStep, JoinGate, Configure, BeginRevoke, EndRevoke, Initialized,
           Disconnect, StartCallback, EndCallback
  <1> QED
    BY <1>1, <1>2, <1>3, <1>4, <1>5, <1>6 DEF Rows, Tables

\* So do those of a mutation.
LEMMA TypeMutation ==
  ASSUME Rows, Tables, BeginMutation \/ MutationStep \/ AbortTeardown
  PROVE  Rows' /\ Tables'
  <1> USE DEF regVars, connVars
  <1>0. mut \in MutRows /\ registry \in Registries
    BY DEF Rows, Tables
  <1>a. ASSUME mut' \in MutRows, UNCHANGED <<conn, task>>, Tables' PROVE Rows' /\ Tables'
    BY <1>a DEF Rows
  <1>b. ASSUME EndMutation \/ (ReleaseGuards /\ mut' = NoMutation(registry, mut.count, TRUE))
        PROVE  mut' \in MutRows /\ initLock' \in [Agents -> Tasks \cup {NoTask, Mutator}] /\ writers' = {}
    <2>1. mut' \in MutRows
      <3>1. mut.count \in 0..MaxMutations /\ mut.cut \in BOOLEAN
        BY <1>0 DEF MutRows
      <3>2. \E cut \in BOOLEAN : mut' = NoMutation(registry, mut.count, cut)
        BY <1>b, <3>1 DEF EndMutation
      <3> QED
        BY <1>0, <3>1, <3>2 DEF NoMutation, MutRows
    <2>2. initLock' \in [Agents -> Tasks \cup {NoTask, Mutator}] /\ writers' = {}
      BY <1>b DEF EndMutation, ReleaseGuards, Tables
    <2> QED
      BY <2>1, <2>2
  <1>1. CASE BeginMutation
    <2>1. PICK next \in Mutations(registry) :
             mut' = [pc |-> "locks", next |-> next, affected |-> AffectedAgents(registry, next), live |-> {},
                  saved |-> TRUE, count |-> mut.count + 1, cut |-> mut.cut]
      BY <1>1 DEF BeginMutation
    <2>2. next \in Registries /\ AffectedAgents(registry, next) \subseteq Agents
      BY <1>0, MutationTypes DEF AffectedAgents
    <2>3. mut.count + 1 \in 0..MaxMutations
      BY <1>0, <1>1, RegistryAssumption DEF BeginMutation, MutRows
    <2>4. mut' \in MutRows
      BY <1>0, <2>1, <2>2, <2>3 DEF MutRows
    <2> QED
      BY <1>1, <1>a, <2>4 DEF BeginMutation, Tables
  <1>2. CASE TakeInitLocks
    <2>1. mut' \in MutRows
      BY <1>0, <1>2 DEF TakeInitLocks, MutRows
    <2>2. initLock' \in [Agents -> Tasks \cup {NoTask, Mutator}]
      BY <1>2 DEF TakeInitLocks, Tables
    <2> QED
      BY <1>2, <1>a, <2>1, <2>2 DEF TakeInitLocks, Tables
  <1>3. CASE TakeWriters
    BY <1>0, <1>3, <1>a DEF TakeWriters, Tables, MutRows
  <1>4. CASE GiveUp
    BY <1>4, <1>a, <1>b DEF GiveUp, Tables
  <1>5. CASE SaveRegistry
    <2>1. mut' \in MutRows
      BY <1>0, <1>5 DEF SaveRegistry, MutRows
    <2>2. disk' \in [reg : Registries, stamp : Nat]
      <3>1. mut.next \in Registries /\ disk \in [reg : Registries, stamp : Nat]
        BY <1>0 DEF MutRows, Tables
      <3>2. disk.stamp + 1 \in Nat
        BY <3>1
      <3>3. disk' = [reg |-> mut.next, stamp |-> disk.stamp + 1] \/ disk' = disk
        BY <1>5 DEF SaveRegistry
      <3> QED
        BY <3>1, <3>2, <3>3
    <2> QED
      BY <1>5, <1>a, <2>1, <2>2 DEF SaveRegistry, Tables
  <1>6. CASE PublishRegistry
    <2>1. /\ mut' \in MutRows /\ registry' \in Registries /\ epoch' \in Nat /\ fingerprint' \in Nat
      <3>1. mut.next \in Registries /\ disk.stamp \in Nat /\ epoch \in Nat /\ fingerprint \in Nat
        BY <1>0 DEF MutRows, Tables
      <3>2. mut' \in MutRows
        BY <1>0, <1>6, <1>b DEF PublishRegistry, MutRows
      <3> QED
        BY <1>0, <1>6, <3>1, <3>2 DEF PublishRegistry
    <2>2. initLock' \in [Agents -> Tasks \cup {NoTask, Mutator}] /\ writers' \in SUBSET Agents
      BY <1>6, <1>b DEF PublishRegistry, Tables
    <2> QED
      BY <1>6, <1>a, <2>1, <2>2 DEF PublishRegistry, Tables
  <1>7. CASE Teardown \/ AbortTeardown
    BY <1>7, <1>a, <1>b DEF Teardown, AbortTeardown, Tables
  <1> QED
    BY <1>1, <1>2, <1>3, <1>4, <1>5, <1>6, <1>7 DEF MutationStep

\* The types are inductive.
LEMMA TypeInductive == RegTypeOK /\ [Next]_vars => RegTypeOK'
  <1> SUFFICES ASSUME Rows, Tables, [Next]_vars PROVE Rows' /\ Tables'
    BY TypeParts, PTL
  <1>1. CASE UNCHANGED vars
    BY <1>1 DEF vars, Rows, Tables
  <1> QED
    BY <1>1, TypeTasks, TypeConns, TypeMutation DEF Next

-----------------------------------------------------------------------------
(* agents.json and its copy in memory. *)

\* Steps that are not the mutation's leave the registry and the mutation alone,
\* but for the note that something was cut short.
LEMMA OtherSteps ==
  ASSUME RegTypeOK, [Next]_vars
  PROVE  \/ BeginMutation \/ MutationStep \/ AbortTeardown
         \/ /\ UNCHANGED <<registry, fingerprint, epoch, disk, writers>>
            /\ \/ UNCHANGED mut
               \/ /\ mut'.pc = mut.pc /\ mut'.next = mut.next /\ mut'.affected = mut.affected
                  /\ mut'.live = mut.live /\ mut'.saved = mut.saved
                  /\ mut.cut => mut'.cut
                  /\ \E t \in Tasks : AbortRequest(t)
                  /\ ~mut'.cut => UNCHANGED mut
  <1> USE DEF regVars, connVars
  <1>0. mut \in MutRows
    BY TypeParts DEF Rows
  <1>1. ASSUME NEW t \in Tasks, AbortRequest(t)
        PROVE  /\ UNCHANGED <<registry, fingerprint, epoch, disk, writers>>
               /\ mut'.pc = mut.pc /\ mut'.next = mut.next /\ mut'.affected = mut.affected
               /\ mut'.live = mut.live /\ mut'.saved = mut.saved
               /\ mut.cut => mut'.cut
               /\ ~mut'.cut => UNCHANGED mut
    <2>1. mut' = [mut EXCEPT !.cut = @ \/ task[t].pc \in {"init", "publish"}]
      BY <1>1 DEF AbortRequest
    <2>2. UNCHANGED mut \/ mut' = [mut EXCEPT !.cut = TRUE]
      BY <1>0, <2>1 DEF MutRows
    <2> QED
      BY <1>0, <1>1, <2>1, <2>2 DEF AbortRequest, MutRows
  <1>2. ASSUME NEW t \in Tasks,
               (\E k \in Kinds, a \in Agents : Begin(t, k, a)) \/ RequestStep(t) \/ AgentStep(t)
        PROVE  UNCHANGED <<registry, fingerprint, epoch, disk, writers, mut>>
    BY <1>2 DEF Begin, RequestStep, AgentStep, FindHandle, SpawnConnection, InitFails, PublishHandle,
       SendCommand, LoseReply, StartCommand, EndCommand
  <1>3. ASSUME NEW c \in Conns, ConnectionStep(c) \/ PeerStep(c)
        PROVE  UNCHANGED <<registry, fingerprint, epoch, disk, writers, mut>>
    BY <1>3 DEF ConnectionStep, PeerStep, JoinGate, Configure, BeginRevoke, EndRevoke, Initialized,
       Disconnect, StartCallback, EndCallback
  <1> QED
    BY <1>1, <1>2, <1>3 DEF Next, vars

\* What is kept of a mutation when it ends.
LEMMA EndFields ==
  ASSUME RegTypeOK, EndMutation
  PROVE  mut'.pc = "idle" /\ mut'.cut = mut.cut
  BY DEF EndMutation, NoMutation

\* The fingerprint is never ahead of the file, and a file that was saved is the
\* one intended; so equal fingerprints mean equal registries.
LEMMA ServedInductive ==
  RegTypeOK /\ DiskFollows /\ ServedIsDisk /\ [Next]_vars => DiskFollows' /\ ServedIsDisk'
  <1> SUFFICES ASSUME RegTypeOK, DiskFollows, ServedIsDisk, [Next]_vars PROVE DiskFollows' /\ ServedIsDisk'
    OBVIOUS
  <1> USE DEF DiskFollows, ServedIsDisk
  <1>0. mut \in MutRows /\ fingerprint \in Nat /\ disk \in [reg : Registries, stamp : Nat]
    BY TypeParts DEF Rows, Tables
  <1>1. CASE SaveRegistry
    <2>1. mut'.pc = "verify" /\ mut'.next = mut.next
      BY <1>0, <1>1 DEF SaveRegistry, MutRows
    <2>2. UNCHANGED <<registry, fingerprint>>
      BY <1>1 DEF SaveRegistry
    <2>3. CASE disk' = [reg |-> mut.next, stamp |-> disk.stamp + 1]
      BY <1>0, <2>1, <2>2, <2>3
    <2>4. CASE disk' = disk /\ mut' = [mut EXCEPT !.pc = "verify", !.saved = FALSE]
      <3>1. ~mut'.saved
        BY <1>0, <2>4 DEF MutRows
      <3> QED
        BY <1>0, <2>1, <2>2, <2>4, <3>1
    <2> QED
      BY <1>1, <2>3, <2>4 DEF SaveRegistry
  <1>2. CASE PublishRegistry
    <2>1. UNCHANGED disk /\ mut'.pc # "verify"
      BY <1>0, <1>2, EndFields DEF PublishRegistry, MutRows
    <2>2. \/ registry' = disk.reg /\ fingerprint' \in {disk.stamp, 0}
          \/ UNCHANGED <<registry, fingerprint>>
      BY <1>2 DEF PublishRegistry, Committed
    <2> QED
      BY <1>0, <2>1, <2>2
  <1>3. CASE BeginMutation \/ TakeInitLocks \/ TakeWriters \/ GiveUp \/ Teardown \/ AbortTeardown
    <2>1. UNCHANGED <<registry, fingerprint, disk>>
      BY <1>3 DEF BeginMutation, TakeInitLocks, TakeWriters, GiveUp, Teardown, AbortTeardown, regVars
    <2>2. mut'.pc # "verify"
      <3>1. CASE BeginMutation
        BY <3>1 DEF BeginMutation
      <3>2. CASE TakeInitLocks \/ TakeWriters
        BY <1>0, <3>2 DEF TakeInitLocks, TakeWriters, MutRows
      <3>3. CASE GiveUp \/ Teardown \/ AbortTeardown
        BY <3>3, EndFields DEF GiveUp, Teardown, AbortTeardown, NoMutation
      <3> QED
        BY <1>3, <3>1, <3>2, <3>3
    <2> QED
      BY <2>1, <2>2
  <1> QED
    BY <1>1, <1>2, <1>3, OtherSteps DEF MutationStep

\* As long as the fingerprints agree, so that the daemon answers from memory,
\* memory is what agents.json says, whatever failed in saving it and reading it
\* back (hub/registry.rs mutate_registry).
THEOREM MemoryIsFile == Spec => []ServedIsDisk
  <1>1. Init => DiskFollows /\ ServedIsDisk
    BY DEF Init, DiskFollows, ServedIsDisk, NoMutation
  <1> QED
    BY TypeInit, TypeInductive, ServedInductive, <1>1, PTL DEF Spec

-----------------------------------------------------------------------------
(* Requests, connections and the mutation that replaces them. *)

\* Who is where, and what each may rely on.
PlacePart ==
  /\ TaskPlaced /\ HandlePlaced /\ ConnectionPlaced /\ CommandPlaced
  /\ CommandsCurrent /\ UsedIsHandle /\ WritersQuiet /\ MutationHolds
PlaceInv == RegTypeOK /\ PlacePart

\* The types the steps below rest on.
LEMMA PlaceTypes ==
  ASSUME PlaceInv
  PROVE  /\ task \in [Tasks -> TaskRows] /\ conn \in [Conns -> ConnRows] /\ mut \in MutRows
         /\ handles \in [Agents -> Conns \cup {NoConn}]
         /\ connections \in [Agents -> Conns \cup {NoConn}]
         /\ initLock \in [Agents -> Tasks \cup {NoTask, Mutator}]
         /\ queue \in [Agents -> Seq(Conns)] /\ writers \subseteq Agents
         /\ NoConn \notin Conns /\ NoTask \notin Tasks /\ Mutator \notin Tasks /\ Mutator # NoTask
         /\ \A t \in Tasks : task[t].agent \in Agents /\ task[t].conn \in Conns \cup {NoConn}
         /\ \A c \in Conns : conn[c].agent \in Agents /\ conn[c].cmd \in Tasks \cup {NoTask}
         /\ PlacePart
  BY TypeParts, RegistryAssumption DEF PlaceInv, Rows, Tables, TaskRows, ConnRows

\* A request moves, gives a handle back or its lock, and nothing else changes.
LEMMA RequestFrame ==
  ASSUME PlaceInv, NEW t \in Tasks, UNCHANGED <<conn, connections, writers>>,
         \A c \in Conns : conn[c].cmd # t,
         task'[t].agent \in Agents,
         \A u \in Tasks \ {t} : task'[u] = task[u],
         task'[t].pc \in {"idle", "handle", "lock"},
         \A a \in Agents : \/ handles'[a] = handles[a]
                           \/ handles'[a] = NoConn /\ (handles[a] # NoConn => conn[handles[a]].state # "serving"),
         \A a \in Agents : initLock'[a] = initLock[a] \/ (initLock[a] = t /\ initLock'[a] = NoTask),
         mut'.pc = mut.pc, mut'.affected = mut.affected, mut'.live = mut.live
  PROVE  PlacePart'
  <1>0. /\ task \in [Tasks -> TaskRows] /\ conn \in [Conns -> ConnRows]
        /\ handles \in [Agents -> Conns \cup {NoConn}]
        /\ connections \in [Agents -> Conns \cup {NoConn}]
        /\ NoConn \notin Conns /\ NoTask \notin Tasks /\ Mutator \notin Tasks
        /\ \A u \in Tasks : task[u].agent \in Agents
        /\ \A c \in Conns : conn[c].cmd \in Tasks \cup {NoTask}
        /\ mut \in MutRows
        /\ PlacePart
    BY PlaceTypes
  <1>1. \A a \in Agents : handles'[a] = handles[a] \/ handles'[a] = NoConn
    BY <1>0
  <1>2. TaskPlaced'
    BY <1>0, <1>1 DEF PlacePart, TaskPlaced, InitPcs, UsePcs
  <1>3. HandlePlaced' /\ ConnectionPlaced' /\ CommandsCurrent' /\ WritersQuiet'
    BY <1>0, <1>1 DEF PlacePart, HandlePlaced, ConnectionPlaced, CommandsCurrent, WritersQuiet
  <1>4. CommandPlaced'
    BY <1>0 DEF PlacePart, CommandPlaced
  <1>5. UsedIsHandle'
    BY <1>0 DEF PlacePart, UsedIsHandle, UsePcs
  <1>6. MutationHolds'
    <2>1. mut.affected \subseteq Agents
      BY <1>0 DEF MutRows
    <2> QED
      BY <1>0, <1>1, <2>1 DEF PlacePart, MutationHolds
  <1> QED
    BY <1>2, <1>3, <1>4, <1>5, <1>6 DEF PlacePart

\* A request is given the published handle of its agent.
LEMMA UseFrame ==
  ASSUME PlaceInv, NEW t \in Tasks, UNCHANGED <<conn, connections, writers, handles, initLock, mut>>,
         task[t].pc \in {"handle", "lock"}, handles[task[t].agent] # NoConn,
         Uses(t, handles[task[t].agent])
  PROVE  PlacePart'
  <1>0. /\ task \in [Tasks -> TaskRows] /\ conn \in [Conns -> ConnRows]
        /\ handles \in [Agents -> Conns \cup {NoConn}]
        /\ NoConn \notin Conns /\ NoTask \notin Tasks
        /\ \A u \in Tasks : task[u].agent \in Agents
        /\ \A c \in Conns : conn[c].cmd \in Tasks \cup {NoTask}
        /\ PlacePart
    BY PlaceTypes
  <1> DEFINE c == handles[task[t].agent]
  <1>1. c \in Conns
    BY <1>0
  <1>2. /\ task'[t].pc = "send" /\ task'[t].conn = c /\ task'[t].agent = task[t].agent
        /\ \A u \in Tasks \ {t} : task'[u] = task[u]
    BY <1>0, <1>1, UsesFacts
  <1>3. TaskPlaced'
    BY <1>0, <1>1, <1>2 DEF PlacePart, TaskPlaced, HandlePlaced, InitPcs, UsePcs
  <1>4. CommandPlaced' /\ UsedIsHandle'
    BY <1>0, <1>1, <1>2 DEF PlacePart, CommandPlaced, UsedIsHandle
  <1> QED
    BY <1>0, <1>3, <1>4 DEF PlacePart, HandlePlaced, ConnectionPlaced, CommandsCurrent, WritersQuiet,
                            MutationHolds

\* A connection attempt begins.
LEMMA SpawnPlaces ==
  ASSUME PlaceInv, NEW t \in Tasks, NEW c \in Conns, Spawns(t, c)
  PROVE  PlacePart'
  <1>0. /\ task \in [Tasks -> TaskRows] /\ conn \in [Conns -> ConnRows] /\ mut \in MutRows
        /\ handles \in [Agents -> Conns \cup {NoConn}]
        /\ connections \in [Agents -> Conns \cup {NoConn}]
        /\ initLock \in [Agents -> Tasks \cup {NoTask, Mutator}]
        /\ NoConn \notin Conns /\ NoTask \notin Tasks /\ Mutator \notin Tasks /\ Mutator # NoTask
        /\ \A u \in Tasks : task[u].agent \in Agents
        /\ \A d \in Conns : conn[d].cmd \in Tasks \cup {NoTask} /\ conn[d].agent \in Agents
        /\ PlacePart
    BY PlaceTypes
  <1> DEFINE a == task[t].agent
  <1>1. /\ a \in Agents /\ task[t].pc = "lock" /\ initLock[a] = NoTask /\ handles[a] = NoConn
        /\ conn[c].state = "closed" /\ (\A b \in Agents : handles[b] # c) /\ (\A u \in Tasks : task[u].conn # c)
        /\ conn'[c].agent = a /\ conn'[c].from.conf # NoConf /\ conn'[c].state = "spawned"
        /\ conn'[c].cmd = NoTask
        /\ \A d \in Conns \ {c} : conn'[d] = conn[d]
        /\ task'[t].pc = "init" /\ task'[t].conn = c /\ task'[t].agent = a
        /\ \A u \in Tasks \ {t} : task'[u] = task[u]
    BY DEF Spawns, Referenced
  <1>2. /\ initLock'[a] = t /\ \A b \in Agents \ {a} : initLock'[b] = initLock[b]
        /\ UNCHANGED <<handles, connections, writers, mut>>
    BY <1>0 DEF Spawns
  <1> HIDE DEF a
  <1>3. TaskPlaced'
    <2> SUFFICES ASSUME NEW u \in Tasks
                 PROVE  /\ task'[u].pc \in InitPcs \cup UsePcs =>
                             /\ task'[u].conn \in Conns /\ conn'[task'[u].conn].agent = task'[u].agent
                             /\ conn'[task'[u].conn].from.conf # NoConf
                        /\ task'[u].pc \in InitPcs => initLock'[task'[u].agent] = u /\ handles[task'[u].agent] = NoConn
                        /\ task'[u].pc \in UsePcs \cup {"publish"} => conn'[task'[u].conn].state \in LateStates
      BY <1>2 DEF TaskPlaced
    <2>1. CASE u = t
      BY <1>1, <1>2, <2>1 DEF UsePcs
    <2>2. CASE u # t
      BY <1>0, <1>1, <1>2, <2>2 DEF PlacePart, TaskPlaced, InitPcs, UsePcs
    <2> QED
      BY <2>1, <2>2
  <1>4. HandlePlaced' /\ ConnectionPlaced'
    BY <1>0, <1>1, <1>2 DEF PlacePart, HandlePlaced, ConnectionPlaced
  <1>5. CommandPlaced' /\ CommandsCurrent' /\ WritersQuiet'
    BY <1>0, <1>1, <1>2 DEF PlacePart, CommandPlaced, CommandsCurrent, WritersQuiet
  <1>6. UsedIsHandle'
    BY <1>0, <1>1, <1>2 DEF PlacePart, UsedIsHandle, TaskPlaced, UsePcs
  <1>7. MutationHolds'
    BY <1>0, <1>1, <1>2 DEF PlacePart, MutationHolds, MutRows
  <1> QED
    BY <1>3, <1>4, <1>5, <1>6, <1>7 DEF PlacePart

\* The steps of a request keep everything in its place.
LEMMA PlaceTasks ==
  ASSUME PlaceInv, task' \in [Tasks -> TaskRows], NEW t \in Tasks,
         \/ \E k \in Kinds, a \in Agents : Begin(t, k, a)
         \/ RequestStep(t) \/ AgentStep(t) \/ AbortRequest(t)
  PROVE  PlacePart'
  <1> USE DEF At, connVars
  <1> DEFINE a == task[t].agent
             c == task[t].conn
  <1>0. /\ task \in [Tasks -> TaskRows] /\ conn \in [Conns -> ConnRows] /\ mut \in MutRows
        /\ handles \in [Agents -> Conns \cup {NoConn}]
        /\ connections \in [Agents -> Conns \cup {NoConn}]
        /\ initLock \in [Agents -> Tasks \cup {NoTask, Mutator}]
        /\ NoConn \notin Conns /\ NoTask \notin Tasks /\ Mutator \notin Tasks /\ Mutator # NoTask
        /\ a \in Agents /\ c \in Conns \cup {NoConn}
        /\ \A u \in Tasks : task[u].agent \in Agents
        /\ \A d \in Conns : conn[d].cmd \in Tasks \cup {NoTask} /\ conn[d].agent \in Agents
        /\ PlacePart
    BY PlaceTypes
  <1>t. \A u \in Tasks : task'[u].agent \in Agents
    BY DEF TaskRows
  <1>c. task[t].pc # "exec" \/ conn[c].state # "serving" => \A d \in Conns : conn[d].cmd # t
    BY <1>0 DEF PlacePart, CommandPlaced
  <1>e. ASSUME Evict(t), conn[c].state # "serving"
        PROVE  handles' = handles \/ /\ handles' = [handles EXCEPT ![a] = NoConn]
                                     /\ handles[a] # NoConn => conn[handles[a]].state # "serving"
    BY <1>e DEF Evict
  <1>u. ASSUME UNCHANGED <<conn, connections, writers, handles, initLock, mut>>, task[t].pc # "exec",
               task'[t].pc \in {"idle", "handle", "lock"}, \A u \in Tasks \ {t} : task'[u] = task[u]
        PROVE  PlacePart'
    <2>1. (\A b \in Agents : handles'[b] = handles[b]) /\ (\A b \in Agents : initLock'[b] = initLock[b])
      BY <1>u
    <2>2. UNCHANGED <<conn, connections, writers>> /\ \A d \in Conns : conn[d].cmd # t
      BY <1>c, <1>u
    <2>3. mut'.pc = mut.pc /\ mut'.affected = mut.affected /\ mut'.live = mut.live
      BY <1>u
    <2> QED
      BY <1>t, <1>u, <2>1, <2>2, <2>3, RequestFrame
  <1>1. CASE \E k \in Kinds, b \in Agents : Begin(t, k, b)
    <2>1. /\ task[t].pc = "idle" /\ task'[t].pc = "handle" /\ \A u \in Tasks \ {t} : task'[u] = task[u]
          /\ UNCHANGED <<conn, connections, writers, handles, initLock, mut>>
      BY <1>0, <1>1, BeginFacts DEF Begin
    <2> QED
      BY <1>u, <2>1
  <1>2. CASE FindHandle(t)
    <2>1. UNCHANGED <<conn, connections, writers, handles, initLock, mut>> /\ task[t].pc = "handle"
      BY <1>2 DEF FindHandle
    <2>2. CASE handles[a] # NoConn
      BY <1>2, <2>1, <2>2, UseFrame DEF FindHandle
    <2>3. CASE handles[a] = NoConn
      <3>1. task'[t].pc = "lock" /\ \A u \in Tasks \ {t} : task'[u] = task[u]
        BY <1>0, <1>2, <2>3, GotoFacts DEF FindHandle
      <3> QED
        BY <1>u, <2>1, <3>1 DEF connVars
    <2> QED
      BY <2>2, <2>3
  <1>3. CASE SpawnConnection(t)
    <2>1. CASE End(t) /\ task[t].pc = "lock" /\ UNCHANGED <<handles, initLock, connVars, writers, mut>>
      <3>1. task'[t].pc = "idle" /\ \A u \in Tasks \ {t} : task'[u] = task[u]
        BY <1>0, <2>1, EndFacts
      <3> QED
        BY <1>u, <2>1, <3>1 DEF connVars
    <2> QED
      BY <1>3, <2>1, SpawnCases, SpawnPlaces, UseFrame, TypeParts DEF PlaceInv
  <1>4. ASSUME End(t), UNCHANGED <<conn, connections, writers>>, \A d \in Conns : conn[d].cmd # t,
               handles' = handles \/ /\ handles' = [handles EXCEPT ![a] = NoConn]
                                     /\ handles[a] # NoConn => conn[handles[a]].state # "serving",
               UNCHANGED initLock \/ (initLock[a] = t /\ Unlock(a)),
               mut'.pc = mut.pc, mut'.affected = mut.affected, mut'.live = mut.live
        PROVE  PlacePart'
    <2>1. task'[t].pc = "idle" /\ \A u \in Tasks \ {t} : task'[u] = task[u]
      BY <1>0, <1>4, EndFacts
    <2>2. \A b \in Agents : initLock'[b] = initLock[b] \/ (initLock[b] = t /\ initLock'[b] = NoTask)
      BY <1>0, <1>4 DEF Unlock
    <2>3. \A b \in Agents : \/ handles'[b] = handles[b]
                            \/ handles'[b] = NoConn /\ (handles[b] # NoConn => conn[handles[b]].state # "serving")
      <3>1. CASE handles' = handles
        BY <3>1
      <3>2. CASE handles' # handles
        <4>1. /\ handles'[a] = NoConn /\ \A b \in Agents \ {a} : handles'[b] = handles[b]
              /\ handles[a] # NoConn => conn[handles[a]].state # "serving"
          BY <1>0, <1>4, <3>2
        <4> HIDE DEF a
        <4> QED
          BY <4>1
      <3> QED
        BY <3>1, <3>2
    <2>4. task'[t].pc \in {"idle", "handle", "lock"} /\ task'[t].agent \in Agents
      BY <1>t, <2>1
    <2>5. UNCHANGED <<conn, connections, writers>> /\ \A d \in Conns : conn[d].cmd # t
      BY <1>4
    <2>6. mut'.pc = mut.pc /\ mut'.affected = mut.affected /\ mut'.live = mut.live
      BY <1>4
    <2> HIDE DEF a, c
    <2> QED
      BY <2>1, <2>2, <2>3, <2>4, <2>5, <2>6, RequestFrame
  <1>5. CASE InitFails(t)
    <2>1. initLock[a] = t
      BY <1>0, <1>5 DEF InitFails, PlacePart, TaskPlaced, InitPcs
    <2> QED
      BY <1>c, <1>4, <1>5, <2>1 DEF InitFails
  <1>6. CASE PublishHandle(t)
    <2>1. /\ task[t].pc = "publish" /\ initLock[a] = t /\ handles[a] = NoConn /\ c \in Conns
          /\ conn[c].agent = a /\ conn[c].from.conf # NoConf /\ conn[c].state \in LateStates
      BY <1>0, <1>6 DEF PublishHandle, PlacePart, TaskPlaced, InitPcs
    <2>2. CASE End(t) /\ UNCHANGED handles
      BY <1>c, <1>4, <1>6, <2>1, <2>2 DEF PublishHandle
    <2>3. CASE handles' = [handles EXCEPT ![a] = c] /\ Uses(t, c)
      <3>1. /\ task'[t].pc = "send" /\ task'[t].conn = c /\ task'[t].agent = a
            /\ \A u \in Tasks \ {t} : task'[u] = task[u]
        BY <1>0, <2>1, <2>3, UsesFacts
      <3>2. /\ UNCHANGED <<conn, connections, writers, mut>>
            /\ initLock'[a] = NoTask /\ \A b \in Agents \ {a} : initLock'[b] = initLock[b]
            /\ handles'[a] = c /\ \A b \in Agents \ {a} : handles'[b] = handles[b]
        BY <1>0, <1>6, <2>3 DEF PublishHandle, Unlock
      <3> HIDE DEF a, c
      <3>3. TaskPlaced'
        <4> SUFFICES ASSUME NEW u \in Tasks \ {t} PROVE
                        /\ task[u].pc \in InitPcs \cup UsePcs =>
                             /\ task[u].conn \in Conns /\ conn[task[u].conn].agent = task[u].agent
                             /\ conn[task[u].conn].from.conf # NoConf
                        /\ task[u].pc \in InitPcs => initLock'[task[u].agent] = u /\ handles'[task[u].agent] = NoConn
                        /\ task[u].pc \in UsePcs \cup {"publish"} => conn[task[u].conn].state \in LateStates
          BY <2>1, <3>1, <3>2 DEF TaskPlaced, InitPcs, UsePcs
        <4> QED
          BY <1>0, <2>1, <3>1, <3>2 DEF PlacePart, TaskPlaced
      <3>4. HandlePlaced'
        BY <1>0, <2>1, <3>2 DEF PlacePart, HandlePlaced
      <3>5. ConnectionPlaced' /\ CommandsCurrent' /\ WritersQuiet'
        BY <1>0, <3>2 DEF PlacePart, ConnectionPlaced, CommandsCurrent, WritersQuiet
      <3>6. CommandPlaced'
        BY <1>0, <1>c, <2>1, <3>1, <3>2 DEF PlacePart, CommandPlaced
      <3>7. UsedIsHandle'
        BY <1>0, <2>1, <3>1, <3>2 DEF PlacePart, UsedIsHandle, TaskPlaced, UsePcs
      <3>8. MutationHolds'
        BY <1>0, <2>1, <3>2 DEF PlacePart, MutationHolds, MutRows
      <3> QED
        BY <3>3, <3>4, <3>5, <3>6, <3>7, <3>8 DEF PlacePart
    <2> QED
      BY <1>6, <2>2, <2>3 DEF PublishHandle
  <1>7. ASSUME task[t].pc \in UsePcs \ {"exec"}, Goto(t, "queued"),
               UNCHANGED <<conn, connections, writers, handles, initLock, mut>>
        PROVE  PlacePart'
    <2>1. /\ task'[t].pc = "queued" /\ task'[t].conn = c /\ task'[t].agent = a
          /\ \A u \in Tasks \ {t} : task'[u] = task[u]
      BY <1>0, <1>7, GotoFacts
    <2>2. TaskPlaced'
      BY <1>0, <1>7, <2>1 DEF PlacePart, TaskPlaced, InitPcs, UsePcs
    <2>3. CommandPlaced'
      BY <1>0, <1>7, <2>1 DEF PlacePart, CommandPlaced
    <2>4. UsedIsHandle'
      BY <1>0, <1>7, <2>1 DEF PlacePart, UsedIsHandle, UsePcs
    <2> QED
      BY <1>0, <1>7, <2>2, <2>3, <2>4
      DEF PlacePart, HandlePlaced, ConnectionPlaced, CommandsCurrent, WritersQuiet, MutationHolds
  <1>8. CASE SendCommand(t)
    <2>1. CASE conn[c].state = "serving"
      BY <1>7, <1>8, <2>1 DEF SendCommand, UsePcs
    <2>2. CASE conn[c].state # "serving"
      <3>1. handles' = handles \/ /\ handles' = [handles EXCEPT ![a] = NoConn]
                                  /\ handles[a] # NoConn => conn[handles[a]].state # "serving"
        BY <1>8, <1>e, <2>2 DEF SendCommand
      <3> QED
        BY <1>c, <1>4, <1>8, <2>2, <3>1 DEF SendCommand
    <2> QED
      BY <2>1, <2>2
  <1>9. CASE LoseReply(t)
    <2>1. handles' = handles \/ /\ handles' = [handles EXCEPT ![a] = NoConn]
                                /\ handles[a] # NoConn => conn[handles[a]].state # "serving"
      BY <1>9, <1>e DEF LoseReply
    <2> QED
      BY <1>c, <1>4, <1>9, <2>1 DEF LoseReply
  <1>10. ASSUME NEW pc \in UsePcs \cup {"idle"}, NEW cmd \in {t, NoTask},
                task[t].pc \in UsePcs, c \in Conns, conn[c].state = "serving",
                task'[t].pc = pc, pc = "idle" \/ (task'[t].conn = c /\ task'[t].agent = a),
                \A u \in Tasks \ {t} : task'[u] = task[u],
                conn' = [conn EXCEPT ![c].cmd = cmd], conn[c].cmd \in {t, NoTask},
                cmd = t => pc = "exec" /\ connections[a] = c /\ a \notin writers,
                UNCHANGED <<connections, writers, handles, initLock, mut>>
         PROVE  PlacePart'
    <2>1. /\ conn'[c].state = conn[c].state /\ conn'[c].agent = conn[c].agent
          /\ conn'[c].from = conn[c].from /\ conn'[c].cmd = cmd
          /\ \A d \in Conns \ {c} : conn'[d] = conn[d]
      BY <1>0, <1>10, CmdFacts
    <2>2. \A d \in Conns : /\ conn'[d].state = conn[d].state /\ conn'[d].agent = conn[d].agent
                           /\ conn'[d].from = conn[d].from
      BY <2>1
    <2>3. conn[c].agent = a
      BY <1>0, <1>10 DEF PlacePart, TaskPlaced
    <2> HIDE DEF a, c
    <2>4. TaskPlaced'
      BY <1>0, <1>10, <2>2 DEF PlacePart, TaskPlaced, InitPcs, UsePcs, a, c
    <2>5. HandlePlaced' /\ ConnectionPlaced'
      BY <1>0, <1>10, <2>2 DEF PlacePart, HandlePlaced, ConnectionPlaced
    <2>6. CommandPlaced'
      <3> SUFFICES ASSUME NEW d \in Conns, conn'[d].cmd # NoTask
                   PROVE  /\ conn'[d].state = "serving" /\ task'[conn'[d].cmd].pc = "exec"
                          /\ task'[conn'[d].cmd].conn = d
        BY DEF CommandPlaced
      <3>1. CASE d = c
        BY <1>10, <2>1, <3>1
      <3>2. CASE d # c
        BY <1>0, <1>10, <2>1, <3>2 DEF PlacePart, CommandPlaced, c
      <3> QED
        BY <3>1, <3>2
    <2>7. CommandsCurrent' /\ WritersQuiet'
      BY <1>0, <1>10, <2>1, <2>3 DEF PlacePart, CommandsCurrent, WritersQuiet
    <2>8. UsedIsHandle'
      BY <1>0, <1>10, <2>2 DEF PlacePart, UsedIsHandle, UsePcs, TaskPlaced, a, c
    <2>9. MutationHolds'
      BY <1>0, <1>10 DEF PlacePart, MutationHolds
    <2> QED
      BY <2>4, <2>5, <2>6, <2>7, <2>8, <2>9 DEF PlacePart
  <1>11. CASE StartCommand(t)
    <2>1. task[t].pc = "queued" /\ conn[c].state = "serving" /\ c \in Conns /\ conn[c].agent = a
      BY <1>0, <1>11 DEF StartCommand, PlacePart, TaskPlaced, UsePcs
    <2>2. CASE LeaseGranted(c)
      <3>1. /\ task'[t].pc = "exec" /\ task'[t].conn = c /\ task'[t].agent = a
            /\ \A u \in Tasks \ {t} : task'[u] = task[u]
        BY <1>0, <1>11, <2>2, GotoFacts DEF StartCommand
      <3> QED
        BY <1>10, <1>11, <2>1, <2>2, <3>1 DEF StartCommand, LeaseGranted, UsePcs
    <2>3. CASE ~LeaseGranted(c)
      BY <1>c, <1>4, <1>11, <2>1, <2>3 DEF StartCommand
    <2> QED
      BY <2>2, <2>3
  <1>12. CASE EndCommand(t)
    <2>1. task[t].pc = "exec" /\ c \in Conns /\ conn[c].cmd = t /\ conn[c].state = "serving"
      BY <1>0, <1>12 DEF EndCommand, PlacePart, TaskPlaced, CommandPlaced, UsePcs
    <2>2. /\ \A u \in Tasks \ {t} : task'[u] = task[u]
          /\ task'[t].pc = "idle" \/ (task'[t].pc = "send" /\ task'[t].conn = c /\ task'[t].agent = a)
      BY <1>0, <1>12, GotoFacts, EndFacts DEF EndCommand
    <2>3. /\ conn' = [conn EXCEPT ![c].cmd = NoTask]
          /\ UNCHANGED <<connections, writers, handles, initLock, mut>>
      BY <1>12 DEF EndCommand
    <2>4. NoTask # t
      BY <1>0
    <2>5. CASE task'[t].pc = "idle"
      BY <1>10, <2>1, <2>2, <2>3, <2>4, <2>5 DEF UsePcs
    <2>6. CASE task'[t].pc = "send" /\ task'[t].conn = c /\ task'[t].agent = a
      BY <1>10, <2>1, <2>2, <2>3, <2>4, <2>6 DEF UsePcs
    <2> QED
      BY <2>2, <2>5, <2>6
  <1>13. CASE AbortRequest(t)
    <2>1. mut'.pc = mut.pc /\ mut'.affected = mut.affected /\ mut'.live = mut.live
      BY <1>0, <1>13 DEF AbortRequest, MutRows
    <2> QED
      BY <1>c, <1>4, <1>13, <2>1 DEF AbortRequest
  <1> QED
    BY <1>1, <1>2, <1>3, <1>5, <1>6, <1>8, <1>9, <1>11, <1>12, <1>13 DEF RequestStep, AgentStep

\* A connection changes its state and perhaps who is accepted for its agent, at
\* a moment when no command of the agent runs.
LEMMA ConnFrame ==
  ASSUME PlaceInv, NEW c \in Conns, UNCHANGED <<task, handles, initLock, writers, mut>>,
         conn'[c].agent = conn[c].agent, conn'[c].from = conn[c].from,
         conn'[c].cmd \in {conn[c].cmd, NoTask},
         conn[c].state = "serving" => conn'[c].cmd = NoTask,
         \A d \in Conns \ {c} : conn'[d] = conn[d],
         conn'[c].state # "serving",
         conn[c].state \in LateStates => conn'[c].state \in LateStates,
         \A b \in Agents \ {conn[c].agent} : connections'[b] = connections[b],
         \/ connections'[conn[c].agent] = connections[conn[c].agent]
         \/ /\ connections'[conn[c].agent] \in {c, NoConn}
            /\ \A d \in Conns : conn[d].agent = conn[c].agent => conn[d].cmd = NoTask,
         connections'[conn[c].agent] = c => conn'[c].state \in {"configured", "closing", "revoking"}
  PROVE  PlacePart'
  <1>0. /\ task \in [Tasks -> TaskRows] /\ conn \in [Conns -> ConnRows] /\ mut \in MutRows
        /\ handles \in [Agents -> Conns \cup {NoConn}]
        /\ connections \in [Agents -> Conns \cup {NoConn}]
        /\ NoConn \notin Conns /\ NoTask \notin Tasks
        /\ \A u \in Tasks : task[u].agent \in Agents /\ task[u].conn \in Conns \cup {NoConn}
        /\ \A d \in Conns : conn[d].cmd \in Tasks \cup {NoTask} /\ conn[d].agent \in Agents
        /\ PlacePart
    BY PlaceTypes
  <1>1. \A d \in Conns : /\ conn'[d].agent = conn[d].agent /\ conn'[d].from = conn[d].from
                         /\ conn'[d].cmd \in {conn[d].cmd, NoTask}
                         /\ conn[d].state \in LateStates => conn'[d].state \in LateStates
                         /\ conn'[d].state = "serving" => d # c /\ conn[d].state = "serving"
    OBVIOUS
  <1>2. TaskPlaced'
    BY <1>0, <1>1 DEF PlacePart, TaskPlaced, InitPcs, UsePcs
  <1>3. HandlePlaced'
    BY <1>0, <1>1 DEF PlacePart, HandlePlaced
  <1>4. ConnectionPlaced'
    <2> SUFFICES ASSUME NEW b \in Agents, connections'[b] # NoConn
                 PROVE  /\ conn'[connections'[b]].agent = b
                        /\ conn'[connections'[b]].state \in {"configured", "serving", "closing", "revoking"}
      BY DEF ConnectionPlaced
    <2>1. CASE b = conn[c].agent
      <3>1. CASE connections'[b] = c
        BY <2>1, <3>1
      <3>2. CASE connections'[b] # c
        <4>1. connections'[b] = connections[b]
          BY <2>1, <3>2
        <4> QED
          BY <1>0, <1>1, <3>2, <4>1 DEF PlacePart, ConnectionPlaced
      <3> QED
        BY <3>1, <3>2
    <2>2. CASE b # conn[c].agent
      BY <1>0, <1>1, <2>2 DEF PlacePart, ConnectionPlaced
    <2> QED
      BY <2>1, <2>2
  <1>5. CommandPlaced'
    BY <1>0 DEF PlacePart, CommandPlaced
  <1>6. CommandsCurrent'
    <2> SUFFICES ASSUME NEW d \in Conns, conn'[d].cmd # NoTask PROVE connections'[conn[d].agent] = d
      BY <1>1 DEF CommandsCurrent
    <2>1. conn[d].cmd # NoTask /\ connections[conn[d].agent] = d
      BY <1>0, <1>1 DEF PlacePart, CommandsCurrent
    <2>2. CASE conn[d].agent = conn[c].agent
      BY <2>1, <2>2
    <2>3. CASE conn[d].agent # conn[c].agent
      BY <1>0, <2>1, <2>3
    <2> QED
      BY <2>2, <2>3
  <1>7. UsedIsHandle'
    <2> SUFFICES ASSUME NEW u \in Tasks, task[u].pc \in UsePcs, conn'[task[u].conn].state = "serving",
                        connections'[task[u].agent] = task[u].conn
                 PROVE  handles[task[u].agent] = task[u].conn
      BY DEF UsedIsHandle
    <2>1. task[u].conn \in Conns /\ task[u].agent \in Agents
      BY <1>0 DEF PlacePart, TaskPlaced
    <2>2. task[u].conn # c /\ conn[task[u].conn].state = "serving"
      BY <1>1, <2>1
    <2>3. connections[task[u].agent] = task[u].conn
      <3>1. CASE task[u].agent = conn[c].agent
        BY <1>0, <2>1, <2>2, <3>1
      <3>2. CASE task[u].agent # conn[c].agent
        BY <2>1, <3>2
      <3> QED
        BY <3>1, <3>2
    <2> QED
      BY <1>0, <2>2, <2>3 DEF PlacePart, UsedIsHandle
  <1>8. WritersQuiet'
    BY <1>0, <1>1 DEF PlacePart, WritersQuiet
  <1>9. MutationHolds'
    BY <1>0 DEF PlacePart, MutationHolds
  <1> QED
    BY <1>2, <1>3, <1>4, <1>5, <1>6, <1>7, <1>8, <1>9 DEF PlacePart

\* The steps of a connection and of the agent behind it keep everything in its
\* place.
LEMMA PlaceConns ==
  ASSUME PlaceInv, NEW c \in Conns, ConnectionStep(c) \/ PeerStep(c)
  PROVE  PlacePart'
  <1> DEFINE a == conn[c].agent
  <1>0. /\ task \in [Tasks -> TaskRows] /\ conn \in [Conns -> ConnRows] /\ mut \in MutRows
        /\ handles \in [Agents -> Conns \cup {NoConn}]
        /\ connections \in [Agents -> Conns \cup {NoConn}]
        /\ NoConn \notin Conns /\ NoTask \notin Tasks
        /\ a \in Agents
        /\ \A u \in Tasks : task[u].agent \in Agents /\ task[u].conn \in Conns \cup {NoConn}
        /\ \A d \in Conns : conn[d].cmd \in Tasks \cup {NoTask} /\ conn[d].agent \in Agents
        /\ PlacePart
    BY PlaceTypes
  <1>1. CASE JoinGate(c)
    <2>1. /\ conn[c].state = "spawned" /\ UNCHANGED <<task, handles, initLock, writers, mut, connections>>
          /\ Become(c, "waiting")
      BY <1>1 DEF JoinGate
    <2>2. /\ conn'[c].state = "waiting" /\ conn'[c].agent = conn[c].agent
          /\ conn'[c].from = conn[c].from /\ conn'[c].cmd = conn[c].cmd
          /\ \A d \in Conns \ {c} : conn'[d] = conn[d]
      BY <1>0, <2>1, ConnFacts
    <2>3. connections[a] # c
      BY <1>0, <2>1 DEF PlacePart, ConnectionPlaced
    <2> QED
      BY <2>1, <2>2, <2>3, ConnFrame DEF LateStates
  <1>2. CASE Configure(c)
    <2>1. /\ conn[c].state = "waiting" /\ UNCHANGED <<task, handles, initLock, writers, mut>>
          /\ Become(c, "configured") /\ connections' = [connections EXCEPT ![a] = c]
          /\ \A d \in Conns : conn[d].agent = a => conn[d].cmd = NoTask
      BY <1>2 DEF Configure, Granted, GateIdle
    <2>2. /\ conn'[c].state = "configured" /\ conn'[c].agent = conn[c].agent
          /\ conn'[c].from = conn[c].from /\ conn'[c].cmd = conn[c].cmd
          /\ \A d \in Conns \ {c} : conn'[d] = conn[d]
      BY <1>0, <2>1, ConnFacts
    <2>3. connections'[a] = c /\ \A b \in Agents \ {a} : connections'[b] = connections[b]
      BY <1>0, <2>1
    <2> QED
      BY <2>1, <2>2, <2>3, ConnFrame DEF LateStates
  <1>3. CASE BeginRevoke(c)
    <2>1. /\ conn[c].state = "closing" /\ UNCHANGED <<task, handles, initLock, writers, mut, connections>>
          /\ Become(c, IF connections[a] = c THEN "revoking" ELSE "closed")
      BY <1>3 DEF BeginRevoke
    <2>2. /\ conn'[c].state = (IF connections[a] = c THEN "revoking" ELSE "closed")
          /\ conn'[c].agent = conn[c].agent
          /\ conn'[c].from = conn[c].from /\ conn'[c].cmd = conn[c].cmd
          /\ \A d \in Conns \ {c} : conn'[d] = conn[d]
      BY <1>0, <2>1, ConnFacts
    <2>3. conn[c].cmd = NoTask
      BY <1>0, <2>1 DEF PlacePart, CommandPlaced
    <2>4. connections'[conn[c].agent] = connections[conn[c].agent]
          /\ \A b \in Agents \ {conn[c].agent} : connections'[b] = connections[b]
      BY <2>1
    <2>5. conn'[c].state # "serving" /\ conn'[c].state \in LateStates
          /\ (connections'[conn[c].agent] = c => conn'[c].state \in {"configured", "closing", "revoking"})
      BY <2>2, <2>4 DEF LateStates
    <2> QED
      BY <2>1, <2>2, <2>3, <2>4, <2>5, ConnFrame
  <1>4. CASE EndRevoke(c)
    <2>1. /\ conn[c].state = "revoking" /\ UNCHANGED <<task, handles, initLock, writers, mut>>
          /\ Become(c, "closed") /\ connections' = [connections EXCEPT ![a] = Revoked(c)]
          /\ \A d \in Conns : conn[d].agent = a => conn[d].cmd = NoTask
      BY <1>4 DEF EndRevoke, Granted, GateIdle
    <2>2. /\ conn'[c].state = "closed" /\ conn'[c].agent = conn[c].agent
          /\ conn'[c].from = conn[c].from /\ conn'[c].cmd = conn[c].cmd
          /\ \A d \in Conns \ {c} : conn'[d] = conn[d]
      BY <1>0, <2>1, ConnFacts
    <2>3. /\ connections'[a] \in {connections[a], NoConn} /\ connections'[a] # c
          /\ \A b \in Agents \ {a} : connections'[b] = connections[b]
      BY <1>0, <2>1 DEF Revoked
    <2> QED
      BY <2>1, <2>2, <2>3, ConnFrame DEF LateStates
  <1>5. CASE Initialized(c)
    <2>1. PICK t \in Tasks : task[t].pc = "init" /\ task[t].conn = c /\ Goto(t, "publish")
      BY <1>5 DEF Initialized, At
    <2>2. /\ conn[c].state = "configured" /\ UNCHANGED <<handles, initLock, writers, mut, connections>>
          /\ Become(c, "serving")
      BY <1>5 DEF Initialized
    <2>3. /\ conn'[c].state = "serving" /\ conn'[c].agent = conn[c].agent
          /\ conn'[c].from = conn[c].from /\ conn'[c].cmd = conn[c].cmd
          /\ \A d \in Conns \ {c} : conn'[d] = conn[d]
      BY <1>0, <2>2, ConnFacts
    <2>4. /\ task'[t].pc = "publish" /\ task'[t].conn = c /\ task'[t].agent = task[t].agent
          /\ \A u \in Tasks \ {t} : task'[u] = task[u]
      BY <1>0, <2>1, GotoFacts
    <2>5. /\ \A d \in Conns : /\ conn'[d].agent = conn[d].agent /\ conn'[d].from = conn[d].from
                              /\ conn'[d].cmd = conn[d].cmd
                              /\ conn[d].state \in LateStates => conn'[d].state \in LateStates
          /\ conn[c].cmd = NoTask
          /\ \A u \in Tasks : task[u].pc \in UsePcs \cup {"publish"} => task[u].conn # c
      BY <1>0, <2>2, <2>3 DEF PlacePart, CommandPlaced, TaskPlaced, LateStates
    <2> HIDE DEF a
    <2>6. TaskPlaced'
      <3> SUFFICES ASSUME NEW u \in Tasks
                   PROVE  /\ task'[u].pc \in InitPcs \cup UsePcs =>
                               /\ task'[u].conn \in Conns /\ conn'[task'[u].conn].agent = task'[u].agent
                               /\ conn'[task'[u].conn].from.conf # NoConf
                          /\ task'[u].pc \in InitPcs => initLock[task'[u].agent] = u /\ handles[task'[u].agent] = NoConn
                          /\ task'[u].pc \in UsePcs \cup {"publish"} => conn'[task'[u].conn].state \in LateStates
        BY <2>2 DEF TaskPlaced
      <3>1. CASE u = t
        BY <1>0, <2>1, <2>3, <2>4, <3>1 DEF PlacePart, TaskPlaced, InitPcs, LateStates
      <3>2. CASE u # t
        BY <1>0, <2>4, <2>5, <3>2 DEF PlacePart, TaskPlaced, InitPcs
      <3> QED
        BY <3>1, <3>2
    <2>7. HandlePlaced' /\ CommandsCurrent' /\ WritersQuiet'
      BY <1>0, <2>2, <2>5 DEF PlacePart, HandlePlaced, CommandsCurrent, WritersQuiet
    <2>8. ConnectionPlaced'
      BY <1>0, <2>2, <2>3 DEF PlacePart, ConnectionPlaced
    <2>9. CommandPlaced'
      BY <1>0, <2>1, <2>3, <2>4, <2>5 DEF PlacePart, CommandPlaced
    <2>10. UsedIsHandle'
      BY <1>0, <2>2, <2>3, <2>4, <2>5 DEF PlacePart, TaskPlaced, UsedIsHandle, UsePcs
    <2>11. MutationHolds'
      BY <1>0, <2>2 DEF PlacePart, MutationHolds
    <2> QED
      BY <2>6, <2>7, <2>8, <2>9, <2>10, <2>11 DEF PlacePart
  <1>6. CASE Disconnect(c)
    <2>1. /\ conn[c].state \in {"configured", "serving"}
          /\ UNCHANGED <<task, handles, initLock, writers, mut, connections>>
      BY <1>6 DEF Disconnect
    <2>2. /\ conn'[c].state = "closing" /\ conn'[c].agent = conn[c].agent
          /\ conn'[c].from = conn[c].from /\ conn'[c].cmd = NoTask
          /\ \A d \in Conns \ {c} : conn'[d] = conn[d]
      BY <1>0, <1>6, DisconnectFacts
    <2> QED
      BY <2>1, <2>2, ConnFrame DEF LateStates
  <1>7. CASE StartCallback(c) \/ EndCallback(c)
    <2>1. UNCHANGED <<task, handles, initLock, writers, mut, connections, conn>>
      BY <1>7 DEF StartCallback, EndCallback
    <2> QED
      BY <1>0, <2>1 DEF PlacePart, TaskPlaced, HandlePlaced, ConnectionPlaced, CommandPlaced, CommandsCurrent,
                        UsedIsHandle, WritersQuiet, MutationHolds
  <1> QED
    BY <1>1, <1>2, <1>3, <1>4, <1>5, <1>6, <1>7 DEF ConnectionStep, PeerStep

\* How a mutation moves.
LEMMA MutFacts ==
  ASSUME mut \in MutRows, NEW pc, mut' = [mut EXCEPT !.pc = pc]
  PROVE  mut'.pc = pc /\ mut'.affected = mut.affected /\ mut'.live = mut.live /\ mut'.cut = mut.cut
         /\ mut'.next = mut.next
  BY DEF MutRows

\* A mutation that saved the file goes on as before.
LEMMA SaveFacts ==
  ASSUME mut \in MutRows, SaveRegistry
  PROVE  /\ mut.pc = "save" /\ mut'.pc = "verify" /\ mut'.affected = mut.affected /\ mut'.live = mut.live
         /\ mut'.cut = mut.cut /\ mut'.next = mut.next
         /\ UNCHANGED <<registry, fingerprint, epoch, handles, initLock, connections, conn, queue, inbound,
                        writers, task>>
  <1>1. \E ok \in BOOLEAN : mut' = [mut EXCEPT !.pc = "verify", !.saved = ok]
    BY DEF SaveRegistry
  <1> QED
    BY <1>1 DEF SaveRegistry, MutRows, connVars

\* A mutation looks at the live handles.
LEMMA LiveFacts ==
  ASSUME mut \in MutRows, NEW live, mut' = [mut EXCEPT !.pc = "writers", !.live = live]
  PROVE  mut'.pc = "writers" /\ mut'.affected = mut.affected /\ mut'.live = live /\ mut'.cut = mut.cut
         /\ mut'.next = mut.next
  BY DEF MutRows

\* When it gives its guards back, only locks of its own are released.
LEMMA ReleaseFacts ==
  ASSUME initLock \in [Agents -> Tasks \cup {NoTask, Mutator}], Mutator \notin Tasks, ReleaseGuards
  PROVE  /\ writers' = {}
         /\ \A a \in Agents, t \in Tasks : initLock[a] = t => initLock'[a] = t
  BY DEF ReleaseGuards

\* A mutation changes locks and guards, and requests do not notice.
LEMMA MutationFrame ==
  ASSUME PlaceInv, UNCHANGED <<task, conn>>,
         \A a \in Agents, t \in Tasks : initLock[a] = t => initLock'[a] = t,
         \A a \in Agents : \/ handles'[a] = handles[a] /\ connections'[a] = connections[a]
                           \/ /\ handles'[a] = NoConn /\ connections'[a] = NoConn
                              /\ \A c \in Conns : conn[c].agent = a => conn[c].cmd = NoTask,
         WritersQuiet', MutationHolds'
  PROVE  PlacePart'
  <1>0. /\ task \in [Tasks -> TaskRows] /\ conn \in [Conns -> ConnRows] /\ mut \in MutRows
        /\ handles \in [Agents -> Conns \cup {NoConn}]
        /\ connections \in [Agents -> Conns \cup {NoConn}]
        /\ NoConn \notin Conns /\ NoTask \notin Tasks
        /\ \A u \in Tasks : task[u].agent \in Agents /\ task[u].conn \in Conns \cup {NoConn}
        /\ \A d \in Conns : conn[d].cmd \in Tasks \cup {NoTask} /\ conn[d].agent \in Agents
        /\ PlacePart
    BY PlaceTypes
  <1>1. TaskPlaced'
    BY <1>0 DEF PlacePart, TaskPlaced, InitPcs, UsePcs
  <1>2. HandlePlaced' /\ ConnectionPlaced'
    BY <1>0 DEF PlacePart, HandlePlaced, ConnectionPlaced
  <1>3. CommandPlaced' /\ CommandsCurrent'
    BY <1>0 DEF PlacePart, CommandPlaced, CommandsCurrent
  <1>4. UsedIsHandle'
    BY <1>0 DEF PlacePart, UsedIsHandle, TaskPlaced
  <1> QED
    BY <1>1, <1>2, <1>3, <1>4 DEF PlacePart

\* The agents a mutation replaces run no command from the moment it has the
\* writers of the live ones: the others have no handle a command could use.
LEMMA AffectedQuiet ==
  ASSUME PlaceInv, mut.pc \in {"save", "verify", "teardown"}, NEW c \in Conns, conn[c].agent \in mut.affected
  PROVE  conn[c].cmd = NoTask
  <1>0. /\ conn \in [Conns -> ConnRows] /\ task \in [Tasks -> TaskRows] /\ NoTask \notin Tasks
        /\ NoConn \notin Conns /\ conn[c].cmd \in Tasks \cup {NoTask} /\ conn[c].agent \in Agents
        /\ PlacePart
    BY PlaceTypes
  <1>1. CASE conn[c].agent \in mut.live
    BY <1>0, <1>1 DEF PlacePart, MutationHolds, WritersQuiet
  <1>2. CASE conn[c].agent \notin mut.live
    <2>1. handles[conn[c].agent] = NoConn
      BY <1>0, <1>2 DEF PlacePart, MutationHolds
    <2> SUFFICES ASSUME conn[c].cmd # NoTask PROVE FALSE
      OBVIOUS
    <2> DEFINE t == conn[c].cmd
    <2>2. t \in Tasks /\ conn[c].state = "serving" /\ task[t].pc = "exec" /\ task[t].conn = c
          /\ connections[conn[c].agent] = c
      BY <1>0 DEF PlacePart, CommandPlaced, CommandsCurrent
    <2>3. task[t].agent = conn[c].agent
      BY <1>0, <2>2 DEF PlacePart, TaskPlaced, UsePcs
    <2> QED
      BY <1>0, <2>1, <2>2, <2>3 DEF PlacePart, UsedIsHandle, UsePcs
  <1> QED
    BY <1>1, <1>2

\* The steps of a mutation keep everything in its place.
LEMMA PlaceMutation ==
  ASSUME PlaceInv, BeginMutation \/ MutationStep \/ AbortTeardown
  PROVE  PlacePart'
  <1> USE DEF connVars, regVars
  <1>0. /\ task \in [Tasks -> TaskRows] /\ conn \in [Conns -> ConnRows] /\ mut \in MutRows
        /\ handles \in [Agents -> Conns \cup {NoConn}]
        /\ connections \in [Agents -> Conns \cup {NoConn}]
        /\ initLock \in [Agents -> Tasks \cup {NoTask, Mutator}]
        /\ mut.affected \subseteq Agents /\ mut.live \subseteq Agents
        /\ NoConn \notin Conns /\ NoTask \notin Tasks /\ Mutator \notin Tasks /\ Mutator # NoTask
        /\ \A d \in Conns : conn[d].cmd \in Tasks \cup {NoTask} /\ conn[d].agent \in Agents
        /\ PlacePart
    BY PlaceTypes DEF MutRows
  <1>1. CASE BeginMutation
    <2>1. mut'.pc = "locks" /\ UNCHANGED <<handles, initLock, connections, conn, writers, task>>
      BY <1>1 DEF BeginMutation
    <2>2. WritersQuiet' /\ MutationHolds'
      BY <1>0, <2>1 DEF PlacePart, WritersQuiet, MutationHolds
    <2> QED
      BY <2>1, <2>2, MutationFrame
  <1>2. CASE TakeInitLocks
    <2>1. mut.pc = "locks" /\ UNCHANGED <<handles, connections, conn, writers, task>>
      BY <1>2 DEF TakeInitLocks
    <2>2. \A a \in Agents, t \in Tasks : initLock[a] = t => initLock'[a] = t
      BY <1>0, <1>2 DEF TakeInitLocks
    <2>3. WritersQuiet'
      BY <1>0, <2>1 DEF PlacePart, WritersQuiet
    <2>4. MutationHolds'
      <3>1. CASE UNCHANGED mut
        BY <1>0, <2>1, <3>1 DEF PlacePart, MutationHolds
      <3>2. CASE /\ \A a \in mut.affected : initLock[a] = Mutator
                 /\ mut' = [mut EXCEPT !.pc = "writers", !.live = {a \in mut.affected : handles[a] # NoConn}]
                 /\ UNCHANGED initLock
        <4>1. mut'.pc = "writers" /\ mut'.affected = mut.affected
              /\ mut'.live = {a \in mut.affected : handles[a] # NoConn}
          BY <1>0, <3>2, LiveFacts
        <4> QED
          BY <2>1, <3>2, <4>1 DEF MutationHolds
      <3> QED
        BY <1>2, <3>1, <3>2 DEF TakeInitLocks
    <2> QED
      BY <2>1, <2>2, <2>3, <2>4, MutationFrame
  <1>3. CASE TakeWriters
    <2>1. mut.pc = "writers" /\ UNCHANGED <<handles, initLock, connections, conn, task>>
      BY <1>3 DEF TakeWriters
    <2>2. WritersQuiet'
      BY <1>0, <1>3 DEF TakeWriters, WriterFree, GateIdle, PlacePart, WritersQuiet
    <2>3. MutationHolds'
      <3>1. CASE UNCHANGED mut
        BY <1>0, <2>1, <3>1 DEF PlacePart, MutationHolds
      <3>2. CASE mut.live \subseteq writers /\ mut' = [mut EXCEPT !.pc = "save"] /\ UNCHANGED writers
        <4>1. mut'.pc = "save" /\ mut'.affected = mut.affected /\ mut'.live = mut.live
          BY <1>0, <3>2, MutFacts
        <4> QED
          BY <1>0, <2>1, <3>2, <4>1 DEF PlacePart, MutationHolds
      <3> QED
        BY <1>3, <3>1, <3>2 DEF TakeWriters
    <2> QED
      BY <2>1, <2>2, <2>3, MutationFrame
  <1>4. ASSUME mut'.pc = "idle", ReleaseGuards
        PROVE  /\ WritersQuiet' /\ MutationHolds'
               /\ \A a \in Agents, t \in Tasks : initLock[a] = t => initLock'[a] = t
    <2>1. writers' = {} /\ \A a \in Agents, t \in Tasks : initLock[a] = t => initLock'[a] = t
      BY <1>0, <1>4, ReleaseFacts
    <2> QED
      BY <1>4, <2>1 DEF WritersQuiet, MutationHolds
  <1>5. CASE GiveUp
    <2>1. mut'.pc = "idle" /\ ReleaseGuards /\ UNCHANGED <<handles, connections, conn, task>>
      BY <1>5 DEF GiveUp, EndMutation, NoMutation
    <2> QED
      BY <1>4, <2>1, MutationFrame
  <1>6. CASE SaveRegistry
    <2>1. /\ mut.pc = "save" /\ mut'.pc = "verify" /\ mut'.affected = mut.affected /\ mut'.live = mut.live
          /\ UNCHANGED <<handles, initLock, connections, conn, writers, task>>
      BY <1>0, <1>6, SaveFacts
    <2>2. WritersQuiet' /\ MutationHolds'
      BY <1>0, <2>1 DEF PlacePart, WritersQuiet, MutationHolds
    <2> QED
      BY <2>1, <2>2, MutationFrame
  <1>7. CASE PublishRegistry
    <2>1. mut.pc = "verify" /\ UNCHANGED <<handles, connections, conn, task>>
      BY <1>7 DEF PublishRegistry
    <2>2. CASE mut' = [mut EXCEPT !.pc = "teardown"] /\ UNCHANGED <<initLock, writers>>
      <3>1. mut'.pc = "teardown" /\ mut'.affected = mut.affected /\ mut'.live = mut.live
        BY <1>0, <2>2, MutFacts
      <3>2. WritersQuiet' /\ MutationHolds'
        BY <1>0, <2>1, <2>2, <3>1 DEF PlacePart, WritersQuiet, MutationHolds
      <3> QED
        BY <2>1, <2>2, <3>2, MutationFrame
    <2>3. CASE EndMutation
      <3>1. mut'.pc = "idle" /\ ReleaseGuards
        BY <2>3 DEF EndMutation, NoMutation
      <3> QED
        BY <1>4, <2>1, <3>1, MutationFrame
    <2> QED
      BY <1>7, <2>2, <2>3 DEF PublishRegistry
  <1>8. CASE Teardown
    <2>1. /\ mut.pc = "teardown" /\ mut'.pc = "idle" /\ ReleaseGuards /\ UNCHANGED <<conn, task>>
          /\ \A a \in Agents : \/ handles'[a] = handles[a] /\ connections'[a] = connections[a]
                               \/ a \in mut.affected /\ handles'[a] = NoConn /\ connections'[a] = NoConn
      BY <1>8 DEF Teardown, EndMutation, NoMutation
    <2>2. \A c \in Conns : conn[c].agent \in mut.affected => conn[c].cmd = NoTask
      BY <2>1, AffectedQuiet
    <2> QED
      BY <1>4, <2>1, <2>2, MutationFrame
  <1>9. CASE AbortTeardown
    <2>1. mut'.pc = "idle" /\ ReleaseGuards /\ UNCHANGED <<handles, connections, conn, task>>
      BY <1>9 DEF AbortTeardown, NoMutation
    <2> QED
      BY <1>4, <2>1, MutationFrame
  <1> QED
    BY <1>1, <1>2, <1>3, <1>5, <1>6, <1>7, <1>8, <1>9 DEF MutationStep

\* Everything starts and stays in its place.
LEMMA PlaceInductive ==
  /\ Init => PlaceInv
  /\ PlaceInv /\ [Next]_vars => PlaceInv'
  <1>1. ASSUME Init PROVE PlaceInv
    <2>1. /\ \A t \in Tasks : task[t].pc = "idle"
          /\ \A c \in Conns : conn[c].cmd = NoTask
          /\ \A a \in Agents : handles[a] = NoConn /\ connections[a] = NoConn
          /\ mut.pc = "idle"
      BY <1>1 DEF Init, IdleTask, Request, Unused, NoMutation
    <2> QED
      BY <1>1, <2>1, TypeInit DEF PlaceInv, PlacePart, TaskPlaced, HandlePlaced, ConnectionPlaced, CommandPlaced,
         CommandsCurrent, UsedIsHandle, WritersQuiet, MutationHolds, InitPcs, UsePcs
  <1>2. ASSUME PlaceInv, [Next]_vars PROVE PlaceInv'
    <2>1. RegTypeOK'
      BY <1>2, TypeInductive DEF PlaceInv
    <2>2. task' \in [Tasks -> TaskRows]
      BY <2>1 DEF RegTypeOK, TaskRows
    <2>3. CASE UNCHANGED vars
      BY <1>2, <2>1, <2>3 DEF vars, PlaceInv, PlacePart, TaskPlaced, HandlePlaced, ConnectionPlaced, CommandPlaced,
         CommandsCurrent, UsedIsHandle, WritersQuiet, MutationHolds
    <2>4. CASE Next
      <3>1. PlacePart'
        BY <1>2, <2>2, <2>4, PlaceTasks, PlaceConns, PlaceMutation DEF Next
      <3> QED
        BY <2>1, <3>1 DEF PlaceInv
    <2> QED
      BY <1>2, <2>3, <2>4
  <1> QED
    BY <1>1, <1>2

\* Commands only run on the connection the callback context accepts: a replaced
\* connection never works on in the background (callbacks/connection.rs,
\* acp.rs run_command_loop), whoever is lost meanwhile.
THEOREM CommandsOnAcceptedConnection == Spec => []CommandsCurrent
  <1>1. PlaceInv => CommandsCurrent
    BY DEF PlaceInv, PlacePart
  <1> QED
    BY <1>1, PlaceInductive, PTL DEF Spec

-----------------------------------------------------------------------------
(* What a mutation replaces, and what a handle was built from. *)

\* A mutation affects what differs between the registry and the one it brings.
LEMMA AffectsInductive ==
  /\ Init => MutationAffects
  /\ RegTypeOK /\ MutationAffects /\ [Next]_vars => MutationAffects'
  <1>1. Init => MutationAffects
    BY DEF Init, MutationAffects, NoMutation
  <1>2. ASSUME RegTypeOK, MutationAffects, [Next]_vars PROVE MutationAffects'
    <2>0. mut \in MutRows
      BY <1>2, TypeParts DEF Rows
    <2>1. CASE BeginMutation
      <3>1. PICK next \in Mutations(registry) :
              mut' = [pc |-> "locks", next |-> next, affected |-> AffectedAgents(registry, next), live |-> {},
                      saved |-> TRUE, count |-> mut.count + 1, cut |-> mut.cut]
        BY <2>1 DEF BeginMutation
      <3>2. UNCHANGED registry
        BY <2>1 DEF BeginMutation, regVars
      <3>3. mut'.next = next /\ mut'.affected = AffectedAgents(registry, next)
        BY <3>1
      <3> QED
        BY <3>2, <3>3 DEF MutationAffects, AffectedAgents
    <2>2. CASE TakeInitLocks
      <3>1. /\ mut.pc = "locks" /\ UNCHANGED registry
            /\ mut'.next = mut.next /\ mut'.affected = mut.affected
        BY <2>0, <2>2, LiveFacts DEF TakeInitLocks, regVars
      <3> QED
        BY <1>2, <3>1 DEF MutationAffects, AffectedAgents
    <2>3. CASE TakeWriters
      <3>1. /\ mut.pc = "writers" /\ UNCHANGED registry
            /\ mut'.next = mut.next /\ mut'.affected = mut.affected
        BY <2>0, <2>3, MutFacts DEF TakeWriters, regVars
      <3> QED
        BY <1>2, <3>1 DEF MutationAffects, AffectedAgents
    <2>4. CASE SaveRegistry
      <3>1. /\ mut.pc = "save" /\ UNCHANGED registry
            /\ mut'.next = mut.next /\ mut'.affected = mut.affected
        BY <2>0, <2>4, SaveFacts
      <3> QED
        BY <1>2, <3>1 DEF MutationAffects, AffectedAgents
    <2>5. CASE GiveUp \/ PublishRegistry \/ Teardown \/ AbortTeardown
      <3>1. mut'.pc \in {"idle", "teardown"}
        BY <1>2, <2>0, <2>5, EndFields, MutFacts DEF GiveUp, PublishRegistry, Teardown, AbortTeardown, NoMutation
      <3> QED
        BY <3>1 DEF MutationAffects
    <2>6. CASE /\ UNCHANGED registry
               /\ mut'.pc = mut.pc /\ mut'.next = mut.next /\ mut'.affected = mut.affected
      BY <1>2, <2>6 DEF MutationAffects, AffectedAgents
    <2>7. CASE UNCHANGED <<registry, mut>>
      BY <1>2, <2>7 DEF MutationAffects, AffectedAgents
    <2> QED
      BY <1>2, <2>1, <2>2, <2>3, <2>4, <2>5, <2>6, <2>7, OtherSteps DEF MutationStep
  <1> QED
    BY <1>1, <1>2

\* Only the publication of a mutation changes the registry and the epoch.
LEMMA RegistryChanges ==
  ASSUME RegTypeOK, [Next]_vars
  PROVE  \/ UNCHANGED <<registry, epoch>>
         \/ /\ mut.pc = "verify" /\ registry' = mut.next /\ epoch' = epoch + 1
            /\ mut' = [mut EXCEPT !.pc = "teardown"]
            /\ UNCHANGED <<disk, handles, connections, conn, queue, inbound, task, initLock, writers>>
  BY OtherSteps DEF BeginMutation, MutationStep, TakeInitLocks, TakeWriters, GiveUp, SaveRegistry,
     PublishRegistry, Teardown, AbortTeardown, regVars, connVars

\* A configuration, a proxy included, is never replaced while a command of an
\* agent that it concerns is executed (hub/registry.rs mutate_registry).
THEOREM NothingReplacedUnderCommand == Spec => NoCommitUnderCommand
  <1>1. ASSUME PlaceInv, MutationAffects, [Next]_vars, registry' # registry,
               NEW c \in Conns, conn[c].agent \in AffectedAgents(registry, registry')
        PROVE  conn[c].cmd = NoTask
    <2>1. mut.pc = "verify" /\ registry' = mut.next
      BY <1>1, RegistryChanges DEF PlaceInv
    <2>2. mut.affected = AffectedAgents(registry, registry')
      BY <1>1, <2>1 DEF MutationAffects
    <2> QED
      BY <1>1, <2>1, <2>2, AffectedQuiet
  <1>2. PlaceInv /\ MutationAffects /\ [Next]_vars =>
          [registry' # registry =>
             \A c \in Conns : conn[c].agent \in AffectedAgents(registry, registry') => conn[c].cmd = NoTask]_vars
    BY <1>1
  <1>3. PlaceInv => RegTypeOK
    BY DEF PlaceInv
  <1> QED
    BY <1>2, <1>3, PlaceInductive, AffectsInductive, PTL DEF Spec, NoCommitUnderCommand

\* An attempt publishes its handle.
Publishes(t) ==
  /\ task[t].pc = "publish" /\ StillCurrent(t)
  /\ handles' = [handles EXCEPT ![task[t].agent] = task[t].conn]
  /\ task'[t].pc = "send" /\ \A u \in Tasks \ {t} : task'[u] = task[u]
  /\ UNCHANGED <<conn, connections, queue, mut>>

\* No attempt begins and no handle is published.
AttemptsKept ==
  /\ \A d \in Conns : conn'[d].from = conn[d].from /\ conn'[d].agent = conn[d].agent
  /\ \A u \in Tasks : task'[u].pc \in InitPcs =>
       /\ task[u].pc \in InitPcs /\ task'[u].conn = task[u].conn
       /\ task'[u].agent = task[u].agent /\ task'[u].epoch = task[u].epoch
  /\ \A a \in Agents : handles'[a] \in {handles[a], NoConn}

\* How the steps that are not a mutation's touch the connection attempts.
LEMMA AttemptSteps ==
  ASSUME PlaceInv, [Next]_vars, ~BeginMutation, ~MutationStep, ~AbortTeardown
  PROVE  \/ \E t \in Tasks, c \in Conns : Spawns(t, c)
         \/ \E t \in Tasks : Publishes(t)
         \/ AttemptsKept
  <1> USE DEF connVars, At
  <1>0. /\ task \in [Tasks -> TaskRows] /\ conn \in [Conns -> ConnRows]
        /\ handles \in [Agents -> Conns \cup {NoConn}]
        /\ NoConn \notin Conns /\ Rows /\ Tables
        /\ \A u \in Tasks : task[u].agent \in Agents /\ task[u].conn \in Conns \cup {NoConn}
    BY PlaceTypes, TypeParts DEF PlaceInv
  <1>e. ASSUME NEW t \in Tasks, End(t), UNCHANGED conn, \A a \in Agents : handles'[a] \in {handles[a], NoConn}
        PROVE  AttemptsKept
    <2>1. task'[t].pc = "idle" /\ \A u \in Tasks \ {t} : task'[u] = task[u]
      BY <1>0, <1>e, EndFacts
    <2> QED
      BY <1>e, <2>1 DEF InitPcs, AttemptsKept
  <1>g. ASSUME NEW t \in Tasks, NEW pc, Goto(t, pc), pc \notin InitPcs,
               UNCHANGED handles, \A d \in Conns : conn'[d].from = conn[d].from /\ conn'[d].agent = conn[d].agent
        PROVE  AttemptsKept
    <2>1. task'[t].pc = pc /\ \A u \in Tasks \ {t} : task'[u] = task[u]
      BY <1>0, <1>g, GotoFacts
    <2> QED
      BY <1>g, <2>1 DEF AttemptsKept
  <1>u. ASSUME NEW t \in Tasks, NEW c \in Conns \cup {NoConn}, Uses(t, c), UNCHANGED <<handles, conn>>
        PROVE  AttemptsKept
    <2>1. task'[t].pc = "send" /\ \A u \in Tasks \ {t} : task'[u] = task[u]
      BY <1>0, <1>u, UsesFacts
    <2> QED
      BY <1>u, <2>1 DEF InitPcs, AttemptsKept
  <1>v. ASSUME NEW t \in Tasks, Evict(t) \/ UNCHANGED handles
        PROVE  \A a \in Agents : handles'[a] \in {handles[a], NoConn}
    BY <1>0, <1>v DEF Evict
  <1>1. ASSUME NEW t \in Tasks, NEW k \in Kinds, NEW a \in Agents, Begin(t, k, a) PROVE AttemptsKept
    <2>1. /\ task'[t].pc = "handle" /\ \A u \in Tasks \ {t} : task'[u] = task[u]
          /\ UNCHANGED <<handles, conn>>
      BY <1>0, <1>1, BeginFacts DEF Begin
    <2> QED
      BY <2>1 DEF InitPcs, AttemptsKept
  <1>2. ASSUME NEW t \in Tasks, FindHandle(t) PROVE AttemptsKept
    <2>1. UNCHANGED <<handles, conn>>
      BY <1>2 DEF FindHandle
    <2>2. handles[task[t].agent] \in Conns \cup {NoConn}
      BY <1>0
    <2>3. Uses(t, handles[task[t].agent]) \/ Goto(t, "lock")
      BY <1>2 DEF FindHandle
    <2>4. CASE Uses(t, handles[task[t].agent])
      BY <1>u, <2>1, <2>2, <2>4
    <2>5. CASE Goto(t, "lock")
      BY <1>g, <2>1, <2>5 DEF InitPcs
    <2> QED
      BY <2>3, <2>4, <2>5
  <1>3. ASSUME NEW t \in Tasks, SpawnConnection(t) PROVE AttemptsKept \/ \E c \in Conns : Spawns(t, c)
    <2>1. CASE \E c \in Conns : Spawns(t, c)
      BY <2>1
    <2>2. CASE /\ Uses(t, handles[task[t].agent]) \/ End(t)
               /\ UNCHANGED <<handles, connVars>>
      <3>1. handles[task[t].agent] \in Conns \cup {NoConn} /\ UNCHANGED <<handles, conn>>
        BY <1>0, <2>2
      <3> QED
        BY <1>u, <1>e, <2>2, <3>1
    <2> QED
      BY <1>0, <1>3, <2>1, <2>2, SpawnCases
  <1>4. ASSUME NEW t \in Tasks, InitFails(t) \/ LoseReply(t) \/ AbortRequest(t) PROVE AttemptsKept
    <2>1. End(t) /\ UNCHANGED conn /\ (Evict(t) \/ UNCHANGED handles)
      BY <1>4 DEF InitFails, LoseReply, AbortRequest
    <2> QED
      BY <1>e, <1>v, <2>1
  <1>5. ASSUME NEW t \in Tasks, PublishHandle(t), ~AttemptsKept
        PROVE  Publishes(t)
    <2>1. task[t].pc = "publish" /\ UNCHANGED <<conn, connections, queue, mut>>
      BY <1>5 DEF PublishHandle
    <2>2. /\ StillCurrent(t) /\ handles' = [handles EXCEPT ![task[t].agent] = task[t].conn]
          /\ Uses(t, task[t].conn)
      <3>1. CASE End(t) /\ UNCHANGED handles
        BY <1>5, <1>e, <1>v, <2>1, <3>1
      <3> QED
        BY <1>5, <3>1 DEF PublishHandle
    <2>3. task'[t].pc = "send" /\ \A u \in Tasks \ {t} : task'[u] = task[u]
      BY <1>0, <2>2, UsesFacts
    <2> QED
      BY <2>1, <2>2, <2>3 DEF Publishes
  <1>6. ASSUME NEW t \in Tasks, SendCommand(t) PROVE AttemptsKept
    <2>1. UNCHANGED conn
      BY <1>6 DEF SendCommand
    <2>2. \/ Goto(t, "queued") /\ UNCHANGED handles
          \/ End(t) /\ (Evict(t) \/ UNCHANGED handles)
      BY <1>6 DEF SendCommand
    <2>3. CASE Goto(t, "queued") /\ UNCHANGED handles
      BY <1>g, <2>1, <2>3 DEF InitPcs
    <2>4. CASE End(t) /\ (Evict(t) \/ UNCHANGED handles)
      BY <1>e, <1>v, <2>1, <2>4
    <2> QED
      BY <2>2, <2>3, <2>4
  <1>7. ASSUME NEW t \in Tasks, AgentStep(t) PROVE AttemptsKept
    <2>1. UNCHANGED handles
      BY <1>7 DEF AgentStep, StartCommand, EndCommand
    <2>2. \A d \in Conns : conn'[d].from = conn[d].from /\ conn'[d].agent = conn[d].agent
      BY <1>0, <1>7 DEF AgentStep, StartCommand, EndCommand, ConnRows
    <2>3. End(t) \/ Goto(t, "exec") \/ Goto(t, "send")
      BY <1>7 DEF AgentStep, StartCommand, EndCommand
    <2>4. CASE End(t)
      <3>1. task'[t].pc = "idle" /\ \A u \in Tasks \ {t} : task'[u] = task[u]
        BY <1>0, <2>4, EndFacts
      <3> QED
        BY <2>1, <2>2, <3>1 DEF InitPcs, AttemptsKept
    <2>5. CASE Goto(t, "exec") \/ Goto(t, "send")
      BY <1>g, <2>1, <2>2, <2>5 DEF InitPcs
    <2> QED
      BY <2>3, <2>4, <2>5
  <1>8. ASSUME NEW c \in Conns, ConnectionStep(c) \/ PeerStep(c) PROVE AttemptsKept
    <2>1. UNCHANGED handles
      BY <1>8 DEF ConnectionStep, PeerStep, JoinGate, Configure, BeginRevoke, EndRevoke,
         Initialized, Disconnect, StartCallback, EndCallback
    <2>2. \A d \in Conns : conn'[d].from = conn[d].from /\ conn'[d].agent = conn[d].agent
      BY <1>0, <1>8 DEF ConnectionStep, PeerStep, JoinGate, Configure, BeginRevoke, EndRevoke,
         Initialized, Disconnect, StartCallback, EndCallback, Become, ConnRows
    <2>3. CASE Initialized(c)
      <3>1. PICK t \in Tasks : task[t].pc = "init" /\ task[t].conn = c /\ Goto(t, "publish")
        BY <2>3 DEF Initialized
      <3>2. /\ task'[t].conn = task[t].conn /\ task'[t].epoch = task[t].epoch
            /\ task'[t].agent = task[t].agent
            /\ \A u \in Tasks \ {t} : task'[u] = task[u]
        BY <1>0, <3>1, GotoFacts
      <3> QED
        BY <2>1, <2>2, <3>1, <3>2 DEF InitPcs, AttemptsKept
    <2>4. CASE ~Initialized(c)
      <3>1. UNCHANGED task
        BY <1>8, <2>4 DEF ConnectionStep, PeerStep, JoinGate, Configure, BeginRevoke, EndRevoke,
           Disconnect, StartCallback, EndCallback
      <3> QED
        BY <2>1, <2>2, <3>1 DEF AttemptsKept
    <2> QED
      BY <2>3, <2>4
  <1>9. CASE UNCHANGED vars
    BY <1>9 DEF vars, AttemptsKept
  <1>10. CASE \E t \in Tasks :
                \/ \E k \in Kinds, a \in Agents : Begin(t, k, a)
                \/ RequestStep(t) \/ AgentStep(t) \/ AbortRequest(t)
    <2> SUFFICES ASSUME ~AttemptsKept
                 PROVE  \/ \E t \in Tasks, c \in Conns : Spawns(t, c)
                        \/ \E t \in Tasks : Publishes(t)
      OBVIOUS
    <2>1. PICK t \in Tasks : SpawnConnection(t) \/ PublishHandle(t)
      BY <1>10, <1>1, <1>2, <1>4, <1>6, <1>7 DEF RequestStep
    <2> QED
      BY <1>3, <1>5, <2>1
  <1>11. CASE \E c \in Conns : ConnectionStep(c) \/ PeerStep(c)
    BY <1>8, <1>11
  <1> QED
    BY <1>9, <1>10, <1>11 DEF Next

\* A mutation that does not publish: what it leaves of the handles.
LEMMA MutationHandles ==
  ASSUME PlaceInv, BeginMutation \/ MutationStep \/ AbortTeardown, UNCHANGED <<registry, epoch>>
  PROVE  /\ UNCHANGED <<task, conn, queue>>
         /\ \A a \in Agents : handles'[a] \in {handles[a], NoConn}
         /\ \A a \in Agents : connections'[a] = connections[a] \/ (handles'[a] = NoConn /\ initLock[a] = Mutator)
         /\ ~mut'.cut => ~mut.cut /\ (mut.pc = "teardown" => \A a \in mut.affected : handles'[a] = NoConn)
  <1> USE DEF connVars, regVars
  <1>0. mut \in MutRows /\ PlacePart /\ handles \in [Agents -> Conns \cup {NoConn}] /\ mut.affected \subseteq Agents
    BY PlaceTypes DEF MutRows
  <1>1. CASE BeginMutation
    <2>1. UNCHANGED <<task, conn, queue, handles, connections>> /\ mut'.cut = mut.cut /\ mut.pc = "idle"
      BY <1>1 DEF BeginMutation
    <2> QED
      BY <2>1
  <1>2. CASE TakeInitLocks \/ TakeWriters
    <2>1. UNCHANGED <<task, conn, queue, handles, connections>> /\ mut'.cut = mut.cut /\ mut.pc # "teardown"
      BY <1>0, <1>2, LiveFacts, MutFacts DEF TakeInitLocks, TakeWriters
    <2> QED
      BY <2>1
  <1>3. CASE SaveRegistry
    <2>1. UNCHANGED <<task, conn, queue, handles, connections>> /\ mut'.cut = mut.cut /\ mut.pc # "teardown"
      BY <1>0, <1>3, SaveFacts
    <2> QED
      BY <2>1
  <1>4. CASE GiveUp \/ PublishRegistry
    <2>1. UNCHANGED <<task, conn, queue, handles, connections>> /\ mut'.cut = mut.cut /\ mut.pc # "teardown"
      BY <1>0, <1>4, EndFields, MutFacts DEF GiveUp, PublishRegistry, PlaceInv
    <2> QED
      BY <2>1
  <1>5. CASE Teardown
    <2>1. mut'.cut = mut.cut /\ UNCHANGED <<task, conn, queue>>
      BY <1>5, EndFields DEF Teardown, PlaceInv
    <2>2. /\ \A a \in Agents : handles'[a] = IF a \in mut.affected THEN NoConn ELSE handles[a]
          /\ \A a \in Agents : connections'[a] = IF a \in mut.affected THEN NoConn ELSE connections[a]
      BY <1>5 DEF Teardown
    <2>3. \A a \in mut.affected : initLock[a] = Mutator
      BY <1>0, <1>5 DEF Teardown, PlacePart, MutationHolds
    <2> QED
      BY <1>0, <2>1, <2>2, <2>3
  <1>6. CASE AbortTeardown
    <2>1. mut'.cut = TRUE /\ UNCHANGED <<task, conn, queue, handles, connections>>
      BY <1>6 DEF AbortTeardown, NoMutation
    <2> QED
      BY <2>1
  <1> QED
    BY <1>1, <1>2, <1>3, <1>4, <1>5, <1>6 DEF MutationStep

\* What a connection is built from only depends on what the mutation affects.
LEMMA UnaffectedEndpoint ==
  ASSUME NEW current, NEW next, NEW a \in Agents, a \notin AffectedAgents(current, next),
         current.agents[a] # NoConf
  PROVE  Endpoint(current, a) = Endpoint(next, a)
  BY DEF AffectedAgents, Endpoint

\* A handle is built from the configuration in force, as long as nothing is cut
\* short.
LEMMA CurrentInductive ==
  /\ Init => AttemptFrom /\ HandleCurrent
  /\ PlaceInv /\ MutationAffects /\ AttemptFrom /\ HandleCurrent /\ [Next]_vars =>
       AttemptFrom' /\ HandleCurrent'
  <1>1. ASSUME Init PROVE AttemptFrom /\ HandleCurrent
    <2>1. (\A t \in Tasks : task[t].pc = "idle") /\ \A a \in Agents : handles[a] = NoConn
      BY <1>1 DEF Init, IdleTask, Request
    <2> QED
      BY <2>1 DEF AttemptFrom, HandleCurrent, InitPcs
  <1>2. ASSUME PlaceInv, MutationAffects, AttemptFrom, HandleCurrent, [Next]_vars
        PROVE  AttemptFrom' /\ HandleCurrent'
    <2>0. /\ task \in [Tasks -> TaskRows] /\ conn \in [Conns -> ConnRows] /\ mut \in MutRows
          /\ handles \in [Agents -> Conns \cup {NoConn}] /\ RegTypeOK
          /\ NoConn \notin Conns
          /\ \A u \in Tasks : task[u].agent \in Agents /\ task[u].conn \in Conns \cup {NoConn}
          /\ \A u \in Tasks : task[u].epoch \in Nat
          /\ epoch \in Nat
          /\ PlacePart
      BY <1>2, PlaceTypes DEF PlaceInv, RegTypeOK, TaskRows
    <2>p. /\ \A t \in Tasks : task[t].pc \in InitPcs =>
               task[t].conn \in Conns /\ conn[task[t].conn].agent = task[t].agent
          /\ \A a \in Agents : handles[a] # NoConn =>
               handles[a] \in Conns /\ conn[handles[a]].from.conf # NoConf
      BY <2>0 DEF PlacePart, TaskPlaced, HandlePlaced
    <2>1. CASE BeginMutation \/ MutationStep \/ AbortTeardown
      <3>1. CASE UNCHANGED <<registry, epoch>>
        <4>1. /\ UNCHANGED <<task, conn>>
              /\ \A a \in Agents : handles'[a] \in {handles[a], NoConn}
              /\ ~mut'.cut => ~mut.cut /\ (mut.pc = "teardown" => \A a \in mut.affected : handles'[a] = NoConn)
          BY <1>2, <2>1, <3>1, MutationHandles
        <4>2. AttemptFrom'
          BY <1>2, <3>1, <4>1 DEF AttemptFrom, Endpoint
        <4>3. HandleCurrent'
          BY <1>2, <3>1, <4>1 DEF HandleCurrent, Endpoint
        <4> QED
          BY <4>2, <4>3
      <3>2. CASE /\ mut.pc = "verify" /\ registry' = mut.next /\ epoch' = epoch + 1
                 /\ mut' = [mut EXCEPT !.pc = "teardown"] /\ UNCHANGED <<handles, conn, task>>
        <4>1. mut'.pc = "teardown" /\ mut'.affected = mut.affected /\ mut'.cut = mut.cut
          BY <2>0, <3>2, MutFacts
        <4>2. AttemptFrom'
          BY <1>2, <2>0, <3>2 DEF AttemptFrom
        <4>3. HandleCurrent'
          <5> SUFFICES ASSUME ~mut.cut, NEW a \in Agents, handles[a] # NoConn, a \notin mut.affected
                       PROVE  conn[handles[a]].from = Endpoint(mut.next, a)
            BY <3>2, <4>1 DEF HandleCurrent, Endpoint
          <5>1. conn[handles[a]].from = Endpoint(registry, a) /\ registry.agents[a] # NoConf
            BY <1>2, <2>p, <3>2 DEF HandleCurrent, Endpoint
          <5>2. a \notin AffectedAgents(registry, mut.next)
            BY <1>2, <3>2 DEF MutationAffects
          <5> QED
            BY <5>1, <5>2, UnaffectedEndpoint
        <4> QED
          BY <4>2, <4>3
      <3> QED
        BY <1>2, <2>0, <3>1, <3>2, RegistryChanges
    <2>2. CASE ~(BeginMutation \/ MutationStep \/ AbortTeardown)
      <3>0. UNCHANGED <<registry, epoch>> /\ mut'.pc = mut.pc /\ mut'.affected = mut.affected
            /\ (~mut'.cut => ~mut.cut)
        BY <1>2, <2>0, <2>2, OtherSteps
      <3>1. CASE \E t \in Tasks, c \in Conns : Spawns(t, c)
        <4>1. PICK t \in Tasks, c \in Conns : Spawns(t, c)
          BY <3>1
        <4>2. /\ conn'[c].from = Endpoint(registry, task[t].agent) /\ UNCHANGED handles
              /\ \A d \in Conns \ {c} : conn'[d] = conn[d]
              /\ task'[t].pc = "init" /\ task'[t].conn = c /\ task'[t].epoch = epoch
              /\ task'[t].agent = task[t].agent
              /\ \A u \in Tasks \ {t} : task'[u] = task[u] /\ task[u].conn # c
              /\ \A a \in Agents : handles[a] # c
          BY <4>1 DEF Spawns, Referenced
        <4>3. AttemptFrom'
          <5> SUFFICES ASSUME NEW u \in Tasks, task'[u].pc \in InitPcs
                       PROVE  /\ task'[u].epoch <= epoch
                              /\ task'[u].epoch = epoch =>
                                   conn'[task'[u].conn].from = Endpoint(registry, task'[u].agent)
            BY <3>0 DEF AttemptFrom, Endpoint
          <5>1. CASE u = t
            BY <2>0, <4>2, <5>1
          <5>2. CASE u # t
            BY <1>2, <2>p, <4>2, <5>2 DEF AttemptFrom
          <5> QED
            BY <5>1, <5>2
        <4>4. HandleCurrent'
          BY <1>2, <2>p, <3>0, <4>2 DEF HandleCurrent, Endpoint
        <4> QED
          BY <4>3, <4>4
      <3>2. CASE \E t \in Tasks : Publishes(t)
        <4>1. PICK t \in Tasks : Publishes(t)
          BY <3>2
        <4>2. /\ task[t].pc = "publish" /\ epoch = task[t].epoch /\ UNCHANGED conn
              /\ handles' = [handles EXCEPT ![task[t].agent] = task[t].conn]
              /\ task'[t].pc = "send" /\ \A u \in Tasks \ {t} : task'[u] = task[u]
          BY <4>1 DEF Publishes, StillCurrent
        <4>3. conn[task[t].conn].from = Endpoint(registry, task[t].agent)
          BY <1>2, <4>2 DEF AttemptFrom, InitPcs
        <4>4. AttemptFrom'
          BY <1>2, <3>0, <4>2 DEF AttemptFrom, InitPcs, Endpoint
        <4>5. HandleCurrent'
          BY <1>2, <2>0, <3>0, <4>2, <4>3 DEF HandleCurrent, Endpoint
        <4> QED
          BY <4>4, <4>5
      <3>3. CASE AttemptsKept
        <4>1. AttemptFrom'
          BY <1>2, <2>p, <3>0, <3>3 DEF AttemptsKept, AttemptFrom, Endpoint
        <4>2. HandleCurrent'
          BY <1>2, <2>p, <3>0, <3>3 DEF AttemptsKept, HandleCurrent, Endpoint
        <4> QED
          BY <4>1, <4>2
      <3> QED
        BY <1>2, <2>2, <3>1, <3>2, <3>3, AttemptSteps
    <2> QED
      BY <2>1, <2>2
  <1> QED
    BY <1>1, <1>2

-----------------------------------------------------------------------------
(* The queue of the generation writer, and the connection it accepts last. *)

\* What a queue looks like when somebody joins it, ...
LEMMA QueueAppend ==
  ASSUME NEW s \in Seq(Conns), NEW c \in Conns
  PROVE  /\ Len(Append(s, c)) = Len(s) + 1 /\ Len(s) \in Nat
         /\ \A i \in 1..Len(s) : Append(s, c)[i] = s[i]
         /\ Append(s, c)[Len(s) + 1] = c
  OBVIOUS

\* ... and when the first one leaves it.
LEMMA QueueTail ==
  ASSUME NEW s \in Seq(Conns), s # <<>>
  PROVE  /\ Len(s) \in Nat /\ Len(s) >= 1 /\ Head(s) = s[1]
         /\ Len(Tail(s)) = Len(s) - 1
         /\ \A i \in 1..(Len(s) - 1) : Tail(s)[i] = s[i + 1]
  OBVIOUS

\* A connection joins the queue of its agent.
Joins(c) ==
  /\ conn[c].state \notin Waiters /\ conn'[c].state \in Waiters /\ conn'[c].agent = conn[c].agent
  /\ \A d \in Conns \ {c} : conn'[d] = conn[d]
  /\ queue' = [queue EXCEPT ![conn[c].agent] = Append(@, c)]

\* It leaves it, being the first.
Leaves(c) ==
  /\ conn'[c].state \notin Waiters /\ conn'[c].agent = conn[c].agent
  /\ \A d \in Conns \ {c} : conn'[d] = conn[d]
  /\ queue[conn[c].agent] # <<>> /\ Head(queue[conn[c].agent]) = c
  /\ queue' = [queue EXCEPT ![conn[c].agent] = Tail(@)]

\* Who joins is last, and the others keep their order.
LEMMA JoinFacts ==
  ASSUME PlaceInv, QueuePlaced, NEW c \in Conns, Joins(c)
  PROVE  /\ QueuePlaced'
         /\ \A a \in Agents, d, e \in Conns \ {c} : Before(d, e, a) => Before(d, e, a)'
         /\ \A a \in Agents, d \in Conns \ {c} : a = conn[c].agent => Before(d, c, a)'
  <1> DEFINE b == conn[c].agent
             s == queue[b]
  <1>0. /\ queue \in [Agents -> Seq(Conns)] /\ b \in Agents /\ s \in Seq(Conns)
        /\ \A d \in Conns : conn[d].agent \in Agents
    BY PlaceTypes
  <1>1. /\ queue'[b] = Append(s, c)
        /\ \A a \in Agents \ {b} : queue'[a] = queue[a]
        /\ \A d \in Conns : conn'[d].agent = conn[d].agent
        /\ \A d \in Conns \ {c} : conn'[d] = conn[d]
        /\ conn[c].state \notin Waiters /\ conn'[c].state \in Waiters
    BY <1>0 DEF Joins
  <1>2. /\ Len(queue'[b]) = Len(s) + 1 /\ Len(s) \in Nat
        /\ \A i \in 1..Len(s) : queue'[b][i] = s[i]
        /\ queue'[b][Len(s) + 1] = c
    BY <1>0, <1>1, QueueAppend
  <1>3. \A a \in Agents : \A i \in 1..Len(queue[a]) : queue[a][i] \in Conns \ {c}
    BY <1>0, <1>1 DEF QueuePlaced
  <1> HIDE DEF b
  <1>4. QueuePlaced'
    <2>1. ASSUME NEW a \in Agents, NEW i \in 1..Len(queue'[a]), NEW j \in 1..Len(queue'[a])
          PROVE  /\ conn'[queue'[a][i]].agent = a /\ conn'[queue'[a][i]].state \in Waiters
                 /\ queue'[a][i] = queue'[a][j] => i = j
      <3>1. CASE a # b
        BY <1>1, <1>3, <2>1, <3>1 DEF QueuePlaced
      <3>2. CASE a = b
        <4>1. \A k \in 1..Len(queue'[b]) : k = Len(s) + 1 \/ k \in 1..Len(s)
          BY <1>2
        <4>2. CASE i = Len(s) + 1
          <5>1. queue'[b][i] = c /\ conn'[c].agent = b
            BY <1>1, <1>2, <4>2 DEF b
          <5>2. \A k \in 1..Len(s) : queue'[b][k] # c
            BY <1>0, <1>2, <1>3
          <5> QED
            BY <1>1, <3>2, <4>1, <4>2, <5>1, <5>2
        <4>3. CASE i \in 1..Len(s)
          <5>1. queue'[b][i] = s[i] /\ s[i] \in Conns \ {c} /\ conn'[s[i]] = conn[s[i]]
            BY <1>0, <1>1, <1>2, <1>3, <4>3
          <5>2. conn[s[i]].agent = b /\ conn[s[i]].state \in Waiters
            BY <1>0, <4>3 DEF QueuePlaced
          <5>3. ASSUME j \in 1..Len(s), queue'[b][i] = queue'[b][j] PROVE i = j
            <6>1. s[i] = s[j]
              BY <1>2, <5>1, <5>3
            <6> QED
              BY <1>0, <4>3, <5>3, <6>1 DEF QueuePlaced
          <5>4. j = Len(s) + 1 => queue'[b][j] # queue'[b][i]
            BY <1>2, <5>1
          <5> QED
            BY <3>2, <4>1, <5>1, <5>2, <5>3, <5>4
        <4> QED
          BY <2>1, <3>2, <4>1, <4>2, <4>3
      <3> QED
        BY <3>1, <3>2
    <2>2. ASSUME NEW d \in Conns, conn'[d].state \in Waiters
          PROVE  \E i \in 1..Len(queue'[conn[d].agent]) : queue'[conn[d].agent][i] = d
      <3>1. CASE d = c
        <4>1. conn[d].agent = b /\ Len(s) + 1 \in 1..Len(queue'[b])
          BY <1>2, <3>1 DEF b
        <4> QED
          BY <1>2, <3>1, <4>1
      <3>2. CASE d # c
        <4>1. PICK i \in 1..Len(queue[conn[d].agent]) : queue[conn[d].agent][i] = d
          BY <1>1, <2>2, <3>2 DEF QueuePlaced
        <4>2. CASE conn[d].agent = b
          <5>1. i \in 1..Len(queue'[b]) /\ queue'[b][i] = d
            BY <1>2, <4>1, <4>2
          <5> QED
            BY <4>2, <5>1
        <4>3. CASE conn[d].agent # b
          BY <1>0, <1>1, <4>1, <4>3
        <4> QED
          BY <4>2, <4>3
      <3> QED
        BY <3>1, <3>2
    <2> QED
      BY <1>1, <2>1, <2>2 DEF QueuePlaced
  <1>5. ASSUME NEW a \in Agents, NEW d \in Conns \ {c}, NEW e \in Conns \ {c}, Before(d, e, a)
        PROVE  Before(d, e, a)'
    <2>1. CASE a # b
      BY <1>1, <1>5, <2>1 DEF Before
    <2>2. CASE a = b
      <3>1. \A k \in 1..Len(queue'[b]) : queue'[b][k] # c => k \in 1..Len(s) /\ queue'[b][k] = s[k]
        BY <1>2
      <3>2. \A i, j \in 1..Len(s) : s[i] = d /\ s[j] = e => i < j
        BY <1>5, <2>2 DEF Before
      <3>3. \A i, j \in 1..Len(queue'[b]) : queue'[b][i] = d /\ queue'[b][j] = e => i < j
        BY <3>1, <3>2
      <3> QED
        BY <2>2, <3>3 DEF Before
    <2> QED
      BY <2>1, <2>2
  <1>6. ASSUME NEW a \in Agents, a = b, NEW d \in Conns \ {c} PROVE Before(d, c, a)'
    <2> SUFFICES ASSUME NEW i \in 1..Len(queue'[b]), NEW j \in 1..Len(queue'[b]),
                        queue'[b][i] = d, queue'[b][j] = c
                 PROVE  i < j
      BY <1>6 DEF Before
    <2>1. j \notin 1..Len(s)
      BY <1>0, <1>2, <1>3
    <2>2. i # Len(s) + 1
      BY <1>2
    <2> QED
      BY <1>2, <2>1, <2>2
  <1> QED
    BY <1>4, <1>5, <1>6 DEF b

\* Who leaves was first, and the others keep their order.
LEMMA LeaveFacts ==
  ASSUME PlaceInv, QueuePlaced, NEW c \in Conns, Leaves(c)
  PROVE  /\ QueuePlaced'
         /\ \A a \in Agents, d, e \in Conns : Before(d, e, a) => Before(d, e, a)'
         /\ \A d \in Conns : conn[d].agent = conn[c].agent /\ conn[d].state \in Waiters =>
              ~Before(d, c, conn[c].agent)
  <1> DEFINE b == conn[c].agent
             s == queue[b]
  <1>0. /\ queue \in [Agents -> Seq(Conns)] /\ b \in Agents /\ s \in Seq(Conns)
        /\ \A d \in Conns : conn[d].agent \in Agents
    BY PlaceTypes
  <1>1. /\ queue'[b] = Tail(s) /\ s # <<>> /\ Head(s) = c
        /\ \A a \in Agents \ {b} : queue'[a] = queue[a]
        /\ \A d \in Conns : conn'[d].agent = conn[d].agent
        /\ \A d \in Conns \ {c} : conn'[d] = conn[d]
        /\ conn'[c].state \notin Waiters
    BY <1>0 DEF Leaves
  <1>2. /\ Len(queue'[b]) = Len(s) - 1 /\ Len(s) \in Nat /\ Len(s) >= 1 /\ s[1] = c
        /\ \A i \in 1..(Len(s) - 1) : queue'[b][i] = s[i + 1]
    BY <1>0, <1>1, QueueTail
  <1>3. /\ \A a \in Agents \ {b} : \A i \in 1..Len(queue[a]) : queue[a][i] \in Conns \ {c}
        /\ \A i \in 1..Len(s) : i # 1 => s[i] \in Conns \ {c}
    BY <1>0, <1>2 DEF QueuePlaced
  <1> HIDE DEF b
  <1>4. QueuePlaced'
    <2>1. ASSUME NEW a \in Agents, NEW i \in 1..Len(queue'[a]), NEW j \in 1..Len(queue'[a])
          PROVE  /\ conn'[queue'[a][i]].agent = a /\ conn'[queue'[a][i]].state \in Waiters
                 /\ queue'[a][i] = queue'[a][j] => i = j
      <3>1. CASE a # b
        BY <1>1, <1>3, <2>1, <3>1 DEF QueuePlaced
      <3>2. CASE a = b
        <4>1. /\ i + 1 \in 1..Len(s) /\ j + 1 \in 1..Len(s) /\ i + 1 # 1
              /\ queue'[b][i] = s[i + 1] /\ queue'[b][j] = s[j + 1]
          BY <1>2, <3>2
        <4>2. /\ conn[s[i + 1]].agent = b /\ conn[s[i + 1]].state \in Waiters
              /\ s[i + 1] = s[j + 1] => i + 1 = j + 1
          BY <1>0, <4>1 DEF QueuePlaced
        <4>3. conn'[s[i + 1]] = conn[s[i + 1]]
          BY <1>1, <1>3, <4>1
        <4> QED
          BY <2>1, <3>2, <4>1, <4>2, <4>3
      <3> QED
        BY <3>1, <3>2
    <2>2. ASSUME NEW d \in Conns, conn'[d].state \in Waiters
          PROVE  \E i \in 1..Len(queue'[conn[d].agent]) : queue'[conn[d].agent][i] = d
      <3>1. d # c
        BY <1>1, <2>2
      <3>2. PICK i \in 1..Len(queue[conn[d].agent]) : queue[conn[d].agent][i] = d
        BY <1>1, <2>2, <3>1 DEF QueuePlaced
      <3>3. CASE conn[d].agent = b
        <4>1. i # 1
          BY <1>2, <3>1, <3>2, <3>3
        <4>2. i - 1 \in 1..Len(queue'[b]) /\ queue'[b][i - 1] = d
          BY <1>2, <3>2, <3>3, <4>1
        <4> QED
          BY <3>3, <4>2
      <3>4. CASE conn[d].agent # b
        BY <1>0, <1>1, <3>2, <3>4
      <3> QED
        BY <3>3, <3>4
    <2> QED
      BY <1>1, <2>1, <2>2 DEF QueuePlaced
  <1>5. ASSUME NEW a \in Agents, NEW d \in Conns, NEW e \in Conns, Before(d, e, a)
        PROVE  Before(d, e, a)'
    <2>1. CASE a # b
      BY <1>1, <1>5, <2>1 DEF Before
    <2>2. CASE a = b
      <3> SUFFICES ASSUME NEW i \in 1..Len(queue'[b]), NEW j \in 1..Len(queue'[b]),
                          queue'[b][i] = d, queue'[b][j] = e
                   PROVE  i < j
        BY <2>2 DEF Before
      <3>1. i + 1 \in 1..Len(s) /\ j + 1 \in 1..Len(s) /\ s[i + 1] = d /\ s[j + 1] = e
        BY <1>2
      <3>2. i + 1 < j + 1
        BY <1>5, <2>2, <3>1 DEF Before
      <3> QED
        BY <1>2, <3>2
    <2> QED
      BY <2>1, <2>2
  <1>6. ASSUME NEW d \in Conns, conn[d].agent = b, conn[d].state \in Waiters, Before(d, c, b)
        PROVE  FALSE
    <2>1. PICK i \in 1..Len(s) : s[i] = d
      BY <1>6 DEF QueuePlaced
    <2>2. i < 1
      BY <1>2, <1>6, <2>1 DEF Before
    <2> QED
      BY <1>2, <2>1, <2>2
  <1> QED
    BY <1>4, <1>5, <1>6 DEF b

\* An agent has one candidate at most: whoever tries to connect holds the lock
\* of the initialiser while there is no handle.
LEMMA OneCandidate ==
  ASSUME PlaceInv, NEW c \in Conns, NEW d \in Conns, conn[c].agent = conn[d].agent, Candidate(c), Candidate(d)
  PROVE  c = d
  <1>0. PlacePart
    BY DEF PlaceInv
  <1>1. \A e \in Conns, t \in Tasks : task[t].pc \in InitPcs /\ task[t].conn = e =>
          initLock[conn[e].agent] = t /\ handles[conn[e].agent] = NoConn
    BY <1>0 DEF PlacePart, TaskPlaced
  <1>2. NoConn \notin Conns
    BY RegistryAssumption
  <1> QED
    BY <1>1, <1>2 DEF Candidate

\* What makes the published handle the one the callbacks accept.
ConfPart == QueuePlaced /\ SpawnedAttended /\ CandidateLast /\ CandidateAccepted

\* A step that leaves the connections and their queues alone and brings no new
\* candidate.
Calm ==
  /\ UNCHANGED queue
  /\ \A d \in Conns : conn'[d].state = conn[d].state /\ conn'[d].agent = conn[d].agent
  /\ \A d \in Conns : Candidate(d)' => Candidate(d)
  /\ \A a \in Agents : \/ connections'[a] = connections[a]
                       \/ \A d \in Conns : conn[d].agent = a => ~Candidate(d)'
  /\ ~mut'.cut => /\ ~mut.cut
                  /\ \A t \in Tasks : task[t].pc = "init" /\ conn[task[t].conn].state = "spawned" =>
                       task'[t].pc = "init" /\ task'[t].conn = task[t].conn

\* It keeps the order of the queue and who is accepted.
LEMMA CalmKeeps ==
  ASSUME PlaceInv, ConfPart, Calm
  PROVE  ConfPart'
  <1>0. /\ queue \in [Agents -> Seq(Conns)] /\ \A d \in Conns : conn[d].agent \in Agents
        /\ QueuePlaced /\ SpawnedAttended /\ CandidateLast /\ CandidateAccepted
    BY PlaceTypes DEF ConfPart
  <1>1. QueuePlaced'
    <2>1. \A a \in Agents : \A i \in 1..Len(queue[a]) : queue[a][i] \in Conns
      BY <1>0
    <2> QED
      BY <1>0, <2>1 DEF QueuePlaced, Calm
  <1>2. SpawnedAttended'
    <2> SUFFICES ASSUME ~mut'.cut, NEW c \in Conns, conn'[c].state = "spawned"
                 PROVE  \E t \in Tasks : task'[t].pc = "init" /\ task'[t].conn = c
      BY DEF SpawnedAttended
    <2>1. PICK t \in Tasks : task[t].pc = "init" /\ task[t].conn = c
      BY <1>0 DEF Calm, SpawnedAttended
    <2> QED
      BY <2>1 DEF Calm
  <1>3. CandidateLast'
    <2> SUFFICES ASSUME ~mut'.cut, NEW c \in Conns, NEW d \in Conns, Candidate(c)', d # c,
                        conn'[d].agent = conn'[c].agent, conn'[d].state = "waiting"
                 PROVE  /\ conn'[c].state \in {"spawned", "waiting"}
                        /\ conn'[c].state = "waiting" => Before(d, c, conn[c].agent)'
      BY DEF CandidateLast
    <2>1. conn'[c].agent = conn[c].agent
      BY DEF Calm
    <2>2. /\ conn[c].state \in {"spawned", "waiting"}
          /\ conn[c].state = "waiting" => Before(d, c, conn[c].agent)
      BY <1>0 DEF Calm, CandidateLast
    <2>3. Before(d, c, conn[c].agent) => Before(d, c, conn[c].agent)'
      BY <2>1 DEF Before, Calm
    <2> QED
      BY <2>2, <2>3 DEF Calm
  <1>4. CandidateAccepted'
    BY <1>0 DEF Calm, CandidateAccepted
  <1> QED
    BY <1>1, <1>2, <1>3, <1>4 DEF ConfPart

\* Requests are calm unless they begin to connect.
LEMMA RequestsCalm ==
  ASSUME PlaceInv, [Next]_vars, NEW t \in Tasks,
         \/ \E k \in Kinds, a \in Agents : Begin(t, k, a)
         \/ RequestStep(t) \/ AgentStep(t) \/ AbortRequest(t),
         ~\E u \in Tasks, c \in Conns : Spawns(u, c),
         ~BeginMutation, ~MutationStep, ~AbortTeardown
  PROVE  Calm
  <1> USE DEF connVars, At
  <1>0. /\ task \in [Tasks -> TaskRows] /\ conn \in [Conns -> ConnRows] /\ mut \in MutRows
        /\ handles \in [Agents -> Conns \cup {NoConn}] /\ RegTypeOK /\ Rows /\ Tables
        /\ NoConn \notin Conns
        /\ \A u \in Tasks : task[u].agent \in Agents /\ task[u].conn \in Conns \cup {NoConn}
        /\ \A d \in Conns : conn[d].agent \in Agents
        /\ PlacePart
    BY PlaceTypes, TypeParts DEF PlaceInv
  <1>1. UNCHANGED <<queue, connections>>
    BY DEF Begin, RequestStep, AgentStep, AbortRequest, FindHandle, SpawnConnection, InitFails, PublishHandle,
       SendCommand, LoseReply, StartCommand, EndCommand
  <1>2. \A d \in Conns : conn'[d].state = conn[d].state /\ conn'[d].agent = conn[d].agent
    <2>1. CASE SpawnConnection(t)
      BY <1>0, <2>1, SpawnCases
    <2>2. CASE AgentStep(t)
      BY <1>0, <2>2 DEF AgentStep, StartCommand, EndCommand, ConnRows
    <2>3. CASE ~SpawnConnection(t) /\ ~AgentStep(t)
      BY <2>3 DEF Begin, RequestStep, AbortRequest, FindHandle, InitFails, PublishHandle,
         SendCommand, LoseReply
    <2> QED
      BY <2>1, <2>2, <2>3
  <1>3. \A d \in Conns : Candidate(d)' => Candidate(d)
    <2>1. CASE AttemptsKept
      BY <1>0, <1>2, <2>1 DEF AttemptsKept, Candidate
    <2>2. CASE \E u \in Tasks : Publishes(u)
      <3>1. PICK u \in Tasks : Publishes(u)
        BY <2>2
      <3>2. /\ task[u].pc = "publish" /\ handles' = [handles EXCEPT ![task[u].agent] = task[u].conn]
            /\ task'[u].pc = "send" /\ \A v \in Tasks \ {u} : task'[v] = task[v]
        BY <3>1 DEF Publishes
      <3> SUFFICES ASSUME NEW d \in Conns, Candidate(d)' PROVE Candidate(d)
        OBVIOUS
      <3>3. CASE \E v \in Tasks : task'[v].pc \in InitPcs /\ task'[v].conn = d
        BY <3>2, <3>3 DEF Candidate, InitPcs
      <3>4. CASE handles'[conn[d].agent] = d
        <4>1. handles[conn[d].agent] = d \/ task[u].conn = d
          BY <1>0, <3>2, <3>4
        <4> QED
          BY <3>2, <4>1 DEF Candidate, InitPcs
      <3> QED
        BY <1>2, <3>3, <3>4 DEF Candidate
    <2> QED
      BY <2>1, <2>2, AttemptSteps
  <1>4. ASSUME ~mut'.cut
        PROVE  /\ ~mut.cut
               /\ \A u \in Tasks : task[u].pc = "init" /\ conn[task[u].conn].state = "spawned" =>
                    task'[u].pc = "init" /\ task'[u].conn = task[u].conn
    <2>1. ~mut.cut
      BY <1>0, <1>4, OtherSteps
    <2>2. task[t].pc = "init" /\ conn[task[t].conn].state = "spawned" => FALSE
      <3> SUFFICES ASSUME task[t].pc = "init", conn[task[t].conn].state = "spawned" PROVE FALSE
        OBVIOUS
      <3>1. CASE AbortRequest(t)
        <4>1. mut' = [mut EXCEPT !.cut = @ \/ task[t].pc \in {"init", "publish"}]
          BY <3>1 DEF AbortRequest
        <4>2. mut'.cut = (mut.cut \/ task[t].pc \in {"init", "publish"})
          BY <1>0, <4>1 DEF MutRows
        <4> QED
          BY <1>4, <4>2
      <3> QED
        BY <3>1 DEF Begin, RequestStep, AgentStep, FindHandle, SpawnConnection, InitFails, PublishHandle,
           SendCommand, LoseReply, StartCommand, EndCommand
    <2>3. \A u \in Tasks \ {t} : task'[u] = task[u]
      BY <1>0 DEF Begin, RequestStep, AgentStep, AbortRequest, FindHandle, SpawnConnection, InitFails, PublishHandle,
         SendCommand, LoseReply, StartCommand, EndCommand, Goto, End, Uses
    <2> QED
      BY <2>1, <2>2, <2>3
  <1> QED
    BY <1>1, <1>2, <1>3, <1>4 DEF Calm

\* A mutation is calm: it forgets the connections of agents whose initialisers
\* it holds.
LEMMA MutationsCalm ==
  ASSUME PlaceInv, [Next]_vars, BeginMutation \/ MutationStep \/ AbortTeardown
  PROVE  Calm
  <1>0. /\ mut \in MutRows /\ RegTypeOK /\ NoConn \notin Conns /\ Mutator \notin Tasks
        /\ \A d \in Conns : conn[d].agent \in Agents
        /\ PlacePart
    BY PlaceTypes DEF PlaceInv
  <1>1. CASE UNCHANGED <<registry, epoch>>
    <2>1. /\ UNCHANGED <<task, conn, queue>>
          /\ \A a \in Agents : handles'[a] \in {handles[a], NoConn}
          /\ \A a \in Agents : connections'[a] = connections[a] \/ (handles'[a] = NoConn /\ initLock[a] = Mutator)
          /\ ~mut'.cut => ~mut.cut
      BY <1>1, MutationHandles
    <2>2. \A d \in Conns : Candidate(d)' => Candidate(d)
      BY <1>0, <2>1 DEF Candidate
    <2>3. ASSUME NEW a \in Agents, handles'[a] = NoConn, initLock[a] = Mutator, NEW d \in Conns, conn[d].agent = a
          PROVE  ~Candidate(d)'
      BY <1>0, <2>1, <2>3 DEF Candidate, PlacePart, TaskPlaced
    <2> QED
      BY <2>1, <2>2, <2>3 DEF Calm
  <1>2. CASE mut' = [mut EXCEPT !.pc = "teardown"] /\ UNCHANGED <<handles, connections, conn, queue, task>>
    <2>1. mut'.cut = mut.cut
      BY <1>0, <1>2, MutFacts
    <2> QED
      BY <1>2, <2>1 DEF Calm, Candidate
  <1> QED
    BY <1>0, <1>1, <1>2, RegistryChanges

\* What the order of the queue comes to after a step that keeps the candidates.
LEMMA LastAfter ==
  ASSUME UNCHANGED mut, \A d \in Conns : Candidate(d)' <=> Candidate(d),
         \A d \in Conns : conn'[d].agent = conn[d].agent /\ conn[d].agent \in Agents,
         ~mut.cut => \A e, d \in Conns :
           Candidate(e) /\ d # e /\ conn[d].agent = conn[e].agent /\ conn'[d].state = "waiting" =>
             /\ conn'[e].state \in {"spawned", "waiting"}
             /\ conn'[e].state = "waiting" => \A a \in Agents : a = conn[e].agent => Before(d, e, a)'
  PROVE  CandidateLast'
  <1> SUFFICES ASSUME ~mut.cut, NEW e \in Conns, NEW d \in Conns, Candidate(e), d # e,
                      conn[d].agent = conn[e].agent, conn'[d].state = "waiting"
               PROVE  /\ conn'[e].state \in {"spawned", "waiting"}
                      /\ conn'[e].state = "waiting" => Before(d, e, conn[e].agent)'
    BY DEF CandidateLast
  <1>1. /\ conn'[e].state \in {"spawned", "waiting"}
        /\ conn'[e].state = "waiting" => \A a \in Agents : a = conn[e].agent => Before(d, e, a)'
    OBVIOUS
  <1>2. ASSUME conn'[e].state = "waiting" PROVE Before(d, e, conn[e].agent)'
    <2>1. PICK a \in Agents : a = conn[e].agent
      OBVIOUS
    <2>2. Before(d, e, a)' /\ a = conn'[e].agent
      BY <1>1, <1>2, <2>1
    <2> QED
      BY <2>2 DEF Before
  <1> QED
    BY <1>1, <1>2

\* The steps of connections keep the order of the queue and who is accepted.
LEMMA ConnectionsOrdered ==
  ASSUME PlaceInv, ConfPart, NEW c \in Conns, ConnectionStep(c) \/ PeerStep(c)
  PROVE  ConfPart'
  <1> DEFINE b == conn[c].agent
  <1>0. /\ task \in [Tasks -> TaskRows] /\ conn \in [Conns -> ConnRows] /\ queue \in [Agents -> Seq(Conns)]
        /\ connections \in [Agents -> Conns \cup {NoConn}]
        /\ NoConn \notin Conns /\ b \in Agents
        /\ \A d \in Conns : conn[d].agent \in Agents
        /\ QueuePlaced /\ SpawnedAttended /\ CandidateLast /\ CandidateAccepted
    BY PlaceTypes DEF ConfPart
  <1>k. ASSUME UNCHANGED <<task, handles>>, \A d \in Conns : conn'[d].agent = conn[d].agent
        PROVE  \A d \in Conns : Candidate(d)' <=> Candidate(d)
    BY <1>k DEF Candidate
  <1>1. CASE JoinGate(c)
    <2>1. /\ conn[c].state = "spawned" /\ UNCHANGED <<task, handles, connections, mut>> /\ Become(c, "waiting")
          /\ queue' = [queue EXCEPT ![b] = Append(@, c)]
      BY <1>1 DEF JoinGate
    <2>2. /\ conn'[c].state = "waiting" /\ conn'[c].agent = b
          /\ \A d \in Conns \ {c} : conn'[d] = conn[d]
      BY <1>0, <2>1, ConnFacts
    <2>3. Joins(c)
      BY <2>1, <2>2 DEF Joins, Waiters
    <2>4. /\ QueuePlaced'
          /\ \A a \in Agents, d, e \in Conns \ {c} : Before(d, e, a) => Before(d, e, a)'
          /\ \A a \in Agents, d \in Conns \ {c} : a = b => Before(d, c, a)'
      BY <1>0, <2>3, JoinFacts
    <2>5. \A d \in Conns : Candidate(d)' <=> Candidate(d)
      BY <1>k, <2>1, <2>2
    <2>6. SpawnedAttended'
      BY <1>0, <2>1, <2>2 DEF SpawnedAttended
    <2>7. CandidateAccepted'
      BY <1>0, <2>1, <2>2, <2>5 DEF CandidateAccepted
    <2>8. CandidateLast'
      <3> SUFFICES ASSUME ~mut.cut, NEW e \in Conns, NEW d \in Conns, Candidate(e), d # e,
                          conn[d].agent = conn[e].agent, conn'[d].state = "waiting"
                   PROVE  /\ conn'[e].state \in {"spawned", "waiting"}
                          /\ conn'[e].state = "waiting" => \A a \in Agents : a = conn[e].agent => Before(d, e, a)'
        <4>1. \A d \in Conns : conn'[d].agent = conn[d].agent /\ conn[d].agent \in Agents
          BY <1>0, <2>2
        <4> QED
          BY <2>1, <2>5, <4>1, LastAfter
      <3>1. CASE e = c
        BY <2>2, <2>4, <3>1
      <3>2. CASE e # c /\ d # c
        <4>1. /\ conn[e].state \in {"spawned", "waiting"}
              /\ conn[e].state = "waiting" => Before(d, e, conn[e].agent)
          BY <1>0, <2>2, <3>2 DEF CandidateLast
        <4> QED
          BY <1>0, <2>2, <2>4, <3>2, <4>1
      <3>3. CASE e # c /\ d = c
        <4>1. Candidate(c)
          BY <1>0, <2>1 DEF SpawnedAttended, Candidate, InitPcs
        <4> QED
          BY <2>2, <3>3, <4>1, OneCandidate
      <3> QED
        BY <3>1, <3>2, <3>3
    <2> QED
      BY <2>4, <2>6, <2>7, <2>8 DEF ConfPart
  <1>2. CASE Configure(c) \/ EndRevoke(c)
    <2>1. /\ conn[c].state \in {"waiting", "revoking"} /\ UNCHANGED <<task, handles, mut>>
          /\ queue[b] # <<>> /\ Head(queue[b]) = c
          /\ queue' = [queue EXCEPT ![b] = Tail(@)]
      BY <1>2 DEF Configure, EndRevoke, Granted
    <2>2. \/ /\ Become(c, "configured") /\ conn[c].state = "waiting" /\ connections' = [connections EXCEPT ![b] = c]
          \/ /\ Become(c, "closed") /\ conn[c].state = "revoking"
             /\ connections' = [connections EXCEPT ![b] = Revoked(c)]
      BY <1>2 DEF Configure, EndRevoke
    <2>3. /\ conn'[c].agent = b /\ \A d \in Conns \ {c} : conn'[d] = conn[d]
          /\ \A a \in Agents \ {b} : connections'[a] = connections[a]
          /\ \/ conn[c].state = "waiting" /\ conn'[c].state = "configured" /\ connections'[b] = c
             \/ /\ conn[c].state = "revoking" /\ conn'[c].state = "closed"
                /\ connections'[b] = connections[b] \/ connections[b] = c
      <3>1. CASE /\ Become(c, "configured") /\ conn[c].state = "waiting"
                 /\ connections' = [connections EXCEPT ![b] = c]
        BY <1>0, <3>1, ConnFacts
      <3>2. CASE /\ Become(c, "closed") /\ conn[c].state = "revoking"
                 /\ connections' = [connections EXCEPT ![b] = Revoked(c)]
        BY <1>0, <3>2, ConnFacts DEF Revoked
      <3> QED
        BY <2>2, <3>1, <3>2
    <2>4. Leaves(c)
      BY <2>1, <2>3 DEF Leaves, Waiters
    <2>5. /\ QueuePlaced'
          /\ \A a \in Agents, d, e \in Conns : Before(d, e, a) => Before(d, e, a)'
          /\ \A d \in Conns : conn[d].agent = b /\ conn[d].state \in Waiters => ~Before(d, c, b)
      BY <1>0, <2>4, LeaveFacts
    <2>6. \A d \in Conns : Candidate(d)' <=> Candidate(d)
      BY <1>k, <2>1, <2>3
    <2>7. SpawnedAttended'
      BY <1>0, <2>1, <2>3 DEF SpawnedAttended
    <2>8. \A d \in Conns : conn'[d].agent = conn[d].agent
      BY <2>3
    <2> HIDE DEF b
    <2>9. CandidateAccepted'
      <3> SUFFICES ASSUME ~mut.cut, NEW e \in Conns, Candidate(e), conn'[e].state \in {"configured", "serving"}
                   PROVE  connections'[conn[e].agent] = e
        BY <2>1, <2>6, <2>8 DEF CandidateAccepted
      <3>1. CASE e = c
        BY <2>3, <3>1 DEF b
      <3>2. CASE e # c
        <4>1. connections[conn[e].agent] = e /\ conn[e].state \in {"configured", "serving"}
          BY <1>0, <2>3, <3>2 DEF CandidateAccepted
        <4>2. CASE conn[e].agent # b
          BY <1>0, <2>3, <4>1, <4>2
        <4>3. CASE conn[e].agent = b
          <5>1. conn[c].state # "waiting"
            BY <1>0, <3>2, <4>1, <4>3 DEF CandidateLast, b
          <5> QED
            BY <2>3, <3>2, <4>1, <4>3, <5>1
        <4> QED
          BY <4>2, <4>3
      <3> QED
        BY <3>1, <3>2
    <2>10. CandidateLast'
      <3> SUFFICES ASSUME ~mut.cut, NEW e \in Conns, NEW d \in Conns, Candidate(e), d # e,
                          conn[d].agent = conn[e].agent, conn'[d].state = "waiting"
                   PROVE  /\ conn'[e].state \in {"spawned", "waiting"}
                          /\ conn'[e].state = "waiting" => \A a \in Agents : a = conn[e].agent => Before(d, e, a)'
        BY <1>0, <2>1, <2>6, <2>8, LastAfter
      <3>1. d # c /\ conn[d].state = "waiting"
        BY <2>3
      <3>2. /\ conn[e].state \in {"spawned", "waiting"}
            /\ conn[e].state = "waiting" => Before(d, e, conn[e].agent)
        BY <1>0, <3>1 DEF CandidateLast
      <3>3. e # c
        BY <2>1, <2>5, <3>1, <3>2 DEF Waiters, b
      <3> QED
        BY <1>0, <2>3, <2>5, <3>2, <3>3
    <2> QED
      BY <2>5, <2>7, <2>9, <2>10 DEF ConfPart
  <1>3. CASE BeginRevoke(c) /\ connections[b] = c
    <2>1. /\ conn[c].state = "closing" /\ UNCHANGED <<task, handles, connections, mut>> /\ Become(c, "revoking")
          /\ queue' = [queue EXCEPT ![b] = Append(@, c)]
      BY <1>3 DEF BeginRevoke
    <2>2. /\ conn'[c].state = "revoking" /\ conn'[c].agent = b
          /\ \A d \in Conns \ {c} : conn'[d] = conn[d]
      BY <1>0, <2>1, ConnFacts
    <2>3. Joins(c)
      BY <2>1, <2>2 DEF Joins, Waiters
    <2>4. /\ QueuePlaced'
          /\ \A a \in Agents, d, e \in Conns \ {c} : Before(d, e, a) => Before(d, e, a)'
      BY <1>0, <2>3, JoinFacts
    <2>5. \A d \in Conns : Candidate(d)' <=> Candidate(d)
      BY <1>k, <2>1, <2>2
    <2>6. SpawnedAttended' /\ CandidateAccepted'
      <3>1. SpawnedAttended'
        BY <1>0, <2>1, <2>2 DEF SpawnedAttended
      <3>2. CandidateAccepted'
        BY <1>0, <2>1, <2>2, <2>5 DEF CandidateAccepted
      <3> QED
        BY <3>1, <3>2
    <2>7. CandidateLast'
      <3> SUFFICES ASSUME ~mut.cut, NEW e \in Conns, NEW d \in Conns, Candidate(e), d # e,
                          conn[d].agent = conn[e].agent, conn'[d].state = "waiting"
                   PROVE  /\ conn'[e].state \in {"spawned", "waiting"}
                          /\ conn'[e].state = "waiting" => \A a \in Agents : a = conn[e].agent => Before(d, e, a)'
        <4>1. \A d \in Conns : conn'[d].agent = conn[d].agent /\ conn[d].agent \in Agents
          BY <1>0, <2>2
        <4> QED
          BY <2>1, <2>5, <4>1, LastAfter
      <3>1. d # c /\ conn[d].agent = conn[e].agent /\ conn[d].state = "waiting"
        BY <2>2
      <3>2. /\ conn[e].state \in {"spawned", "waiting"}
            /\ conn[e].state = "waiting" => Before(d, e, conn[e].agent)
        BY <1>0, <3>1 DEF CandidateLast
      <3>3. e # c
        BY <2>1, <3>2
      <3> QED
        BY <1>0, <2>2, <2>4, <3>1, <3>2, <3>3
    <2> QED
      BY <2>4, <2>6, <2>7 DEF ConfPart
  <1>4. CASE Initialized(c) \/ Disconnect(c) \/ (BeginRevoke(c) /\ connections[b] # c)
    <2>1. /\ UNCHANGED <<queue, handles, connections, mut>>
          /\ conn[c].state \in {"configured", "serving", "closing"}
      BY <1>4 DEF Initialized, Disconnect, BeginRevoke
    <2>2. /\ conn'[c].agent = b /\ \A d \in Conns \ {c} : conn'[d] = conn[d]
          /\ \/ conn'[c].state \in {"closing", "closed"}
             \/ conn[c].state = "configured" /\ conn'[c].state = "serving"
      <3>1. CASE Disconnect(c)
        BY <1>0, <3>1, DisconnectFacts
      <3>2. CASE BeginRevoke(c) /\ connections[b] # c
        <4>1. Become(c, "closed")
          BY <3>2 DEF BeginRevoke
        <4> QED
          BY <1>0, <4>1, ConnFacts
      <3>3. CASE Initialized(c)
        <4>1. Become(c, "serving") /\ conn[c].state = "configured"
          BY <3>3 DEF Initialized
        <4> QED
          BY <1>0, <4>1, ConnFacts
      <3> QED
        BY <1>4, <3>1, <3>2, <3>3
    <2>3. /\ \A d \in Conns : Candidate(d)' <=> Candidate(d)
          /\ \A d \in Conns : conn[d].state = "spawned" => \A t \in Tasks :
               task[t].pc = "init" /\ task[t].conn = d => task'[t].pc = "init" /\ task'[t].conn = d
      <3>1. CASE Initialized(c)
        <4>1. PICK t \in Tasks : task[t].pc = "init" /\ task[t].conn = c /\ Goto(t, "publish")
          BY <3>1 DEF Initialized, At
        <4>2. /\ task'[t].pc = "publish" /\ task'[t].conn = c
              /\ \A v \in Tasks \ {t} : task'[v] = task[v]
          BY <1>0, <4>1, GotoFacts
        <4>3. \A d \in Conns : (\E v \in Tasks : task'[v].pc \in InitPcs /\ task'[v].conn = d) <=>
                               (\E v \in Tasks : task[v].pc \in InitPcs /\ task[v].conn = d)
          BY <4>1, <4>2 DEF InitPcs
        <4>4. \A d \in Conns : conn'[d].agent = conn[d].agent
          BY <2>2
        <4> QED
          BY <2>1, <4>1, <4>2, <4>3, <4>4 DEF Candidate
      <3>2. CASE ~Initialized(c)
        <4>1. UNCHANGED task
          BY <1>4, <3>2 DEF Disconnect, BeginRevoke
        <4> QED
          BY <1>k, <2>1, <2>2, <4>1
      <3> QED
        BY <3>1, <3>2
    <2>4. \A d \in Conns : /\ conn'[d].agent = conn[d].agent
                           /\ conn'[d].state \in Waiters <=> conn[d].state \in Waiters
                           /\ conn'[d].state = "waiting" <=> conn[d].state = "waiting"
                           /\ conn'[d].state = "spawned" <=> conn[d].state = "spawned"
      BY <2>1, <2>2 DEF Waiters
    <2>5. QueuePlaced'
      <3>1. \A a \in Agents : \A i \in 1..Len(queue[a]) : queue[a][i] \in Conns
        BY <1>0
      <3>2. \A a \in Agents : \A i, j \in 1..Len(queue[a]) :
              /\ conn'[queue[a][i]].agent = a /\ conn'[queue[a][i]].state \in Waiters
              /\ queue[a][i] = queue[a][j] => i = j
        BY <1>0, <2>4, <3>1 DEF QueuePlaced
      <3>3. \A d \in Conns : conn'[d].state \in Waiters =>
              \E i \in 1..Len(queue[conn'[d].agent]) : queue[conn'[d].agent][i] = d
        BY <1>0, <2>4 DEF QueuePlaced
      <3> QED
        BY <2>1, <3>2, <3>3 DEF QueuePlaced
    <2>6. SpawnedAttended'
      BY <1>0, <2>1, <2>3, <2>4 DEF SpawnedAttended
    <2>7. CandidateAccepted'
      BY <1>0, <2>1, <2>2, <2>3 DEF CandidateAccepted
    <2>8. CandidateLast'
      <3> SUFFICES ASSUME ~mut.cut, NEW e \in Conns, NEW d \in Conns, Candidate(e), d # e,
                          conn[d].agent = conn[e].agent, conn'[d].state = "waiting"
                   PROVE  /\ conn'[e].state \in {"spawned", "waiting"}
                          /\ conn'[e].state = "waiting" => \A a \in Agents : a = conn[e].agent => Before(d, e, a)'
        BY <1>0, <2>1, <2>3, <2>4, LastAfter
      <3>1. /\ conn[e].state \in {"spawned", "waiting"}
            /\ conn[e].state = "waiting" => Before(d, e, conn[e].agent)
        BY <1>0, <2>4 DEF CandidateLast
      <3>2. e # c
        BY <2>1, <3>1
      <3>3. \A a \in Agents : Before(d, e, a) => Before(d, e, a)'
        BY <2>1 DEF Before
      <3> QED
        BY <2>2, <3>1, <3>2, <3>3
    <2> QED
      BY <2>5, <2>6, <2>7, <2>8 DEF ConfPart
  <1>5. CASE StartCallback(c) \/ EndCallback(c)
    <2>1. UNCHANGED <<task, handles, connections, mut, conn, queue>>
      BY <1>5 DEF StartCallback, EndCallback
    <2>2. Calm
      BY <2>1 DEF Calm, Candidate
    <2> QED
      BY <2>2, CalmKeeps
  <1> QED
    BY <1>1, <1>2, <1>3, <1>4, <1>5 DEF ConnectionStep, PeerStep

\* A connection attempt that begins is the only candidate of its agent, and does
\* not wait yet.
LEMMA SpawnOrdered ==
  ASSUME PlaceInv, ConfPart, NEW t \in Tasks, NEW c \in Conns, Spawns(t, c)
  PROVE  ConfPart'
  <1>0. /\ task \in [Tasks -> TaskRows] /\ conn \in [Conns -> ConnRows] /\ queue \in [Agents -> Seq(Conns)]
        /\ NoConn \notin Conns /\ \A d \in Conns : conn[d].agent \in Agents
        /\ QueuePlaced /\ SpawnedAttended /\ CandidateLast /\ CandidateAccepted
    BY PlaceTypes DEF ConfPart
  <1>1. /\ conn[c].state = "closed" /\ conn'[c].state = "spawned"
        /\ \A d \in Conns \ {c} : conn'[d] = conn[d]
        /\ task'[t].pc = "init" /\ task'[t].conn = c /\ task[t].pc = "lock"
        /\ \A u \in Tasks \ {t} : task'[u] = task[u]
        /\ UNCHANGED <<handles, connections, queue, mut>>
    BY DEF Spawns
  <1>2. \A d \in Conns \ {c} : Candidate(d)' => Candidate(d)
    BY <1>1 DEF Candidate
  <1>3. \A a \in Agents : \A i \in 1..Len(queue[a]) : queue[a][i] \in Conns \ {c}
    BY <1>0, <1>1 DEF QueuePlaced, Waiters
  <1>4. QueuePlaced'
    <2>1. \A a \in Agents : \A i, j \in 1..Len(queue[a]) :
              /\ conn'[queue[a][i]].agent = a /\ conn'[queue[a][i]].state \in Waiters
              /\ queue[a][i] = queue[a][j] => i = j
      BY <1>0, <1>1, <1>3 DEF QueuePlaced
    <2>2. \A d \in Conns : conn'[d].state \in Waiters =>
              \E i \in 1..Len(queue[conn'[d].agent]) : queue[conn'[d].agent][i] = d
      BY <1>0, <1>1 DEF QueuePlaced, Waiters
    <2> QED
      BY <1>1, <2>1, <2>2 DEF QueuePlaced
  <1>5. SpawnedAttended'
    <2> SUFFICES ASSUME ~mut.cut, NEW d \in Conns, conn'[d].state = "spawned"
                 PROVE  \E u \in Tasks : task'[u].pc = "init" /\ task'[u].conn = d
      BY <1>1 DEF SpawnedAttended
    <2>1. CASE d = c
      BY <1>1, <2>1
    <2>2. CASE d # c
      <3>1. PICK u \in Tasks : task[u].pc = "init" /\ task[u].conn = d
        BY <1>0, <1>1, <2>2 DEF SpawnedAttended
      <3> QED
        BY <1>1, <3>1
    <2> QED
      BY <2>1, <2>2
  <1>6. CandidateAccepted'
    BY <1>0, <1>1, <1>2 DEF CandidateAccepted
  <1>7. CandidateLast'
    <2> SUFFICES ASSUME ~mut.cut, NEW e \in Conns, NEW d \in Conns, Candidate(e)', d # e,
                        conn'[d].agent = conn'[e].agent, conn'[d].state = "waiting"
                 PROVE  /\ conn'[e].state \in {"spawned", "waiting"}
                        /\ conn'[e].state = "waiting" => Before(d, e, conn[e].agent)'
      BY <1>1 DEF CandidateLast
    <2>1. d # c
      BY <1>1
    <2>2. CASE e = c
      BY <1>1, <2>2
    <2>3. CASE e # c
      <3>1. /\ conn[e].state \in {"spawned", "waiting"}
            /\ conn[e].state = "waiting" => Before(d, e, conn[e].agent)
        BY <1>0, <1>1, <1>2, <2>1, <2>3 DEF CandidateLast
      <3>2. conn'[e] = conn[e]
        BY <1>1, <2>3
      <3>3. Before(d, e, conn[e].agent) => Before(d, e, conn[e].agent)'
        BY <1>1, <3>2 DEF Before
      <3> QED
        BY <3>1, <3>2, <3>3
    <2> QED
      BY <2>2, <2>3
  <1> QED
    BY <1>4, <1>5, <1>6, <1>7 DEF ConfPart

\* The order of the queue is inductive.
LEMMA ConfInductive ==
  /\ Init => ConfPart
  /\ PlaceInv /\ ConfPart /\ [Next]_vars => ConfPart'
  <1>1. ASSUME Init PROVE ConfPart
    <2>1. /\ \A c \in Conns : conn[c].state = "closed"
          /\ \A a \in Agents : queue[a] = <<>>
      BY <1>1 DEF Init, Unused
    <2>2. \A a \in Agents : \A i \in 1..Len(queue[a]) : FALSE
      BY <2>1
    <2> QED
      BY <2>1, <2>2 DEF ConfPart, QueuePlaced, SpawnedAttended, CandidateLast, CandidateAccepted, Waiters
  <1>2. ASSUME PlaceInv, ConfPart, [Next]_vars PROVE ConfPart'
    <2>1. CASE UNCHANGED vars
      <3>1. Calm
        BY <2>1 DEF vars, Calm, Candidate
      <3> QED
        BY <1>2, <3>1, CalmKeeps
    <2>2. CASE BeginMutation \/ MutationStep \/ AbortTeardown
      BY <1>2, <2>2, MutationsCalm, CalmKeeps
    <2>3. CASE \E c \in Conns : ConnectionStep(c) \/ PeerStep(c)
      BY <1>2, <2>3, ConnectionsOrdered
    <2>4. CASE \E u \in Tasks, c \in Conns : Spawns(u, c)
      BY <1>2, <2>4, SpawnOrdered
    <2>5. CASE /\ ~(BeginMutation \/ MutationStep \/ AbortTeardown)
               /\ ~\E u \in Tasks, c \in Conns : Spawns(u, c)
               /\ \E t \in Tasks : \/ \E k \in Kinds, a \in Agents : Begin(t, k, a)
                                   \/ RequestStep(t) \/ AgentStep(t) \/ AbortRequest(t)
      BY <1>2, <2>5, RequestsCalm, CalmKeeps
    <2> QED
      BY <1>2, <2>1, <2>2, <2>3, <2>4, <2>5 DEF Next
  <1> QED
    BY <1>1, <1>2

\* Unless a connection attempt or a teardown is cut short by the loss of a
\* client, the handle requests are given is built from the configuration the
\* registry shows, proxies included, and is the connection the callback context
\* accepts (hub/registry.rs agent_handle and mutate_registry).
THEOREM HandlesAreCurrent == Spec => []RegistryInv
  <1>1. PlaceInv /\ ConfPart => HandleConfigured
    <2> SUFFICES ASSUME PlaceInv, ConfPart, ~mut.cut, NEW a \in Agents, handles[a] # NoConn,
                        conn[handles[a]].state = "serving"
                 PROVE  connections[a] = handles[a]
      BY DEF HandleConfigured
    <2>1. handles[a] \in Conns /\ conn[handles[a]].agent = a
      BY PlaceTypes DEF PlacePart, HandlePlaced
    <2>2. Candidate(handles[a])
      BY <2>1 DEF Candidate
    <2> QED
      BY <2>1, <2>2 DEF ConfPart, CandidateAccepted
  <1>2. PlaceInv => RegTypeOK
    BY DEF PlaceInv
  <1>3. PlaceInv /\ ConfPart /\ HandleCurrent => RegistryInv
    BY <1>1, <1>2 DEF RegistryInv
  <1> QED
    BY <1>2, <1>3, PlaceInductive, AffectsInductive, CurrentInductive, ConfInductive, PTL DEF Spec
=============================================================================
