--------------------------- MODULE AgentRegistry ----------------------------
(***************************************************************************)
(* The agent registry and the connections built from it                    *)
(* (crates/hub/src/hub/registry.rs, callbacks/connection.rs, acp.rs,       *)
(* endpoint.rs): agent_handle, which connects to an agent on first use,    *)
(* the connection task and its command loop, the generation gate between   *)
(* them, and mutate_registry, which replaces agents while they are used.   *)
(*                                                                         *)
(* A request either holds an operation (prompt, close, bind ...) or is a   *)
(* query (list sessions, authenticate, logout).  Edits of agents.json by   *)
(* other programs are left out: the specification declares them            *)
(* unsupported.                                                            *)
(***************************************************************************)
EXTENDS Naturals, Sequences

CONSTANTS Agents,
          Chained,       \* the agents whose proxyChain names the proxy
          Confs, NoConf, \* agent configurations; not registered
          ProxyConfs,    \* configurations of the proxy
          Tasks, NoTask,
          Mutator,       \* the request inside mutate_registry
          Conns, NoConn, \* connection ids
          Kinds,         \* the requests clients issue: "op", "query"
          ClientAborts,  \* whether a client connection may be torn down
          MaxMutations   \* how many mutations are begun

ASSUME RegistryAssumption ==
  /\ Agents # {} /\ Chained \subseteq Agents
  /\ NoConf \notin Confs
  /\ NoTask \notin Tasks /\ Mutator \notin Tasks /\ Mutator # NoTask
  /\ NoConn \notin Conns
  /\ Kinds \subseteq {"op", "query"}
  /\ ClientAborts \in BOOLEAN
  /\ MaxMutations \in Nat

VARIABLES registry,     \* CoreHub.registry
          fingerprint,  \* CoreHub.registry_fingerprint; 0 is None
          epoch,        \* CoreHub.registry_epoch
          disk,         \* agents.json: its content and its fingerprint
          handles,      \* CoreHub.handles
          initLock,     \* holder of the handle_inits mutex of an agent
          connections,  \* HubCtx.agent_connections
          conn,         \* the connection tasks
          queue,        \* connection tasks waiting for the generation writer
          writers,      \* agents whose generation writer mutate_registry holds
          inbound,      \* connections with a callback in progress
          task,         \* the requests
          mut           \* the mutation in progress; cut: the loss of a client has
                        \* cut a connection attempt or a teardown short

regVars  == <<registry, fingerprint, epoch, disk>>
connVars == <<connections, conn, queue, inbound>>
vars     == <<registry, fingerprint, epoch, disk, handles, initLock, connections, conn, queue,
              writers, inbound, task, mut>>

Registries == [agents : [Agents -> Confs \cup {NoConf}], proxy : ProxyConfs]

\* What a connection is built from: build_endpoint_component.
Endpoint(reg, a) == [conf |-> reg.agents[a], proxy |-> IF a \in Chained THEN {reg.proxy} ELSE {}]
Endpoints == [conf : Confs \cup {NoConf}, proxy : SUBSET ProxyConfs]

Unused     == [agent |-> CHOOSE a \in Agents : TRUE, from |-> [conf |-> NoConf, proxy |-> {}],
               state |-> "closed", cmd |-> NoTask]
Request(kind, a, pc, c, read) ==
  [kind |-> kind, agent |-> a, pc |-> pc, conn |-> c, epoch |-> read]
IdleTask   == Request("none", CHOOSE a \in Agents : TRUE, "idle", NoConn, 0)
NoMutation(reg, count, cut) == [pc |-> "idle", next |-> reg, affected |-> {}, live |-> {},
                                saved |-> TRUE, count |-> count, cut |-> cut]

ConnStates == {"spawned", "waiting", "configured", "serving", "closing", "revoking", "closed"}

RegTypeOK ==
  /\ registry \in Registries /\ epoch \in Nat /\ fingerprint \in Nat
  /\ disk \in [reg : Registries, stamp : Nat]
  /\ handles \in [Agents -> Conns \cup {NoConn}]
  /\ connections \in [Agents -> Conns \cup {NoConn}]
  /\ initLock \in [Agents -> Tasks \cup {NoTask, Mutator}]
  /\ conn \in [Conns -> [agent : Agents, from : Endpoints, state : ConnStates,
                         cmd : Tasks \cup {NoTask}]]
  /\ \A c \in Conns : conn[c].state # "closed" => conn[c].from.conf # NoConf
  /\ queue \in [Agents -> Seq(Conns)]
  /\ writers \in SUBSET Agents /\ inbound \in SUBSET Conns
  /\ task \in [Tasks -> [kind : {"none", "op", "query"}, agent : Agents,
                         pc : {"idle", "handle", "lock", "init", "publish", "send", "queued", "exec"},
                         conn : Conns \cup {NoConn}, epoch : Nat]]
  /\ mut \in [pc : {"idle", "locks", "writers", "save", "verify", "teardown"},
              next : Registries, affected : SUBSET Agents, live : SUBSET Agents,
              saved : BOOLEAN, count : 0..MaxMutations, cut : BOOLEAN]

Init ==
  /\ registry \in Registries /\ disk = [reg |-> registry, stamp |-> 1]
  /\ fingerprint = 1 /\ epoch = 0
  /\ handles = [a \in Agents |-> NoConn] /\ connections = [a \in Agents |-> NoConn]
  /\ initLock = [a \in Agents |-> NoTask] /\ writers = {}
  /\ conn = [c \in Conns |-> Unused] /\ queue = [a \in Agents |-> <<>>] /\ inbound = {}
  /\ task = [t \in Tasks |-> IdleTask]
  /\ mut = NoMutation(registry, 0, FALSE)
-----------------------------------------------------------------------------
At(t, pc)   == task[t].pc = pc
Goto(t, pc) == task' = [task EXCEPT ![t].pc = pc]
End(t)      == task' = [task EXCEPT ![t] = IdleTask]
Uses(t, c)  ==
  task' = [task EXCEPT ![t] = Request(task[t].kind, task[t].agent, "send", c, task[t].epoch)]
Unlock(a)   == initLock' = [initLock EXCEPT ![a] = NoTask]
Become(c, state) == conn' = [conn EXCEPT ![c].state = state]

\* Nobody holds the commands or the callbacks lock of the agent's gate.
GateIdle(a) ==
  /\ a \notin writers
  /\ \A c \in Conns : conn[c].agent = a => conn[c].cmd = NoTask /\ c \notin inbound

\* The sender half of the command channel exists somewhere.
Referenced(c) == (\E a \in Agents : handles[a] = c) \/ (\E t \in Tasks : task[t].conn = c)

\* evict_handle_if_current
Evict(t) ==
  handles' = IF handles[task[t].agent] = task[t].conn
             THEN [handles EXCEPT ![task[t].agent] = NoConn] ELSE handles
-----------------------------------------------------------------------------
(***************************************************************************)
(* agent_handle                                                            *)
(***************************************************************************)
\* An operation is reserved before the handle is looked up.
Begin(t, k, a) ==
  /\ At(t, "idle") /\ k \in Kinds
  /\ task' = [task EXCEPT ![t] = Request(k, a, "handle", NoConn, 0)]
  /\ UNCHANGED <<regVars, handles, initLock, connVars, writers, mut>>

FindHandle(t) ==
  LET c == handles[task[t].agent] IN
  /\ At(t, "handle")
  /\ IF c # NoConn THEN Uses(t, c) ELSE Goto(t, "lock")
  /\ UNCHANGED <<regVars, handles, initLock, connVars, writers, mut>>

Registered(a) == registry.agents[a] # NoConf

\* Under the initialiser's lock: look again, read the registry and spawn the
\* connection.  A closed connection nobody refers to stands for a new one.
SpawnConnection(t) ==
  LET a == task[t].agent IN
  /\ At(t, "lock") /\ initLock[a] = NoTask
  /\ \/ handles[a] # NoConn /\ Uses(t, handles[a]) /\ UNCHANGED <<initLock, conn>>
     \/ /\ handles[a] = NoConn /\ ~Registered(a)
        /\ End(t) /\ UNCHANGED <<initLock, conn>>
     \/ /\ handles[a] = NoConn /\ Registered(a)
        /\ \E c \in {d \in Conns : conn[d].state = "closed" /\ ~Referenced(d)} :
             /\ conn' = [conn EXCEPT ![c] = [agent |-> a, from |-> Endpoint(registry, a),
                                             state |-> "spawned", cmd |-> NoTask]]
             /\ task' = [task EXCEPT ![t] = Request(task[t].kind, a, "init", c, epoch)]
        /\ initLock' = [initLock EXCEPT ![a] = t]
  /\ UNCHANGED <<regVars, handles, connections, queue, inbound, writers, mut>>

\* The connection failed, or 30 seconds passed, in which its task has been
\* polled; the receiver is dropped.
InitFails(t) ==
  /\ At(t, "init") /\ conn[task[t].conn].state # "spawned"
  /\ End(t) /\ Unlock(task[t].agent)
  /\ UNCHANGED <<regVars, handles, connVars, writers, mut>>

StillCurrent(t) ==
  /\ epoch = task[t].epoch
  /\ registry.agents[task[t].agent] = conn[task[t].conn].from.conf

\* The registry is compared again, the capabilities are cached (which may
\* fail) and the handle is published.
PublishHandle(t) ==
  LET a == task[t].agent  c == task[t].conn IN
  /\ At(t, "publish")
  /\ \/ StillCurrent(t) /\ handles' = [handles EXCEPT ![a] = c] /\ Uses(t, c)
     \/ End(t) /\ UNCHANGED handles
  /\ Unlock(a)
  /\ UNCHANGED <<regVars, connVars, writers, mut>>
-----------------------------------------------------------------------------
(***************************************************************************)
(* Commands: the handle's queue, request_agent and enqueue_operation.      *)
(***************************************************************************)
\* A closed command loop ends the request; only queries evict the handle.
SendCommand(t) ==
  LET c == task[t].conn IN
  /\ At(t, "send")
  /\ IF conn[c].state = "serving"
     THEN Goto(t, "queued") /\ UNCHANGED handles
     ELSE End(t) /\ IF task[t].kind = "query" THEN Evict(t) ELSE UNCHANGED handles
  /\ UNCHANGED <<regVars, initLock, connVars, writers, mut>>

\* The loop and everything in it is gone: the reply is dropped.  The client
\* that would have evicted the handle may be gone as well.
LoseReply(t) ==
  /\ At(t, "queued") \/ At(t, "exec")
  /\ conn[task[t].conn].state # "serving"
  /\ End(t)
  /\ \/ task[t].kind = "query" /\ Evict(t)
     \/ (task[t].kind = "op" \/ ClientAborts) /\ UNCHANGED handles
  /\ UNCHANGED <<regVars, initLock, connVars, writers, mut>>

\* Mutant: the lease is granted to a connection that has been replaced.
AnyLease(c) == TRUE

\* HubCtx::connection
LeaseGranted(c) == connections[conn[c].agent] = c

\* run_command_loop: acquire_connection_lease, or reject_stale_command.  The
\* order among the waiters of the gate is left open here.
StartCommand(t) ==
  LET c == task[t].conn IN
  /\ At(t, "queued") /\ conn[c].state = "serving"
  /\ conn[c].cmd = NoTask /\ conn[c].agent \notin writers
  /\ IF LeaseGranted(c)
     THEN conn' = [conn EXCEPT ![c].cmd = t] /\ Goto(t, "exec")
     ELSE End(t) /\ UNCHANGED conn
  /\ UNCHANGED <<regVars, handles, initLock, connections, queue, inbound, writers, mut>>

\* An operation may send several commands with the handle it looked up.
EndCommand(t) ==
  LET c == task[t].conn IN
  /\ At(t, "exec") /\ conn[c].cmd = t
  /\ conn' = [conn EXCEPT ![c].cmd = NoTask]
  /\ \/ End(t)
     \/ task[t].kind = "op" /\ Goto(t, "send")
  /\ UNCHANGED <<regVars, handles, initLock, connections, queue, inbound, writers, mut>>

\* handle_client_io aborts a request; a command that has been sent goes on.
AbortRequest(t) ==
  /\ ClientAborts
  /\ task[t].pc \in {"handle", "lock", "init", "publish", "send"}
  /\ End(t)
  /\ IF initLock[task[t].agent] = t THEN Unlock(task[t].agent) ELSE UNCHANGED initLock
  /\ mut' = [mut EXCEPT !.cut = @ \/ task[t].pc \in {"init", "publish"}]
  /\ UNCHANGED <<regVars, handles, connVars, writers>>
-----------------------------------------------------------------------------
(***************************************************************************)
(* The connection task.                                                    *)
(***************************************************************************)
\* It asks for the generation writer, which is granted in order of requests.
JoinGate(c) ==
  /\ conn[c].state = "spawned"
  /\ Become(c, "waiting")
  /\ queue' = [queue EXCEPT ![conn[c].agent] = Append(@, c)]
  /\ UNCHANGED <<regVars, handles, initLock, connections, inbound, writers, task, mut>>

Granted(c) ==
  LET a == conn[c].agent IN queue[a] # <<>> /\ Head(queue[a]) = c /\ GateIdle(a)

\* configure_agent_async
Configure(c) ==
  LET a == conn[c].agent IN
  /\ conn[c].state = "waiting" /\ Granted(c)
  /\ connections' = [connections EXCEPT ![a] = c]
  /\ queue' = [queue EXCEPT ![a] = Tail(@)]
  /\ Become(c, "configured")
  /\ UNCHANGED <<regVars, handles, initLock, inbound, writers, task, mut>>

\* initialize succeeded and somebody still waits for the handle.
Initialized(c) ==
  /\ conn[c].state = "configured"
  /\ \E t \in Tasks : At(t, "init") /\ task[t].conn = c /\ Goto(t, "publish")
  /\ Become(c, "serving")
  /\ UNCHANGED <<regVars, handles, initLock, connections, queue, inbound, writers, mut>>

\* initialize failed or nobody waits; the agent exits; the last handle is
\* dropped and the command loop ends.
Disconnect(c) ==
  /\ conn[c].state \in {"configured", "serving"}
  /\ conn' = [conn EXCEPT ![c].state = "closing", ![c].cmd = NoTask]
  /\ inbound' = inbound \ {c}
  /\ UNCHANGED <<regVars, handles, initLock, connections, queue, writers, task, mut>>

\* revoke_connection: nothing to do, or wait for the generation writer.
BeginRevoke(c) ==
  LET a == conn[c].agent IN
  /\ conn[c].state = "closing"
  /\ IF connections[a] = c
     THEN Become(c, "revoking") /\ queue' = [queue EXCEPT ![a] = Append(@, c)]
     ELSE Become(c, "closed") /\ UNCHANGED queue
  /\ UNCHANGED <<regVars, handles, initLock, connections, inbound, writers, task, mut>>

\* Mutant: the entry of the agent is removed whoever owns it by now.
RevokedBlindly(c) == NoConn

Revoked(c) == LET a == conn[c].agent IN IF connections[a] = c THEN NoConn ELSE connections[a]

EndRevoke(c) ==
  LET a == conn[c].agent IN
  /\ conn[c].state = "revoking" /\ Granted(c)
  /\ connections' = [connections EXCEPT ![a] = Revoked(c)]
  /\ queue' = [queue EXCEPT ![a] = Tail(@)]
  /\ Become(c, "closed")
  /\ UNCHANGED <<regVars, handles, initLock, inbound, writers, task, mut>>

\* try_acquire_connection_lease for a request or notification of the agent.
StartCallback(c) ==
  LET a == conn[c].agent IN
  /\ conn[c].state \in {"configured", "serving"} /\ c \notin inbound
  /\ queue[a] = <<>> \/ \E d \in Conns : conn[d].agent = a /\ conn[d].cmd # NoTask
  /\ a \notin writers
  /\ LeaseGranted(c)
  /\ inbound' = inbound \cup {c}
  /\ UNCHANGED <<regVars, handles, initLock, connections, conn, queue, writers, task, mut>>

EndCallback(c) ==
  /\ c \in inbound
  /\ inbound' = inbound \ {c}
  /\ UNCHANGED <<regVars, handles, initLock, connections, conn, queue, writers, task, mut>>
-----------------------------------------------------------------------------
(***************************************************************************)
(* mutate_registry; registry_mutation admits one at a time.                *)
(***************************************************************************)
\* Mutant: agents that reach a changed proxy are not affected by it.
ChangedAgents(current, next) == {a \in Agents : current.agents[a] # next.agents[a]}

\* affected_agent_ids
AffectedAgents(current, next) ==
  {a \in Agents :
     \/ current.agents[a] # next.agents[a]
     \/ /\ a \in Chained /\ current.proxy # next.proxy
        /\ current.agents[a] # NoConf \/ next.agents[a] # NoConf}

\* register_agent, remove_agent and register_proxy.  (Only a proxy nobody uses
\* can be removed, which concerns no connection.)
Mutations(reg) ==
  {[reg EXCEPT !.agents[a] = f] : a \in Agents, f \in Confs \cup {NoConf}}
    \cup {[reg EXCEPT !.proxy = p] : p \in ProxyConfs}

\* Drop every guard; what has been decided so far is forgotten.
ReleaseGuards ==
  /\ initLock' = [a \in Agents |-> IF initLock[a] = Mutator THEN NoTask ELSE initLock[a]]
  /\ writers' = {}
EndMutation == ReleaseGuards /\ mut' = NoMutation(registry, mut.count, mut.cut)

\* agents.json must be the daemon's, and no operation may use an affected
\* agent.
BeginMutation ==
  /\ mut.pc = "idle" /\ mut.count < MaxMutations
  /\ disk.stamp = fingerprint
  /\ \E next \in Mutations(registry) \ {registry} :
       LET affected == AffectedAgents(registry, next) IN
       /\ ~\E t \in Tasks : task[t].kind = "op" /\ task[t].agent \in affected
       /\ mut' = [pc |-> "locks", next |-> next, affected |-> affected, live |-> {},
                  saved |-> TRUE, count |-> mut.count + 1, cut |-> mut.cut]
  /\ UNCHANGED <<regVars, handles, initLock, connVars, writers, task>>

\* The initialiser locks one by one, then a look at the live handles.
TakeInitLocks ==
  /\ mut.pc = "locks"
  /\ \/ /\ \E a \in mut.affected :
             initLock[a] = NoTask /\ initLock' = [initLock EXCEPT ![a] = Mutator]
        /\ UNCHANGED mut
     \/ /\ \A a \in mut.affected : initLock[a] = Mutator
        /\ mut' = [mut EXCEPT !.pc = "writers",
                              !.live = {a \in mut.affected : handles[a] # NoConn}]
        /\ UNCHANGED initLock
  /\ UNCHANGED <<regVars, handles, connVars, writers, task>>

\* Mutant: commands in progress do not keep the writer out.
WriterFreeAnyway(a) == queue[a] = <<>>

\* try_agent_generation_writer succeeds.
WriterFree(a) == GateIdle(a) /\ queue[a] = <<>>

\* Polled until every live connection is quiet.
TakeWriters ==
  /\ mut.pc = "writers"
  /\ \/ /\ \E a \in mut.live \ writers : WriterFree(a) /\ writers' = writers \cup {a}
        /\ UNCHANGED mut
     \/ mut.live \subseteq writers /\ mut' = [mut EXCEPT !.pc = "save"] /\ UNCHANGED writers
  /\ UNCHANGED <<regVars, handles, initLock, connVars, task>>

\* The bounded waits run out, or the client goes away.
GiveUp ==
  /\ mut.pc \in {"locks", "writers"}
  /\ EndMutation
  /\ UNCHANGED <<regVars, handles, connVars, task>>

\* Registry::save: an error before or after the rename.
SaveRegistry ==
  /\ mut.pc = "save"
  /\ \/ /\ disk' = [reg |-> mut.next, stamp |-> disk.stamp + 1]
        /\ \E ok \in BOOLEAN : mut' = [mut EXCEPT !.pc = "verify", !.saved = ok]
     \/ UNCHANGED disk /\ mut' = [mut EXCEPT !.pc = "verify", !.saved = FALSE]
  /\ UNCHANGED <<registry, fingerprint, epoch, handles, initLock, connVars, writers, task>>

\* Mutant: what the file says after a failed save is ignored.
CommittedAnyway == TRUE

\* The file shows the new registry, or was saved and cannot be read back.
Committed == disk.reg = mut.next \/ mut.saved
\* The file shows another one, or the save failed and it cannot be read back.
Uncommitted == disk.reg # mut.next \/ ~mut.saved

\* The file is read back; memory, fingerprint and epoch follow it.
PublishRegistry ==
  /\ mut.pc = "verify"
  /\ \/ /\ Committed
        /\ registry' = mut.next /\ epoch' = epoch + 1
        /\ fingerprint' \in {disk.stamp, 0}
        /\ mut' = [mut EXCEPT !.pc = "teardown"]
        /\ UNCHANGED <<initLock, writers>>
     \/ Uncommitted /\ UNCHANGED <<registry, fingerprint, epoch>> /\ EndMutation
  /\ UNCHANGED <<disk, handles, connVars, task>>

\* After the await on the handle table: revoke_agent_locked and remove.
Teardown ==
  /\ mut.pc = "teardown"
  /\ connections' = [a \in Agents |-> IF a \in mut.affected THEN NoConn ELSE connections[a]]
  /\ handles'     = [a \in Agents |-> IF a \in mut.affected THEN NoConn ELSE handles[a]]
  /\ EndMutation
  /\ UNCHANGED <<regVars, conn, queue, inbound, task>>

\* The client goes away at that await.
AbortTeardown ==
  /\ ClientAborts /\ mut.pc = "teardown"
  /\ ReleaseGuards /\ mut' = NoMutation(registry, mut.count, TRUE)
  /\ UNCHANGED <<regVars, handles, connVars, task>>
-----------------------------------------------------------------------------
RequestStep(t) ==
  \/ FindHandle(t) \/ SpawnConnection(t) \/ InitFails(t) \/ PublishHandle(t)
  \/ SendCommand(t) \/ LoseReply(t)

AgentStep(t) == StartCommand(t) \/ EndCommand(t)

ConnectionStep(c) ==
  JoinGate(c) \/ Configure(c) \/ BeginRevoke(c) \/ EndRevoke(c)

PeerStep(c) == Initialized(c) \/ Disconnect(c) \/ StartCallback(c) \/ EndCallback(c)

MutationStep ==
  \/ TakeInitLocks \/ TakeWriters \/ GiveUp \/ SaveRegistry \/ PublishRegistry \/ Teardown

Next ==
  \/ \E t \in Tasks :
       \/ \E k \in Kinds, a \in Agents : Begin(t, k, a)
       \/ RequestStep(t) \/ AgentStep(t) \/ AbortRequest(t)
  \/ \E c \in Conns : ConnectionStep(c) \/ PeerStep(c)
  \/ BeginMutation \/ MutationStep \/ AbortTeardown

Spec == Init /\ [][Next]_vars
-----------------------------------------------------------------------------
(***************************************************************************)
(* Properties.                                                             *)
(***************************************************************************)

\* The handle requests are given belongs to a connection that was built from
\* the configuration the registry shows, proxies included, except while the
\* mutation that replaces it tears it down.  (A teardown cut short by the loss
\* of the client that asked for it leaves the replaced handle behind.)
HandleCurrent ==
  ~mut.cut => \A a \in Agents : handles[a] # NoConn =>
    \/ conn[handles[a]].from = Endpoint(registry, a)
    \/ mut.pc = "teardown" /\ a \in mut.affected

\* A command only ever runs on the connection the callbacks accept; a
\* replaced connection never works on in the background.
CommandsCurrent ==
  \A c \in Conns : conn[c].cmd # NoTask => connections[conn[c].agent] = c

\* A published handle that still serves commands is the connection the
\* callback context knows; otherwise every command would be refused as stale
\* while no request replaces the handle.  (A connection attempt cut short by
\* the loss of its client may still configure itself over a later one.)
HandleConfigured ==
  ~mut.cut => \A a \in Agents : handles[a] # NoConn /\ conn[handles[a]].state = "serving" =>
    connections[a] = handles[a]

\* Whatever fails in saving and reading back agents.json: as long as the
\* fingerprints agree, so that the daemon answers from memory, memory is what
\* the file says.
ServedIsDisk ==
  fingerprint = disk.stamp => registry = disk.reg

\* A configuration is never replaced under a command of an agent it affects.
NoCommitUnderCommand ==
  [][registry' # registry =>
       \A c \in Conns : conn[c].agent \in AffectedAgents(registry, registry') =>
         conn[c].cmd = NoTask]_vars

\* Unless a mutation or a connection attempt was cut off, what requests are
\* given is usable: the handle of an agent is built from the configuration in
\* force and is the connection that the callbacks accept.
RegistryInv ==
  RegTypeOK /\ HandleCurrent /\ HandleConfigured
=============================================================================
