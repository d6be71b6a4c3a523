--------------------------- MODULE LayeredHistory ---------------------------
(***************************************************************************)
(* What the store promises about the history of one conversation.  It has  *)
(* two layers: what the agent says the history is (original, replaced as a *)
(* whole by each refresh) and what the hub saw itself (local, only ever    *)
(* appended to).  A refresh collects a draft; it takes the place of the    *)
(* original layer and of the snapshots in one step, or disappears without  *)
(* a trace.  Replaced layers are kept for the audit.  Rows, sequence       *)
(* numbers, markers, before images and time stamps do not appear here:     *)
(* Projection shows that they implement this.                              *)
(***************************************************************************)
EXTENDS Integers, Sequences

CONSTANTS
  Updates, \* the numbers of updates; 0 stands for no update
  NoDraft

VARIABLES
  original, \* Layer 1: what the agent replayed last
  local,    \* Layer 2: what the hub captured in its own turns
  audit,    \* the layers that a refresh has replaced
  static,   \* the snapshots: plan, config and info
  draft     \* the refresh in progress, or NoDraft

absVars == <<original, local, audit, static, draft>>

Statics == {"plan", "config", "info"}

AbsInit ==
  /\ original = <<>> /\ local = <<>> /\ audit = <<>>
  /\ static = [k \in Statics |-> 0]
  /\ draft = NoDraft

\* A refresh begins with no rows and no plan: the agent has to send both.
Begin ==
  /\ draft = NoDraft
  /\ draft' = [rows |-> <<>>, static |-> [static EXCEPT !["plan"] = 0]]
  /\ UNCHANGED <<original, local, audit, static>>

\* The agent replays a message.  One that comes after the refresh joins the layer.
Original(u) ==
  /\ IF draft = NoDraft
     THEN original' = Append(original, u) /\ UNCHANGED draft
     ELSE draft' = [draft EXCEPT !.rows = Append(@, u)] /\ UNCHANGED original
  /\ UNCHANGED <<local, audit, static>>

Local(u) ==
  /\ local' = Append(local, u)
  /\ UNCHANGED <<original, audit, static, draft>>

SetStatic(k, u) ==
  /\ IF draft = NoDraft
     THEN static' = [static EXCEPT ![k] = u] /\ UNCHANGED draft
     ELSE draft' = [draft EXCEPT !.static[k] = u] /\ UNCHANGED static
  /\ UNCHANGED <<original, local, audit>>

\* The draft becomes the history, with the configuration the agent reported (0: none).
Commit(c) ==
  /\ draft # NoDraft
  /\ audit' = audit \o original
  /\ original' = draft.rows
  /\ static' = [draft.static EXCEPT !["config"] = c]
  /\ draft' = NoDraft
  /\ UNCHANGED local

Abort ==
  /\ draft # NoDraft
  /\ draft' = NoDraft
  /\ UNCHANGED <<original, local, audit, static>>

AbsNext ==
  \/ Begin \/ Abort
  \/ \E u \in Updates : Original(u) \/ Local(u)
  \/ \E k \in Statics, u \in Updates : SetStatic(k, u)
  \/ \E c \in Updates \cup {0} : Commit(c)

LayeredSpec == AbsInit /\ [][AbsNext]_absVars
=============================================================================
