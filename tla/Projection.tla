----------------------------- MODULE Projection -----------------------------
(***************************************************************************)
(* The stored history of one conversation and those who read it: the       *)
(* capture of updates into rows and snapshots (callbacks/capture.rs,       *)
(* store/snapshots.rs), the refresh of the agent's own history             *)
(* (store/replay.rs, hub/conversation.rs, acp/command_loop.rs), the pages  *)
(* of messages and their cursors (store/paging.rs), a client that reads    *)
(* them all (hub/client.rs) and one that waits for a run (hub/wait.rs).    *)
(*                                                                         *)
(* An update is its number; the number of the update that wrote a snapshot *)
(* also stands for the time stamp of the write, so stamps never repeat     *)
(* (now_iso has nanoseconds, and a session/load lies between the stamps    *)
(* that are compared).  The rows are a sequence ordered by seq; seq 0 is   *)
(* no sequence number.  One handler at a time captures for a connection.   *)
(* The operation lease keeps turns and refreshes apart (HubOps).  A        *)
(* session/resume refresh differs from session/load in the request only.   *)
(* The search index and the merged transcript are left out.                *)
(***************************************************************************)
EXTENDS Integers, Sequences, SequencesExt, FiniteSets

CONSTANTS
  Size(_),    \* the size in bytes of the row of an update
  PageRows,   \* the rows of a page: 500 for messages, 200 for wait
  PageBytes,  \* MAX_MESSAGE_PAGE_BYTES
  MaxRows,    \* MAX_MATERIALIZED_MESSAGE_ROWS
  MaxUpdates, \* bound: updates
  MaxLoads,   \* bound: refreshes
  MaxRuns,    \* bound: turns
  MaxFaults,  \* bound: store failures and restarts of the daemon
  None

ASSUME ProjectionAssumption ==
  /\ \A u \in 1 .. MaxUpdates : Size(u) \in Nat \ {0}
  /\ {PageRows, PageBytes, MaxRows, MaxUpdates, MaxLoads, MaxRuns, MaxFaults} \subseteq Nat
  /\ PageRows > 0 /\ None \notin Nat

VARIABLES
  rows,   \* messages of the conversation, by seq
  gen,    \* projection_generation
  static, \* the snapshots and the title, as the update that wrote them (0: none)
  marker, \* load_replay_refreshes and its before image, or None
  load,   \* the refresh: idle, queued, loading, ok, bad, commit or rollback
  bound,  \* the session has a binding
  hand,   \* the handler of an update, once it has read source and run, or None
  run,    \* the latest run: its number and what its turn has done
  reader, \* a client that reads pages
  last, loads, faults

store == <<rows, gen, static, marker>>
history == <<store, load, bound, hand, run, last, loads>>
vars == <<rows, gen, static, marker, load, bound, hand, run, reader, last, loads, faults>>

Statics == {"plan", "config", "info"}
NoReader == [pc |-> "idle", mode |-> "current", run |-> 0, seq |-> 0, cursor |-> None,
             seen |-> {}, got |-> <<>>]

Init ==
  /\ rows = <<>> /\ gen = 0 /\ static = [k \in Statics |-> 0] /\ marker = None
  /\ load = "idle" /\ bound = TRUE /\ hand = None
  /\ run = [id |-> 0, pc |-> "ended"]
  /\ reader = NoReader
  /\ last = 0 /\ loads = 0 /\ faults = 0

max_seq == IF rows = <<>> THEN 0 ELSE Last(rows).seq

\* The turn or the refresh holds the operation lease of the conversation.
idle == load = "idle" /\ run.pc = "ended"

reading == reader.pc \in {"read", "poll", "check", "late"}

\* One more update than those written and the one in the handler.
room == last + (IF hand = None THEN 0 ELSE 1) < MaxUpdates

store_error == faults < MaxFaults /\ faults' = faults + 1

-----------------------------------------------------------------------------
(* capture_bound_update reads which run is current and whether the session *)
(* is being loaded, under two locks; the marker of the load is set by the  *)
(* task that runs this handler, so nothing comes between.  The replay of a *)
(* creation's quarantine, which runs on another task, is in Capture and    *)
(* not here: this conversation is bound from the start.                    *)
is_loading == load \in {"loading", "ok", "bad"}
run_for_session == IF run.pc \in {"created", "running", "final"} THEN run.id ELSE 0

capture_read ==
  /\ bound /\ hand = None /\ room
  /\ hand' = [run |-> run_for_session,
              source |-> IF is_loading THEN "load_replay" ELSE "local_turn"]
  /\ UNCHANGED <<store, load, bound, run, reader, last, loads, faults>>

(* append_message: a current row after the last one.                       *)
append_message(u, source, r) ==
  rows' = Append(rows, [u |-> u, seq |-> max_seq + 1, source |-> source, cur |-> TRUE,
                        run |-> r])

(* set_plan_snapshot, set_config_snapshot, apply_session_info, and the     *)
(* snapshots of commands and usage, which behave like the plan.            *)
set_snapshot(k, u) == static' = [static EXCEPT ![k] = u]

(* and then writes, whatever has happened in the meantime.                 *)
capture_write ==
  /\ hand # None
  /\ hand' = None
  /\ \/ /\ last' = last + 1
        /\ \/ append_message(last + 1, hand.source, hand.run) /\ UNCHANGED static
           \/ (\E k \in Statics : set_snapshot(k, last + 1)) /\ UNCHANGED rows
        /\ UNCHANGED faults
     \/ store_error /\ UNCHANGED <<rows, static, last>>
  /\ UNCHANGED <<gen, marker, load, bound, run, reader, loads>>

-----------------------------------------------------------------------------
(* A refresh: begin_load_replay records where the rows end and what the    *)
(* snapshots are; it fails when another marker is there.                   *)
begin_load_replay ==
  /\ idle /\ loads < MaxLoads /\ marker = None
  /\ marker' = [start |-> max_seq, image |-> static]
  /\ load' = "queued" /\ loads' = loads + 1
  /\ UNCHANGED <<rows, gen, static, bound, hand, run, reader, last, faults>>

(* The command loop binds the session, marks it as loading and sends the   *)
(* request.  It may fail before that, and leave the session unbound.       *)
load_session ==
  /\ load = "queued"
  /\ \/ load' = "loading" /\ bound' = TRUE
     \/ load' = "rollback" /\ bound' \in {bound, FALSE}
  /\ UNCHANGED <<store, hand, run, reader, last, loads, faults>>

(* The response is handled after the notifications that came before it; an *)
(* error may come at any time.                                             *)
load_response ==
  /\ load = "loading"
  /\ \/ hand = None /\ load' = "ok"
     \/ load' = "bad"
  /\ UNCHANGED <<store, bound, hand, run, reader, last, loads, faults>>

(* The session is no longer loading; a failed load unbinds it.  A response *)
(* for another session is rolled back like a failure.                      *)
load_done ==
  /\ load \in {"ok", "bad"}
  /\ load' \in (IF load = "ok" THEN {"commit", "rollback"} ELSE {"rollback"})
  /\ bound' = (bound /\ load = "ok")
  /\ UNCHANGED <<store, hand, run, reader, last, loads, faults>>

superseded(r) == r.source = "load_replay" /\ r.cur /\ r.seq <= marker.start

(* Mutant: a plan is kept when the load did not bring one.                 *)
committed_static_kept(c) == [static EXCEPT !["config"] = c]

(* commit_load_replay_inner: the plan goes when it is still the one of the *)
(* before image, the configuration becomes the one of the response;        *)
committed_static(c) ==
  [static EXCEPT !["plan"] = IF @ = marker.image["plan"] THEN 0 ELSE @,
                 !["config"] = c]

(* the old Layer 1 is superseded, the generation moves and the marker      *)
(* goes.  When the transaction fails the marker stays.                     *)
commit_load_replay ==
  /\ load = "commit" /\ load' = "idle"
  /\ \/ /\ rows' = [i \in DOMAIN rows |-> [rows[i] EXCEPT !.cur = @ /\ ~superseded(rows[i])]]
        /\ \/ room /\ last' = last + 1
           \/ UNCHANGED last
        /\ static' = committed_static(IF last' = last THEN 0 ELSE last')
        /\ gen' = gen + 1
        /\ marker' = None
        /\ UNCHANGED faults
     \/ store_error /\ UNCHANGED <<rows, static, gen, marker, last>>
  /\ UNCHANGED <<bound, hand, run, reader, loads>>

(* Mutant: the generation is left alone.                                   *)
rolled_back_quietly ==
  LET Kept(r) == r.source # "load_replay" \/ r.seq <= marker.start IN
  /\ rows' = SelectSeq(rows, Kept)
  /\ static' = marker.image
  /\ marker' = None
  /\ UNCHANGED gen

(* rollback_load_replay and restore_load_replay_projection: the rows that  *)
(* were replayed since go, the before image returns, and the generation    *)
(* moves when there were such rows.                                        *)
rolled_back ==
  LET Kept(r) == r.source # "load_replay" \/ r.seq <= marker.start
      kept == SelectSeq(rows, Kept) IN
  /\ rows' = kept
  /\ static' = marker.image
  /\ gen' = IF kept = rows THEN gen ELSE gen + 1
  /\ marker' = None

rollback_load_replay ==
  /\ load = "rollback" /\ load' = "idle"
  /\ \/ rolled_back /\ UNCHANGED faults
     \/ store_error /\ UNCHANGED store
  /\ UNCHANGED <<bound, hand, run, reader, last, loads>>

-----------------------------------------------------------------------------
(* A turn: create_run and set_current_run, the row of the prompt, which    *)
(* may fail, the final status, and clear_current_run.                      *)
create_run ==
  /\ idle /\ bound /\ run.id < MaxRuns
  /\ run' = [id |-> run.id + 1, pc |-> "created"]
  /\ UNCHANGED <<store, load, bound, hand, reader, last, loads, faults>>

store_prompt_message ==
  /\ run.pc = "created"
  /\ \/ /\ room /\ last' = last + 1
        /\ append_message(last + 1, "local_turn", run.id)
        /\ run' = [run EXCEPT !.pc = "running"]
        /\ UNCHANGED faults
     \/ /\ store_error
        /\ run' = [run EXCEPT !.pc = "ended"]
        /\ UNCHANGED <<rows, last>>
  /\ UNCHANGED <<gen, static, marker, load, bound, hand, reader, loads>>

finalize_run ==
  /\ run.pc = "running" /\ run' = [run EXCEPT !.pc = "final"]
  /\ UNCHANGED <<store, load, bound, hand, reader, last, loads, faults>>

clear_current_run ==
  /\ run.pc = "final" /\ run' = [run EXCEPT !.pc = "ended"]
  /\ UNCHANGED <<store, load, bound, hand, reader, last, loads, faults>>

(* The daemon dies and starts again: recover_interrupted_load_replays, and *)
(* the run is marked as interrupted.  Its clients lose their connections.  *)
restart ==
  /\ store_error
  /\ load' = "idle" /\ bound' = FALSE /\ hand' = None
  /\ run' = [run EXCEPT !.pc = "ended"]
  /\ IF marker = None THEN UNCHANGED store ELSE rolled_back
  /\ reader' = IF reading THEN [reader EXCEPT !.pc = "error"] ELSE reader
  /\ UNCHANGED <<last, loads>>
-----------------------------------------------------------------------------
(* The rows that a query selects.                                          *)
visible(r) == CASE reader.mode = "audit" -> TRUE
                [] reader.mode = "current" -> r.cur
                [] reader.mode = "wait" -> r.cur /\ r.run = reader.run

view == SelectSeq(rows, visible)

bytes(s) == FoldLeft(LAMBDA sum, r : sum + Size(r.u), 0, s)

(* The rows of a page after a position: as many as its limit and its bytes *)
(* allow.                                                                  *)
page_items(from) ==
  LET After(r) == r.seq > from
      candidates == SelectSeq(view, After)
      fits == {n \in 0 .. Len(candidates) :
                 n <= PageRows /\ bytes(SubSeq(candidates, 1, n)) <= PageBytes} IN
  SubSeq(candidates, 1, Max(fits))

(* Mutant: a cursor of an earlier projection is accepted.                  *)
cursor_valid_any(after) == reader.cursor.start = after

(* The cursor belongs to this query, and no refresh has changed the rows   *)
(* before it.                                                              *)
cursor_valid(after) ==
  /\ reader.cursor.start = after
  /\ reader.cursor.gen = gen
  /\ reader.cursor.last > after

(* messages_page_query: the items and the cursor of the next page, if more *)
(* rows follow; or an error, when the cursor is not valid or the next row  *)
(* alone exceeds the budget.                                               *)
messages_page_query(after) ==
  LET from == IF reader.cursor = None THEN after ELSE reader.cursor.last
      items == page_items(from)
      More(seq) == \E i \in DOMAIN view : view[i].seq > seq IN
  IF (reader.cursor # None /\ ~cursor_valid(after)) \/ (items = <<>> /\ More(from))
  THEN [ok |-> FALSE]
  ELSE [ok |-> TRUE, items |-> items,
        next |-> IF items = <<>> \/ ~More(Last(items).seq) THEN None
                 ELSE [gen |-> gen, last |-> Last(items).seq, start |-> after]]

-----------------------------------------------------------------------------
(* HubClient::messages, with or without the superseded rows,               *)
messages ==
  /\ reader.pc = "idle"
  /\ \E m \in {"current", "audit"} : reader' = [reader EXCEPT !.pc = "read", !.mode = m]
  /\ UNCHANGED <<history, faults>>

(* reads page after page: too many rows, or a cursor that does not         *)
(* advance, end it with an error.                                          *)
read_page ==
  LET p == messages_page_query(0) IN
  /\ reader.pc = "read"
  /\ reader' =
       IF ~p.ok \/ Len(reader.got) + Len(p.items) > MaxRows
       THEN [reader EXCEPT !.pc = "error"]
       ELSE LET read == [reader EXCEPT !.got = @ \o p.items] IN
            IF p.next = None THEN [read EXCEPT !.pc = "ok"]
            ELSE IF p.items = <<>> \/ p.next \in read.seen THEN [read EXCEPT !.pc = "error"]
            ELSE [read EXCEPT !.cursor = p.next, !.seen = @ \cup {p.next}]
  /\ UNCHANGED <<history, faults>>

is_terminal(r) == r < run.id \/ run.pc \in {"final", "ended"}

(* wait_run resolves its run: the active one, a named one or the last one. *)
wait_run ==
  /\ reader.pc = "idle"
  /\ \/ /\ ~is_terminal(run.id)
        /\ reader' = [reader EXCEPT !.pc = "poll", !.mode = "wait", !.run = run.id]
     \/ \E r \in 1 .. run.id :
          reader' = [reader EXCEPT !.pc = IF is_terminal(r) THEN "late" ELSE "poll",
                                   !.mode = "wait", !.run = r]
     \/ /\ is_terminal(run.id)
        /\ reader' = [reader EXCEPT !.pc = "error"]
  /\ UNCHANGED <<history, faults>>

(* page_run_rows: one page of the rows of the run since the last one that  *)
(* was read; the sequence number advances with the pages.                  *)
page_run_rows ==
  LET p == messages_page_query(reader.seq) IN
  /\ reader.pc \in {"poll", "late"}
  /\ reader' =
       IF ~p.ok THEN [reader EXCEPT !.pc = "error"]
       ELSE [reader EXCEPT
               !.got = @ \o p.items,
               !.seq = IF p.items = <<>> THEN @ ELSE Last(p.items).seq,
               !.cursor = p.next,
               !.pc = CASE p.next # None -> @
                        [] p.next = None /\ @ = "poll" -> "check"
                        [] p.next = None /\ @ = "late" -> "ok"]
  /\ UNCHANGED <<history, faults>>

(* Mutant: the rows that came after the last poll are not read.            *)
check_run_no_late ==
  /\ reader.pc = "check"
  /\ reader' = [reader EXCEPT !.pc = IF is_terminal(reader.run) THEN "ok" ELSE "poll"]
  /\ UNCHANGED <<history, faults>>

(* get_run between two polls: once the run is over, rows that came late    *)
(* are read.                                                               *)
check_run ==
  /\ reader.pc = "check"
  /\ reader' = [reader EXCEPT !.pc = IF is_terminal(reader.run) THEN "late" ELSE "poll"]
  /\ UNCHANGED <<history, faults>>

wait_timeout ==
  /\ reader.pc = "poll" /\ reader.cursor = None
  /\ reader' = [reader EXCEPT !.pc = "error"]
  /\ UNCHANGED <<history, faults>>

-----------------------------------------------------------------------------
Next ==
  \/ capture_read \/ capture_write
  \/ begin_load_replay \/ load_session \/ load_response \/ load_done
  \/ commit_load_replay \/ rollback_load_replay
  \/ create_run \/ store_prompt_message \/ finalize_run \/ clear_current_run
  \/ restart
  \/ messages \/ read_page \/ wait_run \/ page_run_rows \/ check_run \/ wait_timeout

Spec == Init /\ [][Next]_vars

-----------------------------------------------------------------------------
Rows == [u : 1 .. MaxUpdates, seq : 1 .. MaxUpdates, source : {"load_replay", "local_turn"},
         cur : BOOLEAN, run : 0 .. MaxRuns]

(* Types; the rows are in the order of their sequence numbers, which are   *)
(* given once; and a row of a run is a row of the hub's own layer, which   *)
(* no refresh hides, however late the handler writes it.                   *)
ProjectionTypeOK ==
  /\ rows \in Seq(Rows)
  /\ \A i, j \in DOMAIN rows : i < j => rows[i].seq < rows[j].seq
  /\ \A i \in DOMAIN rows : rows[i].run # 0 => rows[i].source = "local_turn" /\ rows[i].cur
  /\ static \in [Statics -> 0 .. MaxUpdates]
  /\ marker = None \/ marker \in [start : 0 .. MaxUpdates, image : [Statics -> 0 .. MaxUpdates]]
  /\ hand = None \/ hand \in [run : 0 .. MaxRuns, source : {"load_replay", "local_turn"}]
  /\ load \in {"idle", "queued", "loading", "ok", "bad", "commit", "rollback"}
  /\ run \in [id : 0 .. MaxRuns, pc : {"created", "running", "final", "ended"}]
  /\ reader.pc \in {"idle", "read", "poll", "check", "late", "ok", "error"}
  /\ last \in 0 .. MaxUpdates

(* While the projection generation stays the same, rows are only added     *)
(* after the last one: nothing before a cursor of this generation moves,   *)
(* changes or disappears.  Messages_page_query relies on it                *)
(* (store/paging.rs), commits, rollbacks and recoveries of a refresh have  *)
(* to keep it (store/replay.rs).                                           *)
CursorStable == [][gen' = gen => IsPrefix(rows, rows')]_vars

(* A client that gets an answer gets the whole history, as it is when the  *)
(* last page is read: no row twice, none left out and none of an earlier   *)
(* projection, although refreshes, turns and restarts happen between its   *)
(* pages (hub/client.rs messages).                                         *)
MessagesWhole ==
  [][reader.pc = "read" /\ reader'.pc = "ok" => reader'.got = view']_vars

(* A wait that returns has seen its run end and every row of it, those     *)
(* that were written between its last poll and the end too (hub/wait.rs).  *)
WaitWhole ==
  [][reader.pc \in {"poll", "check", "late"} /\ reader'.pc = "ok"
       => is_terminal(reader.run) /\ reader'.got = view']_vars

(* The stored history is well formed (sequence numbers ascend, only rows   *)
(* of the hub's own turns name a run) and stays where cursors point.       *)
HistoryStable == []ProjectionTypeOK /\ CursorStable

(* Whoever reads pages while the history changes gets all of it or an      *)
(* error: the client that lists messages and the one that waits for a run. *)
ReadsWhole == MessagesWhole /\ WaitWhole

-----------------------------------------------------------------------------
(* The refinement: a marker splits the replayed rows into the layer that   *)
(* counts and the draft, and its before image holds the snapshots that     *)
(* count.                                                                  *)
numbers(s) == [i \in DOMAIN s |-> s[i].u]
replayed(s) == SelectSeq(s, LAMBDA r : r.source = "load_replay" /\ r.cur)
from_start(s) == SelectSeq(s, LAMBDA r : r.seq > marker.start)
to_start(s) == SelectSeq(s, LAMBDA r : r.seq <= marker.start)

Layers == INSTANCE LayeredHistory WITH
  Updates <- 1 .. MaxUpdates,
  NoDraft <- None,
  original <- numbers(IF marker = None THEN replayed(rows) ELSE to_start(replayed(rows))),
  local <- numbers(SelectSeq(rows, LAMBDA r : r.source = "local_turn")),
  audit <- numbers(SelectSeq(rows, LAMBDA r : ~r.cur)),
  static <- IF marker = None THEN static ELSE marker.image,
  draft <- IF marker = None THEN None
           ELSE [rows |-> numbers(from_start(replayed(rows))),
                 static |-> [static EXCEPT !["plan"] =
                               IF @ = marker.image["plan"] THEN 0 ELSE @]]

(* The store implements the layered history: a refresh replaces the        *)
(* agent's layer and the snapshots at once or not at all, across failures  *)
(* of the load, of the store and of the daemon, and the hub's own rows are *)
(* never touched (store/replay.rs, design.md section 2).                   *)
ImplementsLayers == Layers!LayeredSpec
=============================================================================
