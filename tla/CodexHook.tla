----------------------------- MODULE CodexHook -----------------------------
(***************************************************************************)
(* internal/cli/codex_hook_cmd.go: telemetry from the session files that   *)
(* Codex writes.  A tail process polls every recent session; a Stop hook   *)
(* reads the one session it was started for.  Both read the session behind *)
(* a cursor file, pair each call with its output across the scans, write   *)
(* the cursor and enqueue the events.  Nothing orders the processes.       *)
(*                                                                         *)
(* A row of a session is its session_meta, a turn_context (it names the    *)
(* model), a function_call, its output or a token_count.  Offsets count    *)
(* rows.                                                                   *)
(***************************************************************************)
EXTENDS Integers, FiniteSetsExt, SequencesExt

CONSTANTS
  Sessions,     \* session files within the lookback
  Stops,        \* Stop hook processes, each of which runs once
  Calls,        \* call ids
  MaxRows,      \* bound on the rows Codex appends
  MaxFailures   \* bound on replaced files, crashes and failed calls

ASSUME CodexConstantsOK ==
  /\ IsFiniteSet(Sessions) /\ Sessions # {} /\ IsFiniteSet(Stops) /\ Calls \subseteq Nat \ {0}
  /\ MaxRows \in Nat /\ MaxFailures \in Nat

\* The process of codex-hook tail.
Tailer == "tail"
Procs == Stops \cup {Tailer}

VARIABLES
  file,      \* the rows of each session
  byTime,    \* the sessions by modification time
  appended,  \* rows appended so far
  gen,       \* how often each session file was replaced
  cursor,    \* the cursor files: of each session, by the session id used
  proc,      \* the processes
  queued,    \* events in the queue
  dropped,   \* events a process had in hand and did not enqueue (history)
  excused,   \* "repeats" or "omits", once something makes them possible (history)
  failures   \* replaced files, crashes and failed calls so far

vars == <<file, byTime, appended, gen, cursor, proc, queued, dropped, excused, failures>>
files == <<file, byTime, appended, gen>>

Row == [type : {"meta", "model", "turn"}, call : {0}] \cup [type : {"call", "output"}, call : Calls]
Bare(type) == [type |-> type, call |-> 0]

\* codexPendingCall: the call, and the row it is in.
Pending == [call : Calls, at : Nat, gen : Nat]
\* gen is a history field: the file does not say which session file it is for.
Cursor == [offset : Nat, pending : SUBSET Pending, gen : Nat]
Zero == [offset |-> 0, pending |-> {}, gen |-> 0]
Torn == [offset |-> -1]

\* An event of the row at: a turn, or an output with the row of its call.
Event == [session : Sessions, gen : Nat, at : Nat, from : Nat]

\* The id in a session's session_meta, another one that a hook's payload
\* names, and the fresh one of a scan that knows none.
Ids == {"own", "other", "fresh"}

Off == [pc |-> "off", rest |-> <<>>, session |-> "none", id |-> "own",
        model |-> FALSE, start |-> Zero, end |-> Zero, events |-> <<>>]

\* What the session files hold when the first process starts.
Beginnings ==
  {<<>>, <<Bare("meta"), Bare("model")>>} \cup
  {<<Bare("meta"), Bare("model"), [type |-> "call", call |-> c]>> : c \in Calls}
Orders == {q \in [1 .. Cardinality(Sessions) -> Sessions] : IsInjective(q)}

Init ==
  /\ file \in [Sessions -> Beginnings]
  /\ byTime \in Orders /\ appended = 0
  /\ gen = [s \in Sessions |-> 0]
  /\ cursor = [s \in Sessions |-> [i \in Ids |-> Torn]]
  /\ proc = [p \in Procs |-> Off]
  /\ queued = {} /\ dropped = {} /\ excused = {} /\ failures = 0

-----------------------------------------------------------------------------
(* Codex                                                                   *)

Fail == failures < MaxFailures /\ failures' = failures + 1

Has(s, type) == \E i \in DOMAIN file[s] : file[s][i].type = type

\* The session goes to the end of the order.
Touch(s) == \E i \in DOMAIN byTime : byTime[i] = s /\ byTime' = Append(RemoveAt(byTime, i), s)

\* A session starts with its session_meta; a turn_context may come late, and
\* again.
Fits(row, s) == row.type = "meta" <=> file[s] = <<>>

AppendRow(s) ==
  /\ appended < MaxRows
  /\ \E row \in Row : Fits(row, s) /\ file' = [file EXCEPT ![s] = Append(@, row)]
  /\ Touch(s) /\ appended' = appended + 1
  /\ UNCHANGED <<gen, cursor, proc, queued, dropped, excused, failures>>

\* The file is truncated to its first rows, or replaced by a new one.
Rotate(s) ==
  /\ file[s] # <<>> /\ Fail
  /\ file' = [file EXCEPT ![s] = SubSeq(@, 1, IF Len(@) > 2 THEN 2 ELSE 0)]
  /\ gen' = [gen EXCEPT ![s] = @ + 1]
  /\ Touch(s)
  /\ excused' = excused \cup {"repeats"}
  /\ UNCHANGED <<appended, cursor, proc, queued, dropped>>

-----------------------------------------------------------------------------
(* The scan                                                                *)

\* readCodexSessionMetadata and what its caller makes of it: the id the hook
\* names goes before the one in the file.  The model is that of the file's
\* last turn_context, for every turn of the scan.
SessionID(s, named) ==
  IF named # "" THEN named ELSE IF Has(s, "meta") THEN "own" ELSE "fresh"

\* A missing, empty or unparsable file reads as the zero cursor, and a fresh
\* id has none.
ReadCursor(s, id) == IF id = "fresh" \/ cursor[s][id] = Torn THEN Zero ELSE cursor[s][id]

Found(s, at, from) == [session |-> s, gen |-> gen[s], at |-> at, from |-> from]

\* Variant for mutation: a call is held beside the one of its id.
HoldBoth(st, s, call) ==
  [st EXCEPT !.pending = @ \cup {[call |-> call, at |-> st.at, gen |-> gen[s]]}]

\* A call takes the place of a pending one of its id.
Hold(st, s, call) ==
  [st EXCEPT !.pending = {c \in @ : c.call # call}
                           \cup {[call |-> call, at |-> st.at, gen |-> gen[s]]}]

\* An output ends the pending call of its id; without one it is skipped.
Pair(st, s, call) ==
  LET open == {c \in st.pending : c.call = call}
  IN  [st EXCEPT !.pending = @ \ open,
                 !.events = @ \o SetToSeq({Found(s, st.at, c.at) : c \in open})]

\* handleCodexResponseItem and buildCodexLLMTurnEvent.  A turn
\* is skipped while no model is known.
ScanRow(state, row, s, model) ==
  LET st == [state EXCEPT !.at = @ + 1]
  IN  CASE row.type = "call" -> Hold(st, s, row.call)
        [] row.type = "output" -> Pair(st, s, row.call)
        [] row.type = "turn" /\ model -> [st EXCEPT !.events = Append(@, Found(s, st.at, 0))]
        [] OTHER -> st

\* A cursor behind the end of the file starts over.
From(start, s) == IF start.offset > Len(file[s]) THEN Zero ELSE start

\* The scan before the first row behind the cursor.
Unread(from) == [at |-> from.offset, pending |-> from.pending, events |-> <<>>]

\* readNewCodexSessionEvents, one row after the other.
ScanFrom(start, s, model) ==
  LET from == From(start, s)
      scan[n \in from.offset .. Len(file[s])] ==
        IF n = from.offset THEN Unread(from) ELSE ScanRow(scan[n - 1], file[s][n], s, model)
  IN  scan[Len(file[s])]

\* A scan that started over and ends before the old offset is not recorded.
WorthWriting(start, end) == end.offset > start.offset

-----------------------------------------------------------------------------
(* The processes                                                           *)

Become(p, state) == proc' = [proc EXCEPT ![p] = state]

\* p ends; the tail waits for its next poll.
Ended(p) == IF p = Tailer THEN Off ELSE [Off EXCEPT !.pc = "done"]
Running(p) == proc[p].pc \notin {"off", "done"}

\* p has read the cursor and may still write it.
Scanning(p) == proc[p].pc \in {"scan", "truncate", "write"}

\* After the cursor: the events, one by one; a Stop hook opens the queue for
\* them first, the tail has it open and goes on to the next session.
Deliver(p, state) ==
  CASE state.events # <<>> -> [state EXCEPT !.pc = "enqueue", !.start = Zero, !.end = Zero]
    [] state.events = <<>> /\ p = Tailer /\ state.rest # <<>> ->
         [Off EXCEPT !.pc = "open", !.rest = Tail(state.rest), !.session = Head(state.rest)]
    [] OTHER -> Ended(p)

\* tailCodexSessionsOnce: the recent sessions, the oldest change first.
Poll ==
  /\ proc[Tailer].pc = "off"
  /\ Become(Tailer, [Off EXCEPT !.pc = "open", !.rest = Tail(byTime), !.session = Head(byTime)])
  /\ UNCHANGED <<files, cursor, queued, dropped, excused, failures>>

\* p goes on to the scan of s.
Enter(p, s, id, model, start) ==
  /\ Become(p, [proc[p] EXCEPT !.pc = "scan", !.session = s, !.id = id, !.model = model,
                               !.start = start])
  /\ UNCHANGED <<files, cursor, queued, dropped>>

\* buildCodexSessionEvents, up to the cursor.  The tail names no session id.
OpenRead(p, s, named) ==
  LET id == SessionID(s, named)
  IN  /\ Enter(p, s, id, Has(s, "model"), ReadCursor(s, id))
      /\ excused' = excused
           \cup {e \in {"repeats"} :
                  id # "own" \/ \E q \in Procs \ {p} : Scanning(q) /\ proc[q].session = s}
      /\ UNCHANGED failures

\* An error of reading the cursor gives the zero cursor; one of reading the
\* metadata gives none, or those of the rows before it.
OpenUnread(p, s, named) ==
  /\ Fail /\ excused' = excused \cup {"repeats"}
  /\ \/ Enter(p, s, SessionID(s, named), Has(s, "model"), Zero)
     \/ \E id \in {SessionID(s, named), IF named = "" THEN "fresh" ELSE named} :
          Enter(p, s, id, FALSE, ReadCursor(s, id))

Open(p, s, named) == OpenRead(p, s, named) \/ OpenUnread(p, s, named)

OpenSession == proc[Tailer].pc = "open" /\ Open(Tailer, proc[Tailer].session, "")

\* Codex runs a Stop hook, with the session's id or another.
Stop(p) ==
  /\ proc[p].pc = "off"
  /\ \E s \in Sessions, named \in {"own", "other"} : Open(p, s, named)

\* An event whose redaction fails is left out of the batch.
Scan(p) ==
  LET s == proc[p].session
      start == proc[p].start
      st == ScanFrom(start, s, proc[p].model)
      end == [offset |-> st.at, pending |-> st.pending, gen |-> gen[s]]
      After(events) == LET state == [proc[p] EXCEPT !.events = events]
                       IN  IF WorthWriting(start, end)
                           THEN [state EXCEPT !.pc = "truncate", !.end = end]
                           ELSE Deliver(p, state)
  IN  /\ proc[p].pc = "scan"
      /\ \/ Become(p, After(st.events)) /\ UNCHANGED <<dropped, failures>>
         \/ \E i \in DOMAIN st.events :
              /\ Fail
              /\ Become(p, After(RemoveAt(st.events, i)))
              /\ dropped' = dropped \cup {st.events[i]}
      /\ excused' = excused
           \cup {e \in {"omits"} :
                  \/ ~proc[p].model /\ Has(s, "turn")
                  \/ start.offset \in 1 .. Len(file[s]) /\ start.gen # gen[s]}
      /\ UNCHANGED <<files, cursor, queued>>

\* The session cannot be read: a poll ends, later sessions wait for the next.
ScanFails(p) ==
  /\ proc[p].pc = "scan" /\ Fail
  /\ Become(p, Ended(p))
  /\ UNCHANGED <<files, cursor, queued, dropped, excused>>

\* os.WriteFile empties the file before it writes.
TruncateCursor(p) ==
  /\ proc[p].pc = "truncate"
  /\ cursor' = [cursor EXCEPT ![proc[p].session][proc[p].id] = Torn]
  /\ Become(p, [proc[p] EXCEPT !.pc = "write"])
  /\ UNCHANGED <<files, queued, dropped, excused, failures>>

\* Variant for mutation: calls without an output are forgotten.
WriteOffsetOnly(p) ==
  /\ proc[p].pc = "write"
  /\ cursor' = [cursor EXCEPT ![proc[p].session][proc[p].id] = [proc[p].end EXCEPT !.pending = {}]]
  /\ Become(p, Deliver(p, proc[p]))
  /\ UNCHANGED <<files, queued, dropped, excused, failures>>

\* Variant for mutation: the offset is the size of the file at this time.
WriteCursorOfNow(p) ==
  /\ proc[p].pc = "write"
  /\ cursor' = [cursor EXCEPT ![proc[p].session][proc[p].id] =
                  [proc[p].end EXCEPT !.offset = Len(file[proc[p].session])]]
  /\ Become(p, Deliver(p, proc[p]))
  /\ UNCHANGED <<files, queued, dropped, excused, failures>>

WriteCursor(p) ==
  /\ proc[p].pc = "write"
  /\ cursor' = [cursor EXCEPT ![proc[p].session][proc[p].id] = proc[p].end]
  /\ Become(p, Deliver(p, proc[p]))
  /\ UNCHANGED <<files, queued, dropped, excused, failures>>

\* The write fails with the old cursor there, or with an empty file; its error
\* is dropped, and the events are enqueued.
WriteFails(p) ==
  /\ proc[p].pc \in {"truncate", "write"} /\ Fail
  /\ Become(p, Deliver(p, proc[p]))
  /\ excused' = excused \cup {"repeats"}
  /\ UNCHANGED <<files, cursor, queued, dropped>>

EnqueueEvent(p) ==
  LET ev == Head(proc[p].events)
  IN  /\ proc[p].pc = "enqueue"
      /\ queued' = queued \cup {ev}
      /\ Become(p, Deliver(p, [proc[p] EXCEPT !.events = Tail(@)]))
      /\ UNCHANGED <<files, cursor, dropped, excused, failures>>

\* The queue refuses an event, or a Stop hook cannot open it.  The poll ends
\* there with its later sessions; a Stop hook skips the event or, with
\* --fail-closed, ends.
EnqueueFails(p) ==
  LET events == proc[p].events
  IN  /\ proc[p].pc = "enqueue" /\ Fail
      /\ \/ /\ p # Tailer
            /\ Become(p, Deliver(p, [proc[p] EXCEPT !.events = Tail(@)]))
            /\ dropped' = dropped \cup {Head(events)}
         \/ Become(p, Ended(p)) /\ dropped' = dropped \cup ToSet(events)
      /\ UNCHANGED <<files, cursor, queued, excused>>

\* The process is killed; the tail is started again.
Crash(p) ==
  /\ Running(p) /\ Fail
  /\ Become(p, Ended(p))
  /\ dropped' = dropped \cup ToSet(proc[p].events)
  /\ excused' = excused \cup {e \in {"repeats"} : proc[p].pc = "write"}
  /\ UNCHANGED <<files, cursor, queued>>

Step(p) ==
  \/ Scan(p) \/ TruncateCursor(p) \/ WriteCursor(p) \/ EnqueueEvent(p)
Fault(p) == ScanFails(p) \/ WriteFails(p) \/ EnqueueFails(p) \/ Crash(p)
Tailing == Poll \/ OpenSession \/ Step(Tailer)

Next ==
  \/ \E s \in Sessions : AppendRow(s) \/ Rotate(s)
  \/ Tailing
  \/ \E p \in Stops : Stop(p) \/ Step(p)
  \/ \E p \in Procs : Fault(p)

Spec == Init /\ [][Next]_vars

-----------------------------------------------------------------------------
(* Properties                                                              *)

\* Every variable stays in its type; a cursor holds one pending call per id.
TypeOK ==
  /\ \A s \in Sessions : file[s] \in Seq(Row)
  /\ \A s \in Sessions, i \in Ids :
       cursor[s][i] # Torn =>
         /\ cursor[s][i] \in Cursor
         /\ \A c, d \in cursor[s][i].pending : c.call = d.call => c = d
  /\ \A p \in Procs : proc[p].start \in Cursor /\ proc[p].end \in Cursor
  /\ queued \cup dropped \subseteq Event

\* What one look at the rows 1 .. n of a session makes of them: an event for
\* each turn, and one for each output with the last call of its id before it,
\* unless an earlier output took that call.
Whole(s, n) ==
  {Found(s, i, 0) : i \in {i \in 1 .. n : file[s][i].type = "turn"}} \cup
  UNION {{Found(s, i, j) : j \in
            {j \in 1 .. i - 1 :
               /\ file[s][i].type = "output"
               /\ file[s][j] = [type |-> "call", call |-> file[s][i].call]
               /\ \A k \in j + 1 .. i - 1 : file[s][k].call # file[s][i].call}} :
         i \in 1 .. n}

\* Pieces add up: however the scans of the tail and the hooks cut a session,
\* the events in the queue are those of one look at all of it, and nothing in
\* hand is there already.  Not so if two processes overlapped between reading
\* and writing a cursor, if they used two ids, or if a cursor was torn or could
\* not be read or written, a session not read or replaced, a turn read before
\* its model, or a process failed with events.
PiecesAddUp ==
  excused = {} =>
    /\ \A p \in Procs : IsInjective(proc[p].events) /\ ToSet(proc[p].events) \cap queued = {}
    /\ (dropped = {} /\ \A p \in Procs : ~Running(p)) =>
         queued = UNION {Whole(s, ReadCursor(s, "own").offset) : s \in Sessions}

\* No row is passed over: the event of a row behind the cursor of the
\* session's own id is in the queue, in the hands of a process, or was in
\* those of one that failed - however the tail and the hooks overlap and
\* crash.
NothingPassedOver ==
  "omits" \notin excused =>
    \A s \in Sessions :
      LET cur == ReadCursor(s, "own")
      IN  cur.gen = gen[s] =>
            \A ev \in Whole(s, cur.offset) :
              ev \in queued \cup dropped \cup UNION {ToSet(proc[p].events) : p \in Procs}
=============================================================================
