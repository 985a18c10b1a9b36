----------------------------- MODULE ClaudeHook -----------------------------
(***************************************************************************)
(* The hooks of internal/cli/claude_hook_cmd.go that bill the LLM turns of *)
(* a Claude Code transcript.  Claude Code appends to the transcript; each  *)
(* PostToolUse and each Stop hook is a process of its own that reads the   *)
(* cursor file, scans the lines behind it, writes the cursor and enqueues  *)
(* one event per new turn.  Nothing orders the hooks of one session.       *)
(*                                                                         *)
(* A line of the transcript is a turn (an assistant entry with model and   *)
(* usage) or something else.  A turn has a message key, 0 if the entry has *)
(* neither id, and the size of the context it was asked with, effIn.       *)
(* Offsets count lines; a trailing line without its newline is not in      *)
(* transcript yet.                                                         *)
(***************************************************************************)
EXTENDS Integers, FiniteSetsExt, SequencesExt

CONSTANTS
  Hooks,        \* hook processes, each of which runs once
  Sizes,        \* values of effIn
  MaxSeen,      \* maxSeenClaudeMessageKeys
  MaxLines,     \* bound on the lines ever written
  MaxRotations, \* bound on the replacements of the transcript
  MaxFailures   \* bound on crashes and failed calls

ASSUME ClaudeConstantsOK ==
  /\ IsFiniteSet(Hooks) /\ Sizes \subseteq Nat /\ MaxSeen \in Nat \ {0}
  /\ MaxLines \in Nat /\ MaxRotations \in Nat /\ MaxFailures \in Nat

VARIABLES
  transcript,  \* the complete lines of the transcript
  written,     \* number of lines ever written
  gen,         \* how often the transcript was replaced
  cursor,      \* the cursor file
  hook,        \* the hook processes
  queued,      \* turn events in the queue
  dropped,     \* turn events a hook had in hand and did not enqueue (history)
  mishaps,     \* what makes repeats possible (history): "cursor" is a cursor file
               \* that was torn, or could not be read or written
  failures     \* crashes and failed calls so far

vars == <<transcript, written, gen, cursor, hook, queued, dropped, mishaps, failures>>

Line == [turn : BOOLEAN, key : Nat, effIn : Nat]
Other == [turn |-> FALSE, key |-> 0, effIn |-> 0]

\* gen is a history field: the file does not say which transcript it is for.
Cursor == [offset : Nat, prior : Nat, seen : Seq(Nat), gen : Nat]
Zero == [offset |-> 0, prior |-> 0, seen |-> <<>>, gen |-> 0]
Torn == [offset |-> -1]

TurnEvent == [hook : Hooks, gen : Nat, at : Nat, key : Nat, delta : Nat]

NotStarted == [pc |-> "off", kind |-> "stop", start |-> Zero, end |-> Zero, todo |-> <<>>]

Init ==
  /\ transcript = <<>> /\ written = 0 /\ gen = 0
  /\ cursor = Torn
  /\ hook = [h \in Hooks |-> NotStarted]
  /\ queued = {} /\ dropped = {} /\ mishaps = {} /\ failures = 0

-----------------------------------------------------------------------------
(* Claude Code                                                             *)

AppendLine(line) ==
  /\ written < MaxLines
  /\ written' = written + 1
  /\ transcript' = Append(transcript, line)
  /\ UNCHANGED <<gen, cursor, hook, queued, dropped, mishaps, failures>>

\* A new call of the model, with or without ids in its entry; a line that is
\* no turn; or the entry of a message once more, as around a tool call.
NewTurn ==
  \E n \in Sizes, k \in {0, written + 1} :
    AppendLine([turn |-> TRUE, key |-> k, effIn |-> n])
OtherLine == AppendLine(Other)
SameMessage == \E l \in ToSet(transcript) : l.key # 0 /\ AppendLine(l)

\* The transcript is truncated or replaced.
Rotate ==
  /\ gen < MaxRotations /\ transcript # <<>>
  /\ transcript' = <<>> /\ gen' = gen + 1
  /\ mishaps' = mishaps \cup {"rotated"}
  /\ UNCHANGED <<written, cursor, hook, queued, dropped, failures>>

-----------------------------------------------------------------------------
(* The scan                                                                *)

\* A missing, empty or unparsable file reads as the zero cursor.
ReadCursor == IF cursor = Torn THEN Zero ELSE cursor

\* Variant for mutation: no bound on the keys.
RememberAll(seen, key) ==
  IF key = 0 \/ key \in ToSet(seen) THEN seen ELSE Append(seen, key)

\* appendSeenClaudeMessageKey: the last MaxSeen keys.
Remember(seen, key) ==
  IF key = 0 \/ key \in ToSet(seen) THEN seen
  ELSE LET all == Append(seen, key)
       IN  IF Len(all) > MaxSeen THEN Tail(all) ELSE all

\* Variant for mutation: an equal context counts as a reset.
DeltaEqualIsReset(effIn, running) == IF effIn > running THEN effIn - running ELSE effIn

\* The tokens a turn adds to the context; all of them when it shrank.
Delta(effIn, running) == IF effIn >= running THEN effIn - running ELSE effIn

\* One line.  st.known is the map of the scan, which forgets nothing;
\* st.seen is the list that goes to the cursor.
ScanLine(st, line) ==
  LET on == [st EXCEPT !.at = @ + 1]
  IN  IF ~line.turn \/ (line.key # 0 /\ line.key \in st.known) THEN on
      ELSE [on EXCEPT
             !.turns = Append(@, [gen |-> gen, at |-> on.at, key |-> line.key,
                                  delta |-> Delta(line.effIn, st.prior)]),
             !.prior = line.effIn,
             !.seen = Remember(@, line.key),
             !.known = @ \cup {line.key}]

\* A cursor behind the end of the file is for another file, and starts over.
From(start) == IF start.offset > Len(transcript) THEN Zero ELSE start

\* The scan before the first line behind the cursor.
Unread(from) ==
  [turns |-> <<>>, prior |-> from.prior, seen |-> from.seen,
   known |-> ToSet(from.seen), at |-> from.offset]

\* readNewAssistantUsageLines, one line after the other.
ScanFrom(start) ==
  LET from == From(start)
      scan[n \in from.offset .. Len(transcript)] ==
        IF n = from.offset THEN Unread(from) ELSE ScanLine(scan[n - 1], transcript[n])
  IN  scan[Len(transcript)]

\* Variant for mutation: a scan without a change of context is not recorded.
WorthWritingPriorOnly(start, end) == end.prior # start.prior

WorthWriting(start, end) == end.offset > start.offset \/ end.prior # start.prior

-----------------------------------------------------------------------------
(* A hook process                                                          *)

Done == [NotStarted EXCEPT !.pc = "done"]
Started(h) == hook[h].pc \notin {"off", "done"}
Become(h, state) == hook' = [hook EXCEPT ![h] = state]
Fail == failures < MaxFailures /\ failures' = failures + 1

\* What is left to do with the turns found.  The Stop hook opens the queue
\* only now, and only if there are any.
Deliver(kind, turns) ==
  IF turns = <<>> THEN Done
  ELSE [NotStarted EXCEPT !.pc = IF kind = "stop" THEN "open" ELSE "enqueue", !.todo = turns]

\* Claude Code runs a hook, after a tool call or at the end of its answer.
PostToolUse(h) ==
  /\ hook[h].pc = "off"
  /\ Become(h, [NotStarted EXCEPT !.pc = "tool", !.kind = "post"])
  /\ UNCHANGED <<transcript, written, gen, cursor, queued, dropped, mishaps, failures>>

Stop(h) ==
  /\ hook[h].pc = "off"
  /\ Become(h, [NotStarted EXCEPT !.pc = "cursor", !.kind = "stop"])
  /\ UNCHANGED <<transcript, written, gen, cursor, queued, dropped, mishaps, failures>>

\* PostToolUse opens the queue and enqueues the tool's event first, and
\* ends if it cannot.
EnqueueTool(h) ==
  /\ hook[h].pc = "tool"
  /\ \/ Become(h, [hook[h] EXCEPT !.pc = "cursor"]) /\ UNCHANGED failures
     \/ Become(h, Done) /\ Fail
  /\ UNCHANGED <<transcript, written, gen, cursor, queued, dropped, mishaps>>

\* h has read the cursor and may still write it.
Scanning(h) == hook[h].pc \in {"scan", "truncate", "write"}

\* What taking the cursor while another hook scans makes possible.
Overlap(h) == {m \in {"overlap"} : \E g \in Hooks \ {h} : Scanning(g)}

TakeCursor(h) ==
  /\ hook[h].pc = "cursor"
  /\ Become(h, [hook[h] EXCEPT !.pc = "scan", !.start = ReadCursor])
  /\ mishaps' = mishaps \cup Overlap(h)
  /\ UNCHANGED <<transcript, written, gen, cursor, queued, dropped, failures>>

\* The file is there and cannot be read: that counts as a missing one.
CursorUnread(h) ==
  /\ hook[h].pc = "cursor" /\ cursor # Torn /\ Fail
  /\ Become(h, [hook[h] EXCEPT !.pc = "scan", !.start = Zero])
  /\ mishaps' = mishaps \cup Overlap(h) \cup {"cursor"}
  /\ UNCHANGED <<transcript, written, gen, cursor, queued, dropped>>

\* Every turn found becomes an event; the cursor goes first.
Scan(h) ==
  LET start == hook[h].start
      st == ScanFrom(start)
      end == [offset |-> st.at, prior |-> st.prior, seen |-> st.seen, gen |-> gen]
  IN  /\ hook[h].pc = "scan"
      /\ Become(h, IF WorthWriting(start, end)
                   THEN [hook[h] EXCEPT !.pc = "truncate", !.start = Zero,
                                        !.end = end, !.todo = st.turns]
                   ELSE Deliver(hook[h].kind, st.turns))
      /\ mishaps' = mishaps
           \cup {m \in {"forgotten"} : Cardinality(st.known \ {0}) > Len(st.seen)}
           \cup {m \in {"unnoticed"} : start.offset \in 1 .. Len(transcript) /\ start.gen # gen}
      /\ UNCHANGED <<transcript, written, gen, cursor, queued, dropped, failures>>

\* An error while reading, or while redacting an event, discards them all.
ScanFails(h) ==
  /\ hook[h].pc = "scan" /\ Fail
  /\ Become(h, Done)
  /\ UNCHANGED <<transcript, written, gen, cursor, queued, dropped, mishaps>>

\* os.WriteFile empties the file before it writes.
TruncateCursor(h) ==
  /\ hook[h].pc = "truncate"
  /\ cursor' = Torn
  /\ Become(h, [hook[h] EXCEPT !.pc = "write"])
  /\ UNCHANGED <<transcript, written, gen, queued, dropped, mishaps, failures>>

\* Variant for mutation: the offset is the size of the file at this time.
WriteCursorOfNow(h) ==
  /\ hook[h].pc = "write"
  /\ cursor' = [hook[h].end EXCEPT !.offset = Len(transcript)]
  /\ Become(h, Deliver(hook[h].kind, hook[h].todo))
  /\ UNCHANGED <<transcript, written, gen, queued, dropped, mishaps, failures>>

WriteCursor(h) ==
  /\ hook[h].pc = "write"
  /\ cursor' = hook[h].end
  /\ Become(h, Deliver(hook[h].kind, hook[h].todo))
  /\ UNCHANGED <<transcript, written, gen, queued, dropped, mishaps, failures>>

\* The error of a write that failed is dropped.  If the directory or the file
\* could not be opened, the old cursor is still there.
WriteFails(h) ==
  /\ hook[h].pc \in {"truncate", "write"} /\ Fail
  /\ Become(h, Deliver(hook[h].kind, hook[h].todo))
  /\ mishaps' = mishaps \cup {"cursor"}
  /\ UNCHANGED <<transcript, written, gen, cursor, queued, dropped>>

OpenQueue(h) ==
  /\ hook[h].pc = "open"
  /\ \/ Become(h, [hook[h] EXCEPT !.pc = "enqueue"]) /\ UNCHANGED <<dropped, failures>>
     \/ Become(h, Done) /\ Fail /\ dropped' = dropped \cup ToSet(hook[h].todo)
  /\ UNCHANGED <<transcript, written, gen, cursor, queued, mishaps>>

\* The event of a turn that hook h found.
EventOf(turn, h) ==
  [hook |-> h, gen |-> turn.gen, at |-> turn.at, key |-> turn.key, delta |-> turn.delta]

EnqueueTurn(h) ==
  /\ hook[h].pc = "enqueue"
  /\ queued' = queued \cup {EventOf(Head(hook[h].todo), h)}
  /\ Become(h, Deliver("post", Tail(hook[h].todo)))
  /\ UNCHANGED <<transcript, written, gen, cursor, dropped, mishaps, failures>>

\* The queue refuses an event: it is skipped, or with --fail-closed the hook
\* ends and takes the rest with it.
EnqueueFails(h) ==
  LET todo == hook[h].todo
  IN  /\ hook[h].pc = "enqueue" /\ Fail
      /\ \E lost \in {1, Len(todo)} :
           /\ Become(h, Deliver("post", SubSeq(todo, lost + 1, Len(todo))))
           /\ dropped' = dropped \cup ToSet(SubSeq(todo, 1, lost))
      /\ UNCHANGED <<transcript, written, gen, cursor, queued, mishaps>>

\* The process is killed.
Crash(h) ==
  /\ Started(h) /\ Fail
  /\ Become(h, Done)
  /\ dropped' = dropped \cup (IF Scanning(h) THEN {} ELSE ToSet(hook[h].todo))
  /\ mishaps' = mishaps \cup {m \in {"cursor"} : hook[h].pc = "write"}
  /\ UNCHANGED <<transcript, written, gen, cursor, queued>>

Next ==
  \/ NewTurn \/ OtherLine \/ SameMessage \/ Rotate
  \/ \E h \in Hooks :
       \/ PostToolUse(h) \/ Stop(h) \/ EnqueueTool(h) \/ TakeCursor(h) \/ CursorUnread(h)
       \/ Scan(h) \/ ScanFails(h) \/ TruncateCursor(h) \/ WriteCursor(h) \/ WriteFails(h)
       \/ OpenQueue(h) \/ EnqueueTurn(h) \/ EnqueueFails(h) \/ Crash(h)

Spec == Init /\ [][Next]_vars

-----------------------------------------------------------------------------
(* Properties                                                              *)

\* Every variable stays in its type, and the cursor file stays small: no
\* cursor holds more than MaxSeen keys.
TypeOK ==
  /\ transcript \in Seq(Line) /\ written \in 0 .. MaxLines /\ gen \in 0 .. MaxRotations
  /\ cursor # Torn => cursor \in Cursor /\ Len(cursor.seen) =< MaxSeen
  /\ \A h \in Hooks : hook[h].start \in Cursor /\ hook[h].end \in Cursor
  /\ queued \subseteq TurnEvent

Turns == {i \in DOMAIN transcript : transcript[i].turn}
Behind == {i \in Turns : cursor # Torn /\ cursor.gen = gen /\ i =< cursor.offset}
SameTurn(ev, i) ==
  IF transcript[i].key = 0 THEN ev.gen = gen /\ ev.at = i ELSE ev.key = transcript[i].key

\* No turn is passed over: what the cursor has behind it is in the queue, in
\* the hands of a hook, or was in those of a hook that failed - however the
\* hooks overlap and crash.  Only a transcript that was replaced and grew past
\* the old cursor before the next scan escapes it.
NothingPassedOver ==
  "unnoticed" \in mishaps \/
  \A i \in Behind :
    \E ev \in queued \cup dropped \cup UNION {ToSet(hook[h].todo) : h \in Hooks} : SameTurn(ev, i)

\* A message is billed once, as long as no two hooks overlap between reading
\* and writing the cursor, no cursor goes unread or unwritten, is torn or
\* forgets a key, and no transcript is replaced.
BilledOnce ==
  mishaps = {} =>
    \A ev, other \in queued :
      (IF ev.key = 0 THEN ev.at = other.at ELSE ev.key = other.key) => ev = other

\* Scanning in pieces bills what one look at the whole transcript would: the
\* context each message added to that of the message before it.  The same
\* mishaps excuse it, and a turn event that was lost.
Distinct ==
  {i \in Turns : /\ i =< ReadCursor.offset
                 /\ transcript[i].key = 0
                    \/ \A j \in 1 .. i - 1 : transcript[j].key # transcript[i].key}
Growth(i) ==
  LET before == {j \in Distinct : j < i}
      prior == IF before = {} THEN 0 ELSE transcript[Max(before)].effIn
      n == transcript[i].effIn
  IN  IF n < prior THEN n ELSE n - prior
TokensAddUp ==
  (mishaps = {} /\ dropped = {} /\ \A h \in Hooks : ~Started(h)) =>
    MapThenSumSet(LAMBDA ev : ev.delta, queued) = MapThenSumSet(Growth, Distinct)
=============================================================================
