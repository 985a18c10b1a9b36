-------------------------------- MODULE Proxy --------------------------------
(***************************************************************************)
(* One MCP proxy session: internal/proxy (proxy.go, capture.go) over       *)
(* internal/wire (tee.go, gate.go), the Correlator of internal/jsonrpc and *)
(* the halt Gate of internal/halt.                                         *)
(*                                                                         *)
(* Five goroutines matter: hostToUp (a Tee, or a GatedForwarder when a     *)
(* halt gate is installed), upToHost (a Tee), the capture worker, and Run  *)
(* itself, which joins the first two, closes the capture channel, gives    *)
(* the worker a grace period and exits.  A Tee forwards what it read and   *)
(* only then hands the frames to capture, so a response can reach the      *)
(* worker before its request does.                                         *)
(*                                                                         *)
(* A frame is the request it carries or answers; the host never reuses a   *)
(* JSON-RPC id, as MCP requires.  A pipe has room for what is written to   *)
(* it until its reader has gone.  Of the queue (FileQueue.tla models it)   *)
(* there is Enqueue's answer, and its mutex: the worker, Run (for a crash  *)
(* report) and the dispatcher of the same process take it in turns, and    *)
(* write to the disk while they hold it.                                   *)
(***************************************************************************)
EXTENDS Naturals, Sequences, SequencesExt

CONSTANTS
  Calls,     \* requests of the host
  Tools,     \* those that are tools/call
  Big,       \* frames longer than MaxFrame
  ChanCap,   \* capacity of the capture channel
  ReadMax    \* frames one Read of a Tee can return

ASSUME ProxyConstantsOK ==
  /\ Tools \subseteq Calls /\ Big \subseteq {"request", "response"} \X Calls
  /\ ChanCap \in Nat \ {0} /\ ReadMax \in Nat \ {0}

VARIABLES
  gated,      \* a halt gate is installed
  sent,       \* requests the host wrote, in order
  host,       \* up, closed (it closed the proxy's stdin) or gone
  h,          \* hostToUp: where it is, frames read from sent, frames to publish
  got,        \* requests upstream received, in order
  upAlive,    \* upstream runs
  answers,    \* requests upstream answered, in order
  u,          \* upToHost: where it is, frames read from answers, frames to publish
  hostGot,    \* what the host received: answers and synthetic refusals
  chan,       \* the capture channel
  worker,     \* the capture worker: running, drained or cancelled
  job,        \* the call whose answer it is making an event of, if any
  qmu,        \* who holds the queue's mutex: nobody (free), worker, run or dispatcher
  pending,    \* Correlator.inflight, oldest first
  events,     \* events[c]: events enqueued for c
  counted,    \* calls counted as dropped, missed or not enqueued
  crashes,    \* server_crashed events enqueued
  main,       \* Run: join, grace, reap, report, enqueue or exit
  haltFile,   \* halt-state.json: clear or halted
  seen        \* the gate's copy of it, or "unread"

wires == <<gated, sent, host, h, got, upAlive, answers, u, hostGot>>
queue == <<job, qmu>>
capture == <<worker, queue, pending, events, counted, crashes>>
halt == <<haltFile, seen>>
vars == <<wires, chan, capture, main, halt>>

Start == [pc |-> "read", read |-> 0, todo |-> <<>>]

Init ==
  /\ gated \in BOOLEAN
  /\ sent = <<>> /\ got = <<>> /\ answers = <<>> /\ hostGot = <<>> /\ chan = <<>>
  /\ h = Start /\ u = Start
  /\ host = "up" /\ upAlive = TRUE
  /\ worker = "running" /\ job = <<>> /\ qmu = "free" /\ pending = <<>> /\ counted = {}
  /\ events = [c \in Calls |-> 0] /\ crashes = 0
  /\ main = "join"
  /\ seen = "unread"
  /\ haltFile \in IF gated THEN {"clear", "halted"} ELSE {"clear"}

-----------------------------------------------------------------------------
(* The host and the upstream server                                        *)

HostSend(c) ==
  /\ host = "up" /\ c \notin ToSet(sent)
  /\ sent' = Append(sent, c)
  /\ UNCHANGED <<gated, host, h, got, upAlive, answers, u, hostGot, chan, capture, main, halt>>

HostClose ==
  /\ \/ host = "up" /\ host' = "closed"
     \/ host # "gone" /\ host' = "gone"
  /\ UNCHANGED <<gated, sent, h, got, upAlive, answers, u, hostGot, chan, capture, main, halt>>

Answer(c) ==
  /\ upAlive /\ c \in ToSet(got) \ ToSet(answers)
  /\ answers' = Append(answers, c)
  /\ UNCHANGED <<gated, sent, host, h, got, upAlive, u, hostGot, chan, capture, main, halt>>

\* Upstream closes its output: at the end of its stdin, or by crashing.
UpExit ==
  /\ upAlive /\ upAlive' = FALSE
  /\ UNCHANGED <<gated, sent, host, h, got, answers, u, hostGot, chan, capture, main, halt>>

\* The dispatcher's adapter, in its own Cache, records a halt or clears it.
\* The destination it belongs to is what a gate is installed for; once the
\* gate has read the file, it is not read in the session again.
HaltChanges ==
  /\ gated /\ seen = "unread"
  /\ haltFile' \in {"clear", "halted"} \ {haltFile}
  /\ UNCHANGED <<wires, chan, capture, main, seen>>

-----------------------------------------------------------------------------
(* The wire                                                                *)

Chunk(from, k, n) == SubSeq(from, k + 1, k + n)

\* Variants for mutation: an oversized frame is handed over too; the send
\* waits for room.
PublishOversized(frame) ==
  IF Len(chan) < ChanCap
  THEN chan' = Append(chan, frame) /\ UNCHANGED counted
  ELSE UNCHANGED chan /\ counted' = counted \cup {frame[2]}

PublishWaits(frame) ==
  /\ Len(chan) < ChanCap
  /\ chan' = Append(chan, frame) /\ UNCHANGED counted

\* publish: a send that never waits; a full channel drops the frame, and an
\* oversized frame is not handed over at all.  Both are counted.
Publish(frame) ==
  IF Len(chan) < ChanCap /\ frame \notin Big
  THEN chan' = Append(chan, frame) /\ UNCHANGED counted
  ELSE UNCHANGED chan /\ counted' = counted \cup {frame[2]}

Published(t) ==
  [t EXCEPT !.todo = Tail(@), !.pc = IF Tail(t.todo) = <<>> THEN "read" ELSE @]

\* A write to the stdout of a host that has gone is a SIGPIPE: the process
\* dies at once.
Die ==
  /\ h' = [h EXCEPT !.pc = "done"] /\ u' = [u EXCEPT !.pc = "done"]
  /\ worker' = "cancelled" /\ main' = "exit"
  /\ UNCHANGED hostGot

\* Tee.Run, host to upstream: read some frames, write them all.
HostTee(n) ==
  /\ ~gated /\ h.pc = "read" /\ u.pc # "done"
  /\ h.read + n =< Len(sent)
  /\ LET frames == Chunk(sent, h.read, n)
     IN  IF upAlive
         THEN /\ got' = got \o frames
              /\ h' = [pc |-> "publish", read |-> h.read + n, todo |-> frames]
         ELSE /\ h' = [h EXCEPT !.pc = "done"]  \* EPIPE ends the Tee
              /\ UNCHANGED got
  /\ UNCHANGED <<gated, sent, host, upAlive, answers, u, hostGot, chan, capture, main, halt>>

\* GatedForwarder.Run: one frame; an oversized one ends the scanner, and a
\* frame it has buffered is looked at even when the pipe is closed.  The
\* gate asks about tools/call only, and its Cache loads the file once.
Inspect ==
  /\ gated /\ h.pc = "read" /\ h.read < Len(sent)
  /\ LET c == sent[h.read + 1]
         big == <<"request", c>> \in Big
         asks == c \in Tools /\ ~big
     IN  /\ seen' = IF asks /\ seen = "unread" THEN haltFile ELSE seen
         /\ h' = IF big THEN [h EXCEPT !.pc = "done"]
                 ELSE [pc |-> IF asks /\ seen' = "halted" THEN "refuse" ELSE "forward",
                       read |-> h.read + 1, todo |-> <<c>>]
  /\ UNCHANGED <<gated, sent, host, got, upAlive, answers, u, hostGot, chan, capture, main, haltFile>>

Forward ==
  /\ h.pc = "forward"
  /\ IF upAlive
     THEN got' = got \o h.todo /\ h' = [h EXCEPT !.pc = "publish"]
     ELSE h' = [h EXCEPT !.pc = "done"] /\ UNCHANGED got
  /\ UNCHANGED <<gated, sent, host, upAlive, answers, u, hostGot, chan, capture, main, halt>>

\* Variant for mutation: the refused frame is forwarded all the same.
RefuseForwards ==
  /\ h.pc = "refuse" /\ host # "gone"
  /\ hostGot' = Append(hostGot, <<"refused", Head(h.todo)>>)
  /\ h' = [h EXCEPT !.pc = "forward"]
  /\ UNCHANGED <<gated, sent, host, got, upAlive, answers, u, chan, capture, main, halt>>

\* The gate's synthetic reply goes to the host in place of an answer.
Refuse ==
  /\ h.pc = "refuse"
  /\ IF host = "gone" THEN Die
     ELSE /\ hostGot' = Append(hostGot, <<"refused", Head(h.todo)>>)
          /\ h' = [h EXCEPT !.pc = "publish"]
          /\ UNCHANGED <<u, worker, main>>
  /\ UNCHANGED <<gated, sent, host, got, upAlive, answers, chan, queue,
                 pending, events, counted, crashes, halt>>

HostPublish ==
  /\ h.pc = "publish"
  /\ Publish(<<"request", Head(h.todo)>>) /\ h' = Published(h)
  /\ UNCHANGED <<gated, sent, host, got, upAlive, answers, u, hostGot,
                 worker, queue, pending, events, crashes, main, halt>>

\* Variant for mutation: Run does not close the pipe.
HostEndOnEOF ==
  /\ h.pc = "read" /\ host # "up" /\ h.read = Len(sent)
  /\ h' = [h EXCEPT !.pc = "done"]
  /\ UNCHANGED <<gated, sent, host, got, upAlive, answers, u, hostGot, chan, capture, main, halt>>

\* EOF from the host, or Run closed the pipe because upToHost has ended.
HostEnd ==
  /\ h.pc = "read"
  /\ u.pc = "done" \/ (host # "up" /\ h.read = Len(sent))
  /\ h' = [h EXCEPT !.pc = "done"]
  /\ UNCHANGED <<gated, sent, host, got, upAlive, answers, u, hostGot, chan, capture, main, halt>>

\* Variant for mutation: publish without looking at the write's result.
UpTeeBlind(n) ==
  /\ u.pc = "read" /\ u.read + n =< Len(answers)
  /\ LET frames == Chunk(answers, u.read, n)
     IN  /\ u' = [pc |-> "publish", read |-> u.read + n, todo |-> frames]
         /\ hostGot' = IF host = "gone" THEN hostGot
                       ELSE hostGot \o [i \in DOMAIN frames |-> <<"answer", frames[i]>>]
  /\ UNCHANGED <<gated, sent, host, h, got, upAlive, answers, chan, capture, main, halt>>

\* Tee.Run, upstream to host.
UpTee(n) ==
  /\ u.pc = "read" /\ u.read + n =< Len(answers)
  /\ LET frames == Chunk(answers, u.read, n)
     IN  IF host = "gone" THEN Die
         ELSE /\ hostGot' = hostGot \o [i \in DOMAIN frames |-> <<"answer", frames[i]>>]
              /\ u' = [pc |-> "publish", read |-> u.read + n, todo |-> frames]
              /\ UNCHANGED <<h, worker, main>>
  /\ UNCHANGED <<gated, sent, host, got, upAlive, answers, chan, queue,
                 pending, events, counted, crashes, halt>>

UpPublish ==
  /\ u.pc = "publish"
  /\ Publish(<<"response", Head(u.todo)>>) /\ u' = Published(u)
  /\ UNCHANGED <<gated, sent, host, h, got, upAlive, answers, hostGot,
                 worker, queue, pending, events, crashes, main, halt>>

\* EOF from upstream; Run closes the pipe that hostToUp reads from.
UpEnd ==
  /\ u.pc = "read" /\ ~upAlive /\ u.read = Len(answers)
  /\ u' = [u EXCEPT !.pc = "done"]
  /\ UNCHANGED <<gated, sent, host, h, got, upAlive, answers, hostGot, chan, capture, main, halt>>

-----------------------------------------------------------------------------
(* The capture worker                                                      *)

Closed == main # "join"
Cancelled == main \notin {"join", "grace"}

Idle == worker = "running" /\ job = <<>>
Busy == worker = "running" /\ job # <<>>

\* AddRequest.
TakeRequest ==
  /\ Idle /\ chan # <<>> /\ Head(chan)[1] = "request"
  /\ pending' = Append(pending, Head(chan)[2])
  /\ chan' = Tail(chan)
  /\ UNCHANGED <<wires, worker, queue, events, counted, crashes, main, halt>>

\* MatchResponse: a miss is counted, and the worker makes an event of the
\* answer to a tools/call (emitToolCall; Pipeline.tla models what is in it).
TakeResponse ==
  /\ Idle /\ chan # <<>> /\ Head(chan)[1] = "response"
  /\ chan' = Tail(chan)
  /\ LET c == Head(chan)[2]
     IN  \/ /\ c \notin ToSet(pending)
            /\ counted' = counted \cup {c} /\ UNCHANGED <<pending, job>>
         \/ /\ \E i \in DOMAIN pending : pending[i] = c /\ pending' = RemoveAt(pending, i)
            /\ job' = IF c \in Tools THEN <<c>> ELSE <<>>
            /\ UNCHANGED counted
  /\ UNCHANGED <<wires, worker, qmu, events, crashes, main, halt>>

\* The event cannot be marshalled or redacted, or the worker panics.
EmitFails ==
  /\ Busy /\ qmu # "worker"
  /\ counted' = counted \cup ToSet(job) /\ job' = <<>>
  /\ UNCHANGED <<wires, chan, worker, qmu, pending, events, crashes, main, halt>>

\* Enqueue, up to its lock.
EnqueueLocks ==
  /\ Busy /\ qmu = "free" /\ qmu' = "worker"
  /\ UNCHANGED <<wires, chan, worker, job, pending, events, counted, crashes, main, halt>>

\* The rest of Enqueue, and the count of its error.
Enqueued ==
  /\ Busy /\ qmu = "worker" /\ qmu' = "free" /\ job' = <<>>
  /\ \/ events' = [events EXCEPT ![Head(job)] = @ + 1] /\ UNCHANGED counted
     \/ counted' = counted \cup ToSet(job) /\ UNCHANGED events
  /\ UNCHANGED <<wires, chan, worker, pending, crashes, main, halt>>

\* SweepOrphans forgets the requests older than its cutoff; Run drops the
\* list it returns.
SweepOrphans ==
  /\ Idle
  /\ \E n \in 1 .. Len(pending) : pending' = SubSeq(pending, n + 1, Len(pending))
  /\ UNCHANGED <<wires, chan, worker, queue, events, counted, crashes, main, halt>>

WorkerEnds ==
  /\ Idle
  /\ \/ Closed /\ chan = <<>> /\ worker' = "drained"
     \/ Cancelled /\ worker' = "cancelled"
  /\ UNCHANGED <<wires, chan, queue, pending, events, counted, crashes, main, halt>>

\* The dispatcher that runs beside the proxy claims from the same queue.  It
\* matters only when Run waits: the worker may be late as it is.
Dispatch ==
  /\ \/ main = "report" /\ qmu = "free" /\ qmu' = "dispatcher"
     \/ qmu = "dispatcher" /\ qmu' = "free"
  /\ UNCHANGED <<wires, chan, worker, job, pending, events, counted, crashes, main, halt>>

-----------------------------------------------------------------------------
(* Run                                                                     *)

\* Variant for mutation: Run joins hostToUp only.
JoinEarly ==
  /\ main = "join" /\ h.pc = "done"
  /\ main' = "grace"
  /\ UNCHANGED <<wires, chan, capture, halt>>

\* wg.Wait, close(CaptureCh).
Join ==
  /\ main = "join" /\ h.pc = "done" /\ u.pc = "done"
  /\ main' = "grace"
  /\ UNCHANGED <<wires, chan, capture, halt>>

\* The worker is done, or the grace timer fires; workerCancel.
Grace ==
  /\ main = "grace" /\ main' = "reap"
  /\ UNCHANGED <<wires, chan, capture, halt>>

\* waitCmd, which kills an upstream that has closed its output and lives on;
\* an exit status other than zero is reported.
Reap ==
  /\ main = "reap" /\ main' \in {"report", "exit"}
  /\ UNCHANGED <<wires, chan, capture, halt>>

\* EmitServerCrashed: Enqueue, up to its lock.
ReportLocks ==
  /\ main = "report" /\ qmu = "free"
  /\ main' = "enqueue" /\ qmu' = "run"
  /\ UNCHANGED <<wires, chan, worker, job, pending, events, counted, crashes, halt>>

\* The rest of it; an error is counted and Run returns all the same.
Reported ==
  /\ main = "enqueue" /\ main' = "exit" /\ qmu' = "free"
  /\ crashes' \in {crashes, crashes + 1}
  /\ UNCHANGED <<wires, chan, worker, job, pending, events, counted, halt>>

-----------------------------------------------------------------------------

Wire ==
  \/ \E n \in 1 .. ReadMax : HostTee(n) \/ UpTee(n)
  \/ Inspect \/ Forward \/ Refuse \/ HostPublish \/ HostEnd \/ UpPublish \/ UpEnd

Capture ==
  \/ TakeRequest \/ TakeResponse \/ EmitFails \/ EnqueueLocks \/ Enqueued
  \/ SweepOrphans \/ WorkerEnds

RunToReport == Join \/ Grace \/ Reap \/ ReportLocks

Next ==
  \/ \E c \in Calls : HostSend(c) \/ Answer(c)
  \/ HostClose \/ UpExit \/ HaltChanges
  \/ Wire \/ Capture \/ Dispatch \/ RunToReport \/ Reported

HostToUp ==
  \/ \E n \in 1 .. ReadMax : HostTee(n)
  \/ Inspect \/ Forward \/ Refuse \/ HostPublish \/ HostEnd

UpToHost == (\E n \in 1 .. ReadMax : UpTee(n)) \/ UpPublish \/ UpEnd

\* The scheduler runs the wire and Run, and a goroutine that waits for a
\* mutex which is free again and again gets it.  Nothing is assumed of the
\* capture worker or the dispatcher, nor of a crash report that has the
\* mutex (a price lookup or a disk may block them), of the host or of
\* upstream.
FairSpec ==
  /\ Init /\ [][Next]_vars
  /\ WF_vars(HostToUp) /\ WF_vars(UpToHost) /\ SF_vars(RunToReport)

Spec == Init /\ [][Next]_vars

-----------------------------------------------------------------------------
(* Properties                                                              *)

Side(pcs) == [pc : pcs, read : 0 .. Len(sent) + Len(answers), todo : Seq(Calls)]

\* Every variable stays in its type, and the capture channel in its capacity.
PTypeOK ==
  /\ gated \in BOOLEAN /\ host \in {"up", "closed", "gone"} /\ upAlive \in BOOLEAN
  /\ sent \in Seq(Calls) /\ got \in Seq(Calls) /\ answers \in Seq(Calls)
  /\ h \in Side({"read", "forward", "refuse", "publish", "done"})
  /\ u \in Side({"read", "publish", "done"})
  /\ hostGot \in Seq({"answer", "refused"} \X Calls)
  /\ chan \in Seq(({"request", "response"} \X Calls) \ Big) /\ Len(chan) =< ChanCap
  /\ worker \in {"running", "drained", "cancelled"}
  /\ job \in {<<>>} \cup {<<c>> : c \in Tools}
  /\ qmu \in {"free", "worker", "run", "dispatcher"}
  /\ (qmu = "worker" => job # <<>>) /\ (qmu = "run" <=> main = "enqueue")
  /\ pending \in Seq(Calls) /\ events \in [Calls -> 0 .. 1] /\ counted \subseteq Calls
  /\ crashes \in 0 .. 1
  /\ main \in {"join", "grace", "reap", "report", "enqueue", "exit"}
  /\ haltFile \in {"clear", "halted"} /\ seen \in {"unread", "clear", "halted"}

Refused == {c \in Calls : <<"refused", c>> \in ToSet(hostGot)}
Answered == {c \in Calls : <<"answer", c>> \in ToSet(hostGot)}

\* The proxy is transparent: what upstream reads next is the first of the
\* host's requests that it has not read and the gate has not refused, and the
\* host gets at most one reply to a request, of upstream or of the gate.
Transparent ==
  /\ \A i \in DOMAIN got :
       LET gone == Refused \cup {got[j] : j \in 1 .. (i - 1)}
       IN  \E k \in DOMAIN sent :
             /\ sent[k] = got[i] /\ got[i] \notin gone
             /\ \A m \in 1 .. (k - 1) : sent[m] \in gone
  /\ \A i, j \in DOMAIN hostGot : hostGot[i][2] = hostGot[j][2] => i = j

\* Capture follows the wire: an event is enqueued at most once for a call,
\* and only for a tools/call whose answer the host has already received.
EventIsReal ==
  \A c \in Calls : events[c] > 0 => events[c] = 1 /\ c \in Tools \cap Answered

\* No call goes missing unnoticed: when the worker ends by draining the
\* channel, each answered tools/call has its event, or a drop, oversize,
\* miss or enqueue counter stands for it.
AccountedFor ==
  worker = "drained" =>
    \A c \in Tools \cap Answered : events[c] = 1 \/ c \in counted

\* With a gate, a request at or behind one that is longer than MaxFrame: it
\* ends the scanner, and with it hostToUp.
Unscannable(c) ==
  /\ gated
  /\ \E i, k \in DOMAIN sent : i =< k /\ sent[k] = c /\ <<"request", sent[i]>> \in Big

\* A blocked or dead capture pipeline never stalls the wire: in the end every
\* request the host sent was read off its pipe, and forwarded or refused,
\* unless upstream or the host has gone or a gate met an oversized request.
WireGoesOn ==
  <>[](\A c \in ToSet(sent) : \/ c \in ToSet(got) \cup Refused \/ Unscannable(c)
                             \/ ~upAlive \/ main = "exit")

\* When upstream dies Run gets to the end, even if the host keeps its pipe
\* open and the capture worker is stuck; and it returns, unless it has a crash
\* to report and somebody keeps the queue's mutex for good.
ShutsDown ==
  /\ ~upAlive ~> main \in {"report", "enqueue", "exit"}
  /\ []<>(qmu = "free") => (~upAlive ~> main = "exit")

=============================================================================
