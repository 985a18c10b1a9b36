# ScoutTrace: a TLA+ model of its core

ScoutTrace sits between an MCP host (an agent) and its MCP servers, records
each `tools/call` as an event, adds the turns of the model it finds in the
agent's transcripts, keeps the events in a queue of files, and delivers them to
destinations at least once.  It installs itself in the configuration files of
its hosts.  This directory holds TLA+ modules of the parts whose correctness
depends on interleavings, crashes and failures, the TLC configurations that
check them, and proofs for TLAPS.

* [The system](#the-system)
* [The modules](#the-modules)
* [The runs](#the-runs)
* [Fairness](#fairness)
* [What is proved](#what-is-proved)
* [Where code and documentation disagree](#where-code-and-documentation-disagree)
* [What is not modelled](#what-is-not-modelled)
* [Plan](#plan)

Parse with `tlasany M.tla`, check with `tlc -config X.cfg M`, prove with
`tlapm M_proofs.tla`.

## The system

| Component | State it keeps | Operations | Interacts with | What makes it correct |
|---|---|---|---|---|
| **queue** `internal/queue` | one file per event in `pending/`, `inflight/`, `dead/` or `dead_overflow/`; a mutex per process | Open, Enqueue, ClaimPending, Ack, Retry, MarkDead, Prune, RecoverInflight, Peek, Stats | every process that captures or dispatches opens the same directory | no accepted event is lost; a claimed event is in one caller's hands; nothing is stranded in `inflight/`; the cap is respected, oldest out first |
| **dispatch** `internal/dispatch` | none beyond the batch in hand | RunOnce, RunForever, runDest; Compute (backoff) | claims from the queue, calls an adapter, settles | delivered or put aside in the end; tries are counted right; no concurrent double delivery |
| **destinations** `internal/destinations` | file: the output file and its backups | Send, with results OK, retriable, rejected | called by dispatch; webhookscout updates the halt cache | the result says what was received; a stable idempotency key |
| **proxy** `internal/proxy` | the capture channel, the correlator's pending requests | Run, CaptureWorker.Run, EmitServerCrashed | wire goroutines publish to the worker, the worker enqueues | the wire is transparent and never waits for capture; a captured call is real; a lost one is counted; the proxy ends when upstream does |
| **wire** `internal/wire` | read buffers, counters | Tee.Run, GatedForwarder.Run, publish | host, upstream, capture channel | as above |
| **jsonrpc** `internal/jsonrpc` | requests waiting for an answer | AddRequest, MatchResponse, SweepOrphans | capture worker | a response pairs with its own request |
| **halt** `internal/halt` | `halt-state.json` and a copy per Cache | Get, Set, SetIfChanged; Gate.decide | adapters write, the gate and the PreToolUse hook read | a halted agent's tool calls are refused |
| **claude-hook** `internal/cli/claude_hook_cmd.go` | a cursor file per transcript | post-tool-use, stop, pre-tool-use, install | read the agent's transcript, enqueue, may flush | each turn is billed once, none is passed over, the tokens add up, across overlapping and crashed hooks |
| **codex-hook** `internal/cli/codex_hook_cmd.go` | a cursor file per session, with the calls that wait for their output | tail, stop, install | as above; the tail and a Stop hook share cursors | reading in pieces gives what reading at once would |
| **hosts** `internal/hosts`, `cli: hosts, undo, init` | the host's config file, backups, `markers.json`, the recorded hash | Patch, Unpatch, UndoFromBackup | the user and the host edit the same file | the file is never torn; what was wrapped can be unwrapped; the user's commands survive |
| **config** `internal/config`, **creds** `internal/creds` | `config.yaml`, `credentials.enc` | Load, Validate, Save; Put | init, config set, hosts patch | no setting is lost; the stored key is the configured agent's |
| **sidecar** `internal/cli/start_stop_cmd.go` | `dispatch.pid` | start, stop, restart | dispatch, approvals | one dispatcher; stop stops that one |
| **approvals** `internal/cli/destination_cmd.go` | `destinations_seen.json` | approve, approve-host, enforceFirstSendApproval | start, flush, hooks, the proxy's dispatcher | only an approved destination is sent to |
| **billing, livepricing** | price cache in memory and in a file | Extract, EnrichLive, EstimateUsage, Lookup, apportionUsage | capture worker, hooks | order of sources; no price outlives its time; all tokens are billed |
| **redact** `internal/redact` | none | Apply, ShouldCapture | capture worker, hooks | nothing a profile covers leaves |
| **audit** `internal/audit` | a log file | Append | CLI commands | (nothing reads it) |

Processes: the proxy (one per MCP server), the sidecar, a hook process per tool
call and per answer of the agent, the codex tail, and CLI commands such as
`flush`.  All of them share one home directory and one queue directory.  Within
a process `q.mu` serialises the operations on the queue; between processes
nothing is locked, not the queue, not the cursors, not the config, not the
hosts' files.

The behaviours that are hard here: the file-system calls of two processes
interleave; a process can end between any two calls; a destination can receive
a batch and the answer be lost; a batch can fail in its middle; the exit drain
of the proxy overlaps its dispatch loop; responses can overtake requests on the
capture channel, which can also be full; either side of the wire can go away at
any moment; hooks overlap on one cursor; the transcript grows, repeats and is
replaced while it is read; the user edits a file that a command is rewriting; a
process id is used again.  `PROJECT.json` lists each hazard at its line.

## The modules

| Module | Models | Uses |
|---|---|---|
| `FileQueue` | `queue.go`, one step per file-system call, under its most general client | |
| `Dispatcher` | `dispatcher.go` and the adapters, as the queue's real client | `FileQueue` |
| `AtLeastOnce` | the promise: what happens to an event, with no files, processes or batches | |
| `DispatcherImplements` | the refinement mapping from `Dispatcher` to `AtLeastOnce` | both |
| `Proxy` | one proxy session: `proxy.go`, `capture.go`, `tee.go`, `gate.go`, the Correlator and the halt gate | |
| `ClaudeHook` | the hooks of `claude_hook_cmd.go` over one transcript and its cursor | |
| `CodexHook` | the tail and the Stop hooks of `codex_hook_cmd.go` over several sessions | |
| `TmpFile` | replacing a file by way of a temporary one with a fixed name | |
| `HostPatch` | `hosts.go`, the patchers, `hosts patch`, `hosts unpatch`, `undo` and init's patching | `TmpFile` |
| `ConfigFile` | `config.yaml` and `credentials.enc`, `init` and `config set` | `TmpFile` |
| `Sidecar` | `start`, `stop`, `restart`, `flush`, approvals; composes with `ConfigFile` over one process table | `ConfigFile` |
| `PriceCache` | the two caches of `livepricing` | |
| `Billing` | extraction, the order of price sources, apportionment, as operators | |
| `Redact` | profiles, rules, capture policy, as operators | |
| `Pipeline` | what happens to an event from its capture to the queue: billed, cut, redacted | the three above |
| `FileQueue_proofs` | theorems | `FileQueue` |
| `Sidecar_proofs` | theorems | `Sidecar` |
| `ClaudeHook_proofs` | theorems | `ClaudeHook` |
| `CodexHook_proofs` | theorems | `CodexHook` |
| `Dispatcher_proofs` | theorems | `DispatcherImplements`, the proofs of `FileQueue` |
| `Proxy_proofs` | theorems | `Proxy` |
| `HostPatch_proofs` | theorems | `HostPatch` |
| `Pipeline_proofs` | theorems | `Pipeline` |
| `MC*` | values and bounds for TLC | |

### FileQueue

`file[d][e]` is the record `<d>/<e>.rec`, `tmp[d][e]` the record under its
temporary name.  A record header is reduced to its attempts, the rank `at` of
`EnqueuedAt` and whether `NextAttempt` has come (`due`); the status is the
directory.  `op[p]` is the operation of process `p` that holds `q.mu`: its kind,
the ids it still has to visit, and how far `moveRecord` has come with the
current one (`pick`, `rename`, `remove`).  `held[p]` is what claims of `p`
returned and `p` has not settled.

| Code | Actions |
|---|---|
| `Open`, `recoverInflight` | `Open`, then the move steps, `Return` |
| `Enqueue`, `evictIfFull` | `Enqueue`, the move steps of the victims, `Evicted`, `EnqueueWrite`, `EnqueueRename`, `Return` |
| `ClaimPending` | `Claim` (listing, sort and cut), the move steps, `Return` |
| `Retry`, `MarkDead` | `Settle`, the move steps, `Return` |
| `Ack` | `Ack`, `AckFault` |
| `Prune` | `Prune`, `PruneRemove`, `Return` |
| `moveRecord`, `writeRecord`, `readRecord` | `MoveMissing`, `MoveWrite`, `MoveRename`, `RenameMissing`, `MoveRemove`, `RemoveMissing`; with errors `WriteFault`, `RemoveFault` |
| the process ends | `End` |
| time passes | `Elapse` |

The listing of an operation is atomic and the calls after it are not; this is the
window the code has.  Ids are fresh (ULIDs), so an id is enqueued once.  The
temporary file is written in one step: a torn one is never renamed by the
process that wrote it.  A crash is a crash of the process; a crash of the
operating system that undoes an unsynced rename is not modelled.

### Dispatcher

Each dispatch goroutine `wk[p][w]` walks through `runDest`.  `Outcomes` gives
what a `Send` can come to: its result, how many events of the batch were
received, and for how many a request was made.  `taken`, `posts`, `refused` and
`keys` record what destinations saw.  A cancelled context or a timeout is a
retriable outcome with or without receipt.  `Capture`, `CallPrune`, `Start` and
`Stop` are the other things a process does to the queue.

### AtLeastOnce

An event is `new`, `queued`, `dead`, `evicted` or `gone`.  It leaves `queued`
only once a destination has it, or to be put aside.  The mapping reads the stage
off the directories; where a crash left a record in two, the live copy counts,
because `Open` will take the interrupted move back.

### Proxy

`h` and `u` are the goroutines hostToUp and upToHost: where they are, how many
frames they have read, which they have still to publish.  `chan`, `worker`,
`pending` are the capture channel, the capture worker and the Correlator, `job`
is the call the worker is making an event of; `main` is `Run` from joining the
wire to its exit.  `qmu` says who holds the mutex of the queue, which the
worker, `Run` (for a crash report) and the dispatcher of the process take in
turns and keep while they write to the disk.  `counted` collects the calls
that a counter stands for (CaptureDrops, OversizeFrames, missesTotal, dropped):
it is a history variable over the counters.  With `gated`, hostToUp is the
GatedForwarder, and `seen` is its Cache's copy of the halt file.

| Code | Actions |
|---|---|
| `Tee.Run`, `publish` | `HostTee`, `HostPublish`, `HostEnd`; `UpTee`, `UpPublish`, `UpEnd` |
| `GatedForwarder.Run`, `Gate.decide` | `Inspect`, `Forward`, `Refuse`, then `HostPublish` |
| `CaptureWorker.Run`, the Correlator | `TakeRequest`, `TakeResponse`, `SweepOrphans`, `WorkerEnds` |
| `emitToolCall` | `EmitFails`, or `EnqueueLocks` and `Enqueued` |
| `Run` after the wire | `Join`, `Grace`, `Reap` |
| `EmitServerCrashed` | `ReportLocks`, `Reported` |
| the dispatcher of the process | `Dispatch` |
| host, upstream, another's halt | `HostSend`, `HostClose`, `Answer`, `UpExit`, `HaltChanges` |

`WireGoesOn` names what the gate does to an oversized request (`Unscannable`):
the scanner fails, and the host's side of the wire ends with upstream alive.
`ShutsDown` is about `Run` up to its crash report whatever the worker does, and
about the report only if the mutex is free again and again.

Frames are requests and their answers; a Read of a Tee returns up to `ReadMax`
whole frames.  A write to a host that has gone ends the process (`Die`): the
runtime of Go turns EPIPE on stdout into SIGPIPE.

### ClaudeHook

`transcript` is the file Claude Code appends to, as lines; a line is a turn with
a message key and the size `effIn` of its context, or something else.  `cursor`
is the cursor file: offset, running total, the last `MaxSeen` keys; `Torn` is
what the truncation of `os.WriteFile` leaves.  Each hook is a process of its own
and goes through the code's order: cursor read, scan, cursor emptied, cursor
written, then the queue.

| Code | Actions |
|---|---|
| `runClaudePostToolUse`, `runClaudeStop` | `PostToolUse`, `EnqueueTool`, `Stop`, `OpenQueue` |
| `readClaudeTranscriptCursor` | `TakeCursor`; on an error other than a missing file `CursorUnread`, which gives the zero cursor all the same |
| `readNewAssistantUsageLines` and its callers | `Scan`, `ScanFails`; line by line `ScanLine`, `Delta`, `Remember` |
| `writeClaudeTranscriptCursor` | `TruncateCursor`, `WriteCursor`; `WriteFails` before the file is opened, with the old cursor left there, or after it was emptied |
| the loop over the events | `EnqueueTurn`, `EnqueueFails` (skipped, or with `--fail-closed` the end) |
| the hook is killed | `Crash` |
| Claude Code | `NewTurn`, `OtherLine`, `SameMessage`, `Rotate` |

`mishaps` records what makes a second bill possible: hooks that overlapped, a
cursor that was torn or could not be read or written, a forgotten key, a
replaced transcript.  `BilledOnce` and `TokensAddUp` name them and hold in their
absence: a turn is billed twice in each of these cases, by the code as it is.
`NothingPassedOver` needs only that a replaced transcript does not outgrow the
old cursor unseen.

### CodexHook

Rows are a `session_meta`, a `turn_context`, a call, an output or a
`token_count`.  The cursor carries the calls that wait for their output, so that
a pair may fall into two scans.  A poll of the tail visits the recent sessions,
the oldest change first (`Poll`, `OpenSession`), and ends at the first error; a
Stop hook (`Stop`) reads the one session it was started for, under the id its
payload names.  `OpenRead` takes metadata and cursor; `OpenUnread` is the same
with an error of reading one of them, which the code drops.  `Scan` is
`readNewCodexSessionEvents` with `Hold` and `Pair` for the calls; all turns of a
scan get the model of the file's last `turn_context`, of which there may be
several.  The rest follows `ClaudeHook`, with `WriteFails` before or after the
file was emptied.  `excused` has `"repeats"` or `"omits"` once a second id, an
overlap, a cursor that was torn or could not be read or written, a session that
could not be read or was replaced, or a turn before its model makes them
possible.

### TmpFile and HostPatch

`TmpFile` is `os.WriteFile(path + ".tmp")` and `os.Rename`: the temporary file
is emptied, filled and renamed in three steps, its name is shared by every
process, and a rename takes it away from under a process that has it open.

In `HostPatch` a file is its entries: what each server runs, how often it is
wrapped, and the marker with the original.  A hash is the content it is of.

| Code | Actions |
|---|---|
| `Patch` with its drift check | `Patch` (from init without the check: `InitPatch`), `Backup`, `WriteMarkers`, `Open`, `Fill`, `Rename`, `Verify`; if the file cannot be read back `VerifyFails`, which renames the backup over it |
| the caller's `config.Save` of the hash | `SaveHash`, `ClearHash` |
| `Unpatch` | `Unpatch`, `Open`, `Fill`, `Rename` |
| `UndoFromBackup` | `Undo`, `Open`, `Fill`, `Rename` |
| the command is killed | `Crash`: backups and `markers.json` are written in place and may be torn |
| the user, the host | `Rewrite`, `Remove`, `EditWrapped`, `Strip`, `Tick` |

`ToWrap`, `Wrapped`, `Unwrapped`, `CannotPatch` are the patchers: inline markers
for JSON, `markers.json` for TOML and YAML, which fail as a whole on a server
without an args line and skip one without a command.  In JSON a command that is
no string, or none, as with a server that has a URL, is wrapped as `""` and
restored as `""` (`Command`); `UserCommandKept` says so (`Serves`): such an
entry runs `""` from its first patch on, and every other one what the user
wants.

### ConfigFile and Sidecar

A config is its destination, its agent and two backoff settings of which one may
not exceed the other; that constraint stands for `Config.Validate`.  `init`
comes in its three forms (`InitPlain`, `InitWithToken` with `Exchange`,
`InitWithKey`), then `Put` into the credential store, `Validate`, `Save`; `Set`
is `config set`.  `want` adds up the commands that succeeded.

`Sidecar` adds the commands around `dispatch.pid` and `destinations_seen.json`:
`Start`, `Check` (enforceFirstSendApproval), `PidRead`, `PidOpen`, `PidFill`,
`Listen`, `Leave`, `Exit`; `Stop`, `Signal`, `Poll`, `PollTimeout`,
`StopRemove`, `Restart`; `Approve`, `ApproveHost`, `SeenOpen`, `SeenFill`;
`Flush`, which also stands for the `--flush` of a hook and the dispatcher inside
a proxy.  All processes come from one table, because that is the point: a pid in
`dispatch.pid` may by now belong to any other command, and a SIGTERM that is
meant for a dispatcher ends it in the middle of a save (`Signal`, `Kill`).

### PriceCache, Billing, Redact and Pipeline

`Lookup` asks the memory of the process, then the shared file, then the service
(`Fetch`); `DiskRead` and `DiskWrite` are the read-change-replace of the file.
An answer is known by when it was given.  `Extract`, `Enrich`, `Apportion`,
`BillTurn` are `billing` and `apportionUsage`; a payload is a sequence of
objects with sets of at most one value for each field.  `Redact` reduces a
string to what rules look for.  `Pipeline` takes a call or a turn through
`Bill` and `Emit` in the order of `capture.go` and of the hooks; `out` is what
the last step computed, so that the operators are checked on every input of the
instance against definitions that do not mention how they work.  A bill is kept
in `proc` from `Bill` to `Emit`, which puts it into the event beside what is left
of the call, so that a bill that depended on what was cut would show.

In `Redact`, the strings of a part add up to its size (`Oversize`); a
placeholder may be longer than what it stands for (`Replaced`), so that a string
which was cut down can grow past the limit again; and the `${HOME}` that
`path_normalize` substitutes expands to nothing, so that a second home behind
the first comes to the start (`Normalized`).  `NothingLeaks` therefore promises
that a part over the limit is replaced by a marker, not that what leaves is
small, and no home at the start only of a string that had one home.  "Outermost"
in `BillIsRight` is the first in the order of the traversal; payloads nest once
here.  The TTL is one constant; in the code each process has the one of the
config it read.

## The runs

| Run | Instance | Shows |
|---|---|---|
| `queue_one` | 1 process, 3 events of 2, 1 and 1 units, cap 6, 1 crash, 1 I/O error, 2 attempts | `NoLoss`, `ExclusiveClaim`, `InflightIsHeld`, `CapOrNothingLeft`, `EvictsOldest` |
| `queue_two` | 2 processes, 2 events, both opened before the first event | `ExclusiveClaim` between processes |
| `queue_two_loss` | 2 processes, 1 event, no fault | `NoLoss` fails |
| `dispatch_http` | 1 process, 2 dispatch goroutines, 2 events, 1 crash, `MaxRetries` 2 | `OneDispatcherPerEvent`, `TriesCounted`, `AckedIsTaken` |
| `dispatch_faults` | 1 process, webhookscout, 2 events, a cap of 3, 1 mishap | `Delivered`, `ImplementsAtLeastOnce` |
| `dispatch_live` | 2 goroutines, 2 destinations, 1 event, 1 crash, the file adapter | `EventuallySettled` |
| `proxy_session` | 2 tools/calls and another call, an oversized request and an oversized answer, channel of 1, reads of up to 2 frames | `Transparent`, `EventIsReal`, `AccountedFor`, `WireGoesOn`, `ShutsDown` |
| `claude_hooks` | 3 hooks, 3 lines of 2 sizes, 2 remembered keys, 1 replacement or 1 failure | `NothingPassedOver`, `BilledOnce`, `TokensAddUp` |
| `codex_tail` | 2 sessions, the tail and 1 Stop hook, 1 call id, 2 rows appended to up to 3, 1 failure | `PiecesAddUp`, `NothingPassedOver` |
| `host_edits` | 2 processes, 2 servers, 3 kinds of command, JSON and text, 3 commands, 1 edit, 1 crash, 2 seconds | `FileIsWhole`, `UnpatchReaches`, `UserCommandKept`, `BackedUp` |
| `home` | 2 processes, 3 destinations on 2 hosts, 2 values, 4 commands, 1 crash | `SetsKept`, `KeyIsOfAgent`, `ApprovedOnly`, `OneSidecar` |
| `pipeline` | 2 processes, 2 models, 2 calls, a TTL of 1 in a time of 2, 3 profiles, 3 policies, 3 events | `PriceIsFresh`, `BillIsRight`, `NothingLeaks` |

A type invariant is checked in one run of each component that has state of its
own shape.

**Bounds.**  `MaxCrashes`, `MaxFaults`, `MaxFailures` and `MaxAttempts` bound
process ends, I/O errors and attempts; `OneMishap` lets one of two kinds happen.
In the queue, two events are enough for the interactions of records: a batch
with a head and a tail, a retried event that meets a fresh one, two goroutines
with something each; eviction needs a third, so that an order among victims
exists, and with it `ThirdIsPlain` lets one thing go wrong.  One event is
enough for settling, where events do not wait for each other; that an event is
settled under steady traffic, where batches fill up with others, it does not show.  `OpenedFirst`
keeps the two processes of `queue_two` to an `Open` of an idle directory: it
separates what the moves themselves guarantee between processes from what a
later `Open` destroys; `FewAttempts` bounds the retries there.  One crash can
fall between any two calls, and the restart meets whatever it left; with one I/O
error on top, a record with two files meets a recovery.  A `MaxRetries` of 2 has
a first, a middle and a last try.  A capture channel of one frame is full
whenever the worker lags.

A third line is the first that `MaxSeen = 2` makes the cursor forget for, and
three hooks of which two run at once (`TwoAtOnce`) are one more than an overlap
needs: the third reads the cursor the overlap left.  After a replacement or a
failure the third hook runs by itself (`ThirdAlone`); and where every property is
excused, nothing is left to check (`NotAllExcused`).  Two appended rows let a call and
its output fall into different scans, and a second call of the same id replace a
pending one; after a failure no process goes by another session id
(`FailsOrOther`), since either alone excuses a repetition, and no session has a
second `turn_context` (`FailsOrAgain`).  Scans of different sessions have no file
in common and do not interleave (`OneScanned`).  Three commands on a host's file are patch, patch of another server, and
unpatch or undo; two of them may overlap (`TwoOverlap`).  In `home` four
commands in order are an init, an approval, a start and one that changes the
config behind it; or two that overlap and one that meets what they left
(`FourInOrder`).  A TTL of 1 in a time of 2 lets an answer expire while a
process still holds it; from the second call on the inputs are those that ask
for a price, and they are followed to their bill (`LaterCallsAsk`): the others
do not touch the caches, and what becomes of an event does not depend on another.
One event has a string that grows over its limit, one has two strings that only
together are over theirs, and one has strings over it by themselves.

`CHECK_DEADLOCK FALSE` is set where the system stops: a proxy session ends, and
the commands and hooks of `claude_hooks`, `host_edits`, `home` and `pipeline`
are bounded in number.

`SYMMETRY` permutes events, goroutines, processes, hooks or sessions in runs
without liveness; the configurations treat them alike.

Every property has a mutant of the code that violates it (`PROJECT.json`,
"mutants"); the variants are in the modules, before the definition they replace.

## Fairness

`Dispatcher!FairSpec` assumes weak fairness of the steps of an operation in
progress, of its return and of a restart (ScoutTrace is started again), strong
fairness of each dispatch goroutine and weak fairness of time.  Adapter calls
have timeouts, so a started call returns; a goroutine that wants `q.mu` again and
again gets it, since `sync.Mutex` hands itself to a starved waiter.  The strong
fairness is of a whole worker, not of any outcome: an adapter may fail for ever,
and the event then goes to dead.

`Proxy!FairSpec` assumes weak fairness of the two wire goroutines (`HostToUp`,
`UpToHost`): the scheduler runs a goroutine that is not blocked.  Of `Run` up to
and including the lock of its crash report (`RunToReport`) it assumes strong
fairness, since `sync.Mutex` hands itself to a starved waiter.  Nothing is
assumed of the capture worker or the dispatcher, in particular not that they let
go of the queue's mutex, nor that the report's own write returns; nothing of the
host or of upstream.  So `WireGoesOn`, and `ShutsDown` up to the report, hold
even if capture never takes a frame or a disk hangs.  Pipes are assumed to have room while their
reader is there: a host or a server that stops reading does stall the wire, as it
would without the proxy.

The other modules state safety only: a hook, a tail or a command may be killed
at any step and nothing in the code starts it again.

## What is proved

Each for every value of the constants under the assumptions the modules name
(`ConstantsOK`, `NoneIsNothing`, `ConfigConstantsOK` and so on), and for any
number of crashes and faults.

`FileQueue_proofs`, for every set of events, every
payload, cap, policy and batch limit:

* `TypeCorrect`: `Spec => []TypeOK`, for any number of processes.  `TypeOK`
  includes that an operation in the middle of a move has its record at hand.
* `NoLossTheorem`: `Spec => []NoLoss`, if at most one process has the queue
  (`SoleProcess`).  `NoLoss` alone is not inductive: `MoveRemove` deletes the
  source and could delete the only file.  The strengthening `MoveSafe` says that
  an operation about to remove its source has put the copy in place in the target
  directory, and that one about to rename has its temporary file and still its
  source; the three facts `Init => Inv`, `Inv /\ [Next]_vars => Inv'`,
  `Inv => NoLoss` follow action by action.
* `ExclusiveClaimTheorem`: `Spec => []ExclusiveClaim`, under the same assumption.
  The inductive invariant `ClaimInv` adds that only ids that were asked for have
  files, that a held record is not pending (so a listing cannot find it), and, per
  operation, how the record in hand relates to the directories: this is where an
  interrupted move leaves its second file.
* `InflightIsHeldTheorem`: `Spec => []InflightIsHeld`, under the same assumption.
  The strengthening `AllAttended` says of each process that what lies in
  inflight is held, or claimed by the operation under way, or still on its list
  (`Underway`), and that the files an operation's earlier calls made are there
  for its later ones, so that no move breaks off without an I/O error.

* `EvictsOldestTheorem`: `Spec => EvictsOldest`, and `CapTheorem`:
  `Spec => CapOrNothingLeft`, under the same assumption.  Both are about steps, and
  rest on what holds in the middle of an eviction: the loop still has every
  pending record before it, and the one it moves is the oldest (`Victims`); the
  bytes on disk and those it counted as freed are no more than what it started
  with, and the new event has no file yet (`Room`).  `AllAttended` is needed too: a
  move that broke off would leave its victim where it is.  Of sizes they assume
  that those of different files add up and that a header is not nothing
  (`WeightsAdd`).

All of them are proved for any client of the queue: a step in these proofs
(`AnyNext`) may call any operation with any arguments `AnyCall` allows, and `Next`
is one such client (`NextIsAny`).

The assumption is not a convenience: `queue_two_loss` shows `NoLoss` false for
two processes, and `ExclusiveClaim` holds for two only while no `Open` rolls back
what another process has claimed (`queue_two`).

`Dispatcher_proofs`, for any number of goroutines, destinations and retries and
any answers: the dispatcher is a client of that kind (`DispatcherIsClient`), so
the queue's invariants hold under it.

* `DTypeCorrect`: `DSpec => []DTypeOK`, and `AckedIsTakenTheorem`:
  `DSpec => []AckedIsTaken`, for any number of processes.  The invariant `LoopInv`
  ties each goroutine to the queue: one of them at most is inside a queue call
  (the mutex), and it is the call the loop is at; a batch that is being settled as
  delivered was taken by the destination, all of it.
* `DeliveredTheorem`: `DSpec => []Delivered` under `SoleProcess`, from `LossInv`
  of the queue and `LoopInv`: what was acknowledged was taken.
* `OneDispatcherTheorem`: `DSpec => []OneDispatcherPerEvent` under `SoleProcess`.
  `HandInv` says that a goroutine's batch has each record once and only records
  that the process holds (or, during the claim, that this claim took), and that
  no two batches meet; a new claim adds none of them by `ClaimInv`.
* `TriesBoundedTheorem`: `DSpec => []TriesBounded` under `SoleProcess`: an event is
  posted `MaxRetries` times at most, and once more for every later `Open`.
  `CountInv` compares, for every file of an event, the tries its header counts
  with the POSTs there were: a file in `pending` is behind by at most one for each
  `Open` that put it back (`Fresh`), one in `inflight` by one more (`Tried`), and
  the record in a batch, the file in `inflight` and a copy under way agree.
* `TriesCountedTheorem`: `DSpec => []TriesCounted` under `SoleProcess` and
  `AllHttp`: also, what is in `dead` was refused or tried `MaxRetries` times.  The
  second assumption says that every destination is of the http adapter, which
  posts a batch as one.  It is needed: the other adapters stop a batch at the
  first failure, and the retry counts a try for records behind it that were
  never sent.
* `ImplementsTheorem`: `DSpec => ImplementsAtLeastOnce` under `SoleProcess`, the
  refinement that `dispatch_faults` checks on a small instance.  `StageStep` says
  what a step of the queue can do to the stage an event is at: `Enqueue` accepts
  when it puts its record in place, a move takes the record along, and only an
  acknowledgement or an aging takes it away.  It rests on `PlaceInv` (only
  accepted events have files, and a move has its source until it removes it, so
  that an event is never between two directories) and on `HandInv`: what `Send`
  hands over is queued and in hand, and what `Ack` deletes was received.

`Proxy_proofs`, for any number of calls, any capacity of the channel, any split
of the stream into reads, with nothing assumed:

* `TransparentTheorem`: `Spec => []Transparent`.  `WireInv` follows a request:
  what `hostToUp` has read, upstream has received or the gate has refused, but
  for the one frame that a gate has in hand; so the next frames that upstream
  receives are in order (`OrderGrows`), a refusal is of a frame that upstream
  does not have, and no call gets two replies.
* `EventIsRealTheorem`: `Spec => []EventIsReal`, and `AccountedForTheorem`:
  `Spec => []AccountedFor`.  `ProxyInv` follows an answer from the wire on: it is
  with the Tee, in the channel, or it has become an event or a count, in one of
  these places only and once.
* `TypeTheorem`: `Spec => []PTypeOK`, from both.

`Sidecar_proofs`, for any number of processes, destinations,
hosts and values, and for every overlap of commands that the property does not
name:

* `ApprovedOnlyTheorem`: `Spec => []ApprovedOnly`.  `AllFine` says that
  `destinations_seen.json`, and what any process holds to write into it, lists
  nothing the user did not approve, and that a process past `Check` has a
  destination that is approved.  Nothing is assumed of overlaps: a torn or lost
  file only ever takes approvals away.
* `OneSidecarTheorem`: `Spec => []OneSidecar`.  Without overlapping starts and
  stops (`Quiet`) the invariant `Order` says that at most one process settles
  `dispatch.pid`, that nobody serves while one has looked there and is about to
  write it, and that whoever serves has its id in the file.
* `SetsKeptTheorem`, `KeyIsOfAgentTheorem`: `Spec => []SetsKept` and
  `Spec => []KeyIsOfAgent`.  The invariant is `WritersApart => Apart`: the files
  agree with what the commands add up to (`FilesAgree`), at most one process
  writes, and each writer is `Steady`: what it has open is the temporary file,
  which is as it left it, and its config is `want` with its change.  The
  part that takes the work is the SIGTERM of a stop, which may end a writer
  anywhere.
* `TypeCorrect`: `Spec => []TypeOK`, whatever overlaps.  The part that is no
  matter of form is that a whole `config.yaml` is a valid one: `AllTyped` says
  so of the temporary file as well, and of what every process holds that is past
  `Validate`, so a rename of another's temporary file saves a valid config too.

`HostPatch_proofs`, for any number of processes, servers and commands, any
formats, edits and crashes:

* `FileIsWholeTheorem`: `Spec => []FileIsWhole`.  Unless two commands overlapped
  or undo took a torn backup, the invariant `Alone` says that at most one command
  is busy, that only it has the temporary file open, and only while it fills it,
  that what it will write is a whole text, and that the temporary file is that
  text when it is renamed.
* `BackedUpTheorem`: `Spec => []BackedUp`.  A command that is about to replace a
  file has it in a backup already, and a backup is not written again unless a
  patch comes within the second of the one before.
* `TypeTheorem`: `Spec => []TypeOK`, with nothing assumed of overlaps.  `TInv` says
  of every text there is, in the file, the temporary file, a backup or a
  command's hands, that it is `Sound`: unless the host strips markers, a server
  is wrapped once at most, and in JSON exactly the wrapped ones carry their
  original.
* `UnpatchReachesTheorem`: `Spec => []UnpatchReaches`, and
  `UserCommandKeptTheorem`: `Spec => []UserCommandKept`.  Of the file alone
  neither is inductive: an undo brings back the latest backup, and a command may
  stop between the markers, the backup and the file; and a patch whose result
  cannot be read back puts its own backup (`Own`) in the place of the file.  So
  `Reach` says of the file, of the latest backup (`Newest`), of `Own` and of what
  the one busy command will write (`InHand`) that the servers wrapped there are in
  `markers.json`, or will be before it is written; and `Kept` says of the same
  texts that an unpatch restores what an entry runs (`Agrees`), and of those that
  are or may become the file without an undo that they run what the user wants
  (`Serves`).  Each excuse of the two properties stands for a step that breaks
  this, and a proof without it fails at that step.  A failed verification is an
  excuse only once an undo follows it, which takes an older backup.

`ClaudeHook_proofs`, for any number of hooks, a transcript of any length and any
number of remembered keys:

* `TypeCorrect`: `Spec => []TypeOK`.
* `NothingPassedOverTheorem`: `Spec => []NothingPassedOver`, for hooks that
  overlap as they like.  `Covered` says of a cursor that every turn behind it, and
  every message it has the key of, is queued, was dropped, or is in the hands of a
  hook that has reported it (`Noted`).  `Passed` says this of the cursor in the file
  and of those that hooks have read, and, together with what the hook has just
  found, of those that hooks are about to write.
* `BilledOnceTheorem`: `Spec => []BilledOnce`.  As long as there was no mishap,
  `Alone` says that at most one hook is between reading and writing the cursor,
  that every event there is lies behind the cursor and its message is among the
  remembered ones (`Bounds`), and that no event in the queue or in hand bills what
  another does (`Parted`); so what the next scan finds is new.
* `TokensAddUpTheorem`: `Spec => []TokensAddUp`.  `Billed` says that every cursor -
  in the file, read, or about to be written - remembers exactly the keys of the
  lines behind it and the context that the last new message among them left
  (`Faithful`), and that every turn in hand and every event in the queue is of a
  line that is its message's first and bills what that line adds (`IsGrowth`).
  Between hooks the events and the distinct turns behind the cursor then
  correspond one to one: no two events are of one line by `Alone`, and no turn is
  without an event by `Passed`.  That equal terms have equal sums whatever
  order a set is summed in is proved with tables of the sums of all subsets
  (`Adds`, `FoldsAdd`, `SameSum`).

`CodexHook_proofs`, for any number of sessions, hooks, call ids and rows:

* `TypeCorrect`: `Spec => []TypeOK`.
* `NothingPassedOverTheorem`: `Spec => []NothingPassedOver`, for a tail and hooks
  that overlap as they like.  `Covered` says of a cursor of the file's generation
  that it has exactly the calls that wait behind its row (`Waits`), and that the
  event of every row before it is accounted for (`Noted`): queued, dropped, or in
  the hands of a process that has written its cursor.  `Passed` says this of the
  cursor files and of those that scans start from, and, together with the events
  in hand, of those they are about to write.  The calls belong to it: an output
  whose call is in an earlier piece is found only if the cursor has the call.
* `PiecesAddUpTheorem`: `Spec => []PiecesAddUp`.  As long as nothing excuses a
  repetition or an omission, `Alone` says that at most one process is between
  reading and writing a session's cursor, that what is settled of a session lies
  before the cursor (while the cursor is torn: before the one its process has
  read), and that what that process has found lies behind it.  So a write adds a
  piece that meets none before it, and with `Passed` the pieces are all there is.
  `WholeIsWithin` ties the two to `Whole`, the reference definition that looks at
  all rows at once.

What a scan finds is a recursive function of the line it has come to.  The lemmas
of both hooks (`ScansExist`, `ScanFinds`: for Claude Code, every turn is among the
turns found or its message was known, none twice; for Codex, what the reference
definition says of the rows that were read) are proved by going back to the least line at which they would
fail (`Induct`, from the library's theorem that the order of the naturals is
well-founded), since the library's induction rules take an operator.

`Pipeline_proofs`, for any number of processes and models, any TTL, payloads of
any length, any events and any entries of the config about capture:

* `PriceIsFreshTheorem`: `Spec => []PriceIsFresh`.  `AllSound` says of every
  entry, in a memory, in the file, or in the file that a process is about to put
  in place, that it is of its model and expires a TTL after it was asked for.
* `BillIsRightTheorem`: `Spec => []BillIsRight`.  `AllBillable` says that what a
  process carries through the caches is still the block it began with, not
  billed, and without a cost in the case of a turn, and that what it carries from
  there to its event is that block's bill (`BillIs`), so that nothing that is
  cut, left out or redacted changes it.  Two more facts do the work:
  `ExtractSays`, that merging the objects of a payload from the top down gives
  the first value there is for a field, and `TokensAreAllBilled`, that the three
  parts `apportionUsage` makes of the new tokens add up to them, each within
  rounding of its share of the context (`RoundsDown`).
* `NothingLeaksTheorem`: `Spec => []NothingLeaks`.  `Cut` and `Redacted` go
  through the rules of each profile in order.  No rule brings a secret, or a part
  that was cut, back; but a pattern may bring a string over the limit again, and
  the path rule a second home to the start, so that about these the theorem says
  less (see [Redact](#pricecache-billing-redact-and-pipeline)).  `CapturedParts`
  says that a part which is not captured is not there, and no marker comes in its
  place; `MarkedOnly` that a part which is a marker stays one.

`Extract`, `Apply` and the markers of `Captured` are folds of the community
modules.  `TableExists` and `TableSteps` show that such a fold is what one gets by
going from element to element, so that induction on the number of elements
(`Induct`) is possible; the library's folds take operators, and the lemmas are
about an operator `Step` that names the three that are folded here.

Every invariant and every action property of the passing runs is proved.  Only
model-checked: liveness under fairness, which is out of the prover's reach.

## Where code and documentation disagree

Shown by a run (`PROJECT.json`, "findings"):

* **Two processes lose an event.**  `TECHNICAL_DESIGN.md:105` promises survival;
  `Open` of a second process rolls back a record that the first is moving
  (`queue_two_loss`).

Met on the way, without a run of their own:

* One key, two bodies.  `adapter.go:12` speaks of a stable idempotency key; the
  key of a batch is the id of its first event (`dispatcher.go:156`), and a retried
  event that heads another batch reuses it.
* Dead without a try.  `README.md:64` says retries are exhausted first; a refused
  event takes the rest of its webhookscout batch to `dead` with it.
* A halt is not seen.  `proxy_cmd.go:171-175` and `helpers.go:150-153` say that
  gate and adapter share the halt state; each Cache reads the file once.
* The comment at `proxy_cmd.go:160-163` has the in-process dispatcher run only
  when no sidecar holds the lock: the code below it looks at no lock.
* `proxy_cmd.go:161-163`, "concurrent dispatchers can't double-deliver an event
  id": true within a process (`OneDispatcherPerEvent`), false between processes,
  through `Open`.
* `queue.go:4-6`, status changes as atomic renames: `moveRecord` is a rename and a
  remove, with two files of one record in between.
* `TECHNICAL_DESIGN.md:571`, the event id as idempotency key end to end:
  webhookscout sends `<id of the batch's first event>-<index>`.
* `wire/gate.go:42-44`, blocked attempts show up in telemetry: the request is
  published, no response follows, and no event is emitted.
* `correlate.go:107-108`, orphans can be emitted as partial events:
  `CaptureWorker.Run` drops the list.
* `capture.go:98`, `server_crashed` for an unexpected exit: an upstream that
  `waitCmd` kills after the host left is reported too; `TECHNICAL_DESIGN.md:445`
  has it carry the last tool names, the call passes none.
* `halt.go:51-53`, CLI hooks only read the halt cache: a hook that flushes builds
  adapters that write it.
* `Patch`'s comment (`hosts.go:238-244`) and `TECHNICAL_DESIGN.md:311` speak of a
  state lock, an fsync and a re-parse: there is none of them.  A crash between
  the rename and the save of the hash leaves a stale hash, which the next patch
  takes for drift; so does an unpatch, which clears neither hash nor markers.
* A second partial patch of a TOML or YAML file overwrites `markers.json`, and the
  servers of the first can no longer be unwrapped; undo after two patches
  restores a file that is still patched.
* `README.md:17` has host changes reversible, and `TECHNICAL_DESIGN.md:1086` has
  unpatch restore the command: `patchEntry` takes a command that is no string (a
  server with a URL, an array) for `""` (`patch.go:115`), and unpatch leaves
  `"command": ""`.
* `README.md:17`, `undo` restores the most recent backup: a patch whose result
  cannot be read back renames that backup over the file (`hosts.go:297-301`), and
  an undo after it takes the one before, of an older file.
* `TECHNICAL_DESIGN.md:354` and `frame.go:14-16` have oversized frames forwarded
  unchanged, and `TECHNICAL_DESIGN.md:461` has no condition tear the wire down:
  with a halt gate, an oversized request ends `hostToUp` with `ErrFrameTooLarge`
  and upstream's stdin is closed (`gate.go:79-128`, `proxy.go:141`).
* `Run` reports a crash of upstream through `Queue.Enqueue` (`proxy.go:171-174`):
  behind a worker or a dispatcher that hangs with the queue's mutex, it does not
  return, and its grace period does not apply.
* The error of writing a cursor is dropped (`claude_hook_cmd.go:483`,
  `codex_hook_cmd.go:414`), and any error of reading one gives the zero cursor
  (`claude_hook_cmd.go:811-813`); the comment at `claude_hook_cmd.go:831-832` has
  the cursor reset on the next invocation.  The events are enqueued all the
  same, and the next scan emits them again.
* `buildCodexSessionEvents` gives all rows of a scan the model of the last
  `turn_context`; a session without an id gets a fresh cursor each time; a file
  that was truncated is read again at every poll until it outgrows its cursor,
  since the cursor is not set back; a Stop hook with another id than the file's
  keeps a cursor of its own, and the turns are emitted twice.
* `init` stores the new agent's key before it validates the config: if that
  fails, the old agent has the new key (`halfway` in `ConfigFile`).
* `stop` and the sidecar's own exit remove whatever `dispatch.pid` is there,
  another instance's too; a torn one makes `stop` fail and `start` go ahead.
* Failures to get a price are kept as long as prices; `EstimateUsage` and
  `StandardProfile` do not quite do what their comments say (cache reads; the
  standard profile leaves out e-mail addresses only, path normalisation stays).
* Redaction does not look at the names of fields; a rule that panics is disabled
  and the event goes on; `server_crashed` events pass no redaction.
* `README.md:13` has redaction truncate oversized payloads and normalise paths:
  truncation runs before the patterns, whose placeholders may be longer than what
  they replace, so that a part can leave longer than its limit; and the
  `${HOME}` of `path_normalize` is an empty group to `ReplaceAllString`
  (`engine.go:192`), so that of two homes in a row the second comes to the start.

## What is not modelled

* The bytes: JSON, gzip, YAML, regular expressions, URLs, headers, and prices as
  numbers (floats).  Where a property needs their effect it is in the model (a
  payload too large, a frame too large, a body that cannot be built, a file that
  does not parse, what kind of secret a string has).
* `stdout` as a destination: it reports OK whatever happens to the bytes, so
  "delivered" means nothing there.
* Parsing of frames, notifications, requests of upstream to the host, reuse of
  JSON-RPC ids.
* Metrics, except as the history `counted`.
* Crashes of the operating system, and record headers over 4096 bytes
  (hazards without a property).
* The halt file of several agents: `SetIfChanged` and `Set` write their snapshot
  outside the mutex (`halt.go:87-130`); `Proxy` has one agent.
* The installation of hooks in the settings of Claude Code and Codex, which
  rewrites the user's file in place.
* The audit log, which nothing reads; the events' types and ids, which are assumed
  fresh; the commands that only print.

## Plan

1. *Done.*  `FileQueue`, `Dispatcher`, `AtLeastOnce` with its refinement, `Proxy`.
2. *Done.*  The hooks, the hosts' files, config, credentials, approvals and
   sidecar, prices, billing and redaction; type correctness, three invariants and two
   action properties of the queue, five of the dispatcher and its refinement of `AtLeastOnce`, the
   proxy's four, the five of the home directory, the five of the hosts' files, four of
   Claude Code's hooks and three of Codex's, and the pipeline's three proved.
3. *Open.*  The halt file of several agents and the installation of hooks as
   further users of `TmpFile`'s questions; a crash of the operating system in
   `FileQueue`.
