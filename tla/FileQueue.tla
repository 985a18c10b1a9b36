------------------------------ MODULE FileQueue ------------------------------
(***************************************************************************)
(* The durable event queue of internal/queue/queue.go, at the grain of the *)
(* file-system calls it makes.                                             *)
(*                                                                         *)
(* A record is one file "<id>.rec"; the directory it lies in is its        *)
(* status.  A status change is moveRecord: write a copy under a temporary  *)
(* name in the target directory, rename it into place, remove the source.  *)
(* Each of those calls is a step here, so a crash, an I/O error, or a call *)
(* of another process that opened the same directory can fall between any  *)
(* two of them.  Within one process q.mu serialises the operations: op[p]  *)
(* is the operation that holds it.                                         *)
(*                                                                         *)
(* The module specifies the queue under its most general client: a process *)
(* that enqueues fresh ids, claims batches, and settles (Ack, Retry or     *)
(* MarkDead) only ids that one of its own claims returned.  Dispatcher.tla *)
(* replaces that client with the real one.                                 *)
(***************************************************************************)
EXTENDS Naturals, FiniteSets

CONSTANTS
  Events,       \* event ids; an id is a fresh ULID, so it is enqueued once
  Procs,        \* OS processes that open the queue directory
  Dests,        \* destination names
  DestOf,       \* [Events -> Dests], the destination in a record's header
  None,         \* no file, no current record
  Payload,      \* [Events -> Nat], bytes of the gzipped payload
  Weight,       \* [SUBSET Events -> Nat], bytes of a set of record files
  MaxRowBytes,  \* Options.MaxRowBytes
  MaxBytes,     \* Options.MaxBytes, 0 for no cap
  DropPolicy,   \* Options.DropPolicy
  MaxAttempts,  \* bound on the attempts the client asks for with Retry
  BatchLimits,  \* the limits the client passes to ClaimPending
  MaxCrashes,   \* bound on process ends (crash, kill or exit)
  MaxFaults     \* bound on file-system errors

Dir == {"pending", "inflight", "dead", "dead_overflow"}

\* A record header.  "at" is the rank of EnqueuedAt; "due" is
\* NextAttempt <= now.  Status is the directory.
Record == [attempts : Nat, at : Nat, due : BOOLEAN]

ASSUME ConstantsOK ==
  /\ DestOf \in [Events -> Dests]
  /\ Payload \in [Events -> Nat]
  /\ Weight \in [SUBSET Events -> Nat]
  /\ MaxRowBytes \in Nat /\ MaxBytes \in Nat
  /\ MaxAttempts \in Nat /\ MaxCrashes \in Nat /\ MaxFaults \in Nat
  /\ DropPolicy \in {"oldest", "newest", "block"}
  /\ BatchLimits \subseteq Nat \ {0}
  /\ IsFiniteSet(Events)
\* A record file is its header and its payload; different files add up.
ASSUME WeightsAdd ==
  /\ \A S \in SUBSET Events : \A e \in Events \ S : Weight[S \cup {e}] = Weight[S] + Weight[{e}]
  /\ \A e \in Events : Payload[e] =< Weight[{e}]
ASSUME NoneIsNothing == None \notin Record \cup Events

VARIABLES
  file,      \* file[d][e]: the record <d>/<e>.rec, or None
  tmp,       \* tmp[d][e]: the record in <d>/<e>.rec.tmp, or None
  up,        \* processes that have called Open and have not ended
  op,        \* op[p]: the queue operation of p that holds q.mu
  held,      \* held[p]: ids a claim of p returned and p has not settled
  asked,     \* ids Enqueue was called with
  accepted,  \* ids whose record Enqueue put in place
  acked,     \* ids some process called Ack for
  pruned,    \* ids Prune removed a record of
  crashes, faults

disk == <<file, tmp>>
history == <<asked, accepted, acked, pruned>>
vars == <<file, tmp, up, op, held, asked, accepted, acked, pruned, crashes, faults>>

MoveKinds == {"open", "claim", "retry", "bury", "evict"}
Kinds == MoveKinds \cup {"idle", "enqueue", "prune"}

\* todo: ids the operation has still to visit; cur and stage: the record it
\* is moving; out: ids claimed; new, size, freed: the id Enqueue stores, and the
\* bytes counted and freed by evictIfFull.
Begin(k, todo, new, size) ==
  [kind |-> k, stage |-> "pick", todo |-> todo, cur |-> None,
   out |-> {}, new |-> new, size |-> size, freed |-> 0]

Idle == Begin("idle", {}, None, 0)

Init ==
  /\ file = [d \in Dir |-> [e \in Events |-> None]]
  /\ tmp = [d \in Dir |-> [e \in Events |-> None]]
  /\ up = {}
  /\ op = [p \in Procs |-> Idle]
  /\ held = [p \in Procs |-> {}]
  /\ asked = {} /\ accepted = {} /\ acked = {} /\ pruned = {}
  /\ crashes = 0 /\ faults = 0

-----------------------------------------------------------------------------
(* Helpers                                                                 *)

Src(k) == IF k \in {"claim", "evict"} THEN "pending" ELSE "inflight"

\* Variant for mutation: the victim of an eviction is "moved" to where it is.
DstEvictInPlace(k) ==
  CASE k = "claim" -> "inflight" [] k = "bury" -> "dead" [] OTHER -> "pending"

Dst(k) ==
  CASE k = "claim" -> "inflight"
    [] k = "bury"  -> "dead"
    [] k = "evict" -> "dead_overflow"
    [] OTHER       -> "pending"

Listed(d) == {e \in Events : file[d][e] # None}

\* The header moveRecord writes: only Retry changes the attempt data.
Revised(k, r) ==
  IF k = "retry" THEN [attempts |-> r.attempts + 1, at |-> r.at, due |-> FALSE] ELSE r

\* totalBytes: every file of the three directories, .tmp leftovers included.
TotalBytes ==
  LET In(d) == Weight[Listed(d)] + Weight[{e \in Events : tmp[d][e] # None}]
  IN  In("pending") + In("inflight") + In("dead")

Free(p) == p \in up /\ op[p].kind = "idle"

\* Variant for mutation: the next record starts where the last one stopped.
DoneStuck(o) == [o EXCEPT !.todo = @ \ {o.cur}, !.cur = None]

\* The operation gives up on, or is done with, its current record.
Done(o) == [o EXCEPT !.todo = @ \ {o.cur}, !.cur = None, !.stage = "pick"]
Skip(p) == op' = [op EXCEPT ![p] = Done(@)]

\* ... with what a completed move adds to the operation's outcome.
Moved(o) ==
  [Done(o) EXCEPT !.out = IF o.kind = "claim" THEN @ \cup {o.cur} ELSE @,
                  !.freed = IF o.kind = "evict" THEN @ + Payload[o.cur] ELSE @]

-----------------------------------------------------------------------------
(* moveRecord, one call at a time                                          *)

\* ClaimPending visits by NextAttempt: a record never tried has its enqueue
\* time there, one that was retried a jittered time that any order fits.
Before(e, f) ==
  /\ file["pending"][e].attempts = 0 /\ file["pending"][f].attempts = 0
  /\ file["pending"][e].at < file["pending"][f].at

\* Variant for mutation: the incoming payload is not counted.
OverfullBefore(p) == op[p].size > MaxBytes + op[p].freed

Overfull(p) ==
  op[p].size + Payload[op[p].new] > MaxBytes + op[p].freed

\* Variant for mutation: the victims are sorted the wrong way round.
InOrderNewestFirst(p, e) ==
  \A f \in op[p].todo \cap Listed("pending") :
    op[p].kind = "evict" => file["pending"][e].at >= file["pending"][f].at

\* Among the records still to visit, e is the one the sort puts first.
InOrder(p, e) ==
  \A f \in op[p].todo \cap Listed("pending") :
    CASE op[p].kind = "claim" -> ~Before(f, e)
      [] op[p].kind = "evict" -> file["pending"][e].at =< file["pending"][f].at
      [] OTHER -> TRUE

\* readRecord fails: the loops skip the id, Retry and MarkDead return.
MoveMissing(p) ==
  /\ op[p].kind \in MoveKinds /\ op[p].stage = "pick"
  /\ op[p].kind = "evict" => Overfull(p)
  /\ \E e \in op[p].todo :
       /\ file[Src(op[p].kind)][e] = None
       /\ op' = [op EXCEPT ![p].todo = @ \ {e}]
  /\ UNCHANGED <<disk, up, held, history, crashes, faults>>

\* readRecord, then the copy is written and synced under its .tmp name.
MoveWrite(p) ==
  /\ op[p].kind \in MoveKinds /\ op[p].stage = "pick"
  /\ op[p].kind = "evict" => Overfull(p)
  /\ \E e \in op[p].todo :
       /\ file[Src(op[p].kind)][e] # None
       /\ InOrder(p, e)
       /\ tmp' = [tmp EXCEPT ![Dst(op[p].kind)][e] =
                    Revised(op[p].kind, file[Src(op[p].kind)][e])]
       /\ op' = [op EXCEPT ![p].stage = "rename", ![p].cur = e]
  /\ UNCHANGED <<file, up, held, history, crashes, faults>>

\* os.Rename(tmp, final).
MoveRename(p) ==
  /\ op[p].kind \in MoveKinds /\ op[p].stage = "rename"
  /\ LET d == Dst(op[p].kind)
         e == op[p].cur
     IN  /\ tmp[d][e] # None
         /\ file' = [file EXCEPT ![d][e] = tmp[d][e]]
         /\ tmp' = [tmp EXCEPT ![d][e] = None]
  /\ op' = [op EXCEPT ![p].stage = "remove"]
  /\ UNCHANGED <<up, held, history, crashes, faults>>

\* Another process renamed the shared .tmp name first: ENOENT.
RenameMissing(p) ==
  /\ op[p].stage = "rename"
  /\ tmp[Dst(op[p].kind)][op[p].cur] = None
  /\ Skip(p)
  /\ UNCHANGED <<disk, up, held, history, crashes, faults>>

\* Variant for mutation: the source stays, as if the record were only copied.
MoveRemoveCopies(p) ==
  /\ op[p].stage = "remove"
  /\ file[Src(op[p].kind)][op[p].cur] # None
  /\ op' = [op EXCEPT ![p] = Moved(@)]
  /\ UNCHANGED <<disk, up, held, history, crashes, faults>>

\* os.Remove of the source; the move succeeded.
MoveRemove(p) ==
  /\ op[p].stage = "remove"
  /\ LET k == op[p].kind
         e == op[p].cur
     IN  /\ file[Src(k)][e] # None
         /\ file' = [file EXCEPT ![Src(k)][e] = None]
  /\ op' = [op EXCEPT ![p] = Moved(@)]
  /\ UNCHANGED <<tmp, up, held, history, crashes, faults>>

\* Variant for mutation: a source that is gone counts as removed.
RemoveMissingAccepted(p) ==
  /\ op[p].stage = "remove"
  /\ file[Src(op[p].kind)][op[p].cur] = None
  /\ op' = [op EXCEPT ![p] = Moved(@)]
  /\ UNCHANGED <<disk, up, held, history, crashes, faults>>

\* The source is gone: os.Remove fails, and with it the move.
RemoveMissing(p) ==
  /\ op[p].stage = "remove"
  /\ file[Src(op[p].kind)][op[p].cur] = None
  /\ Skip(p)
  /\ UNCHANGED <<disk, up, held, history, crashes, faults>>

\* Variant for mutation: moveRecord does not look at writeRecord's error.
WriteFaultIgnored(p) ==
  /\ faults < MaxFaults
  /\ op[p].stage = "rename" /\ op[p].kind \in MoveKinds
  /\ op' = [op EXCEPT ![p].stage = "remove"]
  /\ faults' = faults + 1
  /\ UNCHANGED <<disk, up, held, history, crashes>>

\* An I/O error while writing or renaming; the .tmp file may stay.
WriteFault(p) ==
  /\ faults < MaxFaults
  /\ op[p].stage = "rename"
  /\ \/ tmp' = [tmp EXCEPT ![Dst(op[p].kind)][op[p].cur] = None]
     \/ UNCHANGED tmp
  /\ Skip(p)
  /\ faults' = faults + 1
  /\ UNCHANGED <<file, up, held, history, crashes>>

\* Variant for mutation: moveRecord does not look at os.Remove's error.
RemoveFaultIgnored(p) ==
  /\ faults < MaxFaults
  /\ op[p].stage = "remove"
  /\ op' = [op EXCEPT ![p] = Moved(@)]
  /\ faults' = faults + 1
  /\ UNCHANGED <<disk, up, held, history, crashes>>

\* An I/O error while removing the source: the record has two files.
RemoveFault(p) ==
  /\ faults < MaxFaults
  /\ op[p].stage = "remove"
  /\ Skip(p)
  /\ faults' = faults + 1
  /\ UNCHANGED <<disk, up, held, history, crashes>>

\* The operation returns and releases q.mu.
Return(p) ==
  /\ op[p].kind \notin {"idle", "evict"}
  /\ op[p].stage = "pick" /\ op[p].todo = {}
  /\ op' = [op EXCEPT ![p] = Idle]
  /\ held' = [held EXCEPT ![p] = @ \cup op[p].out]
  /\ UNCHANGED <<disk, up, history, crashes, faults>>

-----------------------------------------------------------------------------
(* Operations                                                              *)

\* Variant for mutation: Open does not call recoverInflight.
OpenUnrecovered(p) ==
  /\ p \notin up
  /\ up' = up \cup {p}
  /\ UNCHANGED <<disk, op, held, history, crashes, faults>>

\* Open: every inflight record, whoever claimed it, goes back to pending.
Open(p) ==
  /\ p \notin up
  /\ up' = up \cup {p}
  /\ op' = [op EXCEPT ![p] = Begin("open", Listed("inflight"), None, 0)]
  /\ UNCHANGED <<disk, held, history, crashes, faults>>

\* Enqueue up to and including the tests of evictIfFull.
Enqueue(p, e) ==
  /\ Free(p) /\ e \notin asked
  /\ asked' = asked \cup {e}
  /\ LET full == MaxBytes > 0 /\ TotalBytes + Payload[e] > MaxBytes
     IN  CASE \/ Payload[e] > MaxRowBytes
              \/ full /\ DropPolicy # "oldest" -> UNCHANGED op  \* an error
           [] Payload[e] =< MaxRowBytes /\ full /\ DropPolicy = "oldest" ->
                op' = [op EXCEPT ![p] = Begin("evict", Listed("pending"), e, TotalBytes)]
           [] OTHER -> op' = [op EXCEPT ![p] = Begin("enqueue", {e}, e, TotalBytes)]
  /\ UNCHANGED <<disk, up, held, accepted, acked, pruned, crashes, faults>>

\* The eviction loop is through; it returns nil even if the queue is still
\* over its cap, and Enqueue goes on to store the event.
Evicted(p) ==
  /\ op[p].kind = "evict" /\ op[p].stage = "pick"
  /\ op[p].todo = {} \/ ~Overfull(p)
  /\ op' = [op EXCEPT ![p].kind = "enqueue", ![p].todo = {op[p].new}]
  /\ UNCHANGED <<disk, up, held, history, crashes, faults>>

EnqueueWrite(p) ==
  /\ op[p].kind = "enqueue" /\ op[p].stage = "pick" /\ op[p].todo # {}
  /\ tmp' = [tmp EXCEPT !["pending"][op[p].new] =
               [attempts |-> 0, at |-> Cardinality(asked), due |-> TRUE]]
  /\ op' = [op EXCEPT ![p].stage = "rename", ![p].cur = op[p].new]
  /\ UNCHANGED <<file, up, held, history, crashes, faults>>

EnqueueRename(p) ==
  /\ op[p].kind = "enqueue" /\ op[p].stage = "rename"
  /\ LET e == op[p].cur
     IN  /\ tmp["pending"][e] # None
         /\ file' = [file EXCEPT !["pending"][e] = tmp["pending"][e]]
         /\ tmp' = [tmp EXCEPT !["pending"][e] = None]
         /\ accepted' = accepted \cup {e}
  /\ Skip(p)
  /\ UNCHANGED <<up, held, asked, acked, pruned, crashes, faults>>

\* ClaimPending(destination, limit): the listing, the sort and the cut.
Claim(p, dest, limit) ==
  LET eligible == {e \in Listed("pending") : DestOf[e] = dest /\ file["pending"][e].due}
  IN  /\ Free(p)
      /\ \E S \in SUBSET eligible :
           /\ IF Cardinality(eligible) > limit THEN Cardinality(S) = limit ELSE S = eligible
           /\ \A e \in S, f \in eligible \ S : ~Before(f, e)
           /\ op' = [op EXCEPT ![p] = Begin("claim", S, None, 0)]
      /\ UNCHANGED <<disk, up, held, history, crashes, faults>>

\* Ack: the record is removed if it is still in inflight.
Ack(p, e) ==
  /\ Free(p) /\ e \in held[p]
  /\ file' = [file EXCEPT !["inflight"][e] = None]
  /\ held' = [held EXCEPT ![p] = @ \ {e}]
  /\ acked' = acked \cup {e}
  /\ UNCHANGED <<tmp, up, op, asked, accepted, pruned, crashes, faults>>

\* The remove in Ack fails; the dispatcher ignores the error.
AckFault(p, e) ==
  /\ faults < MaxFaults
  /\ Free(p) /\ e \in held[p]
  /\ held' = [held EXCEPT ![p] = @ \ {e}]
  /\ acked' = acked \cup {e}
  /\ faults' = faults + 1
  /\ UNCHANGED <<disk, up, op, asked, accepted, pruned, crashes>>

\* Retry and MarkDead ("bury"): one move out of inflight.
Settle(p, e, k) ==
  /\ Free(p) /\ e \in held[p]
  /\ op' = [op EXCEPT ![p] = Begin(k, {e}, None, 0)]
  /\ held' = [held EXCEPT ![p] = @ \ {e}]
  /\ UNCHANGED <<disk, up, history, crashes, faults>>

\* Prune lists the two dead directories for records enqueued before cutoff.
Prune(p, cutoff) ==
  LET aged(d) == {e \in Listed(d) : file[d][e].at < cutoff}
  IN  /\ Free(p)
      /\ op' = [op EXCEPT ![p] = Begin("prune", aged("dead") \cup aged("dead_overflow"), None, 0)]
      /\ UNCHANGED <<disk, up, held, history, crashes, faults>>

PruneRemove(p) ==
  /\ op[p].kind = "prune"
  /\ \E e \in op[p].todo :
       /\ file' = [file EXCEPT !["dead"][e] = None, !["dead_overflow"][e] = None]
       /\ pruned' = pruned \cup {e}
       /\ op' = [op EXCEPT ![p].todo = @ \ {e}]
  /\ UNCHANGED <<tmp, up, held, asked, accepted, acked, crashes, faults>>

\* The process is killed, crashes or exits; the disk stays as it is.
End(p) ==
  /\ p \in up /\ crashes < MaxCrashes
  /\ up' = up \ {p}
  /\ op' = [op EXCEPT ![p] = Idle]
  /\ held' = [held EXCEPT ![p] = {}]
  /\ crashes' = crashes + 1
  /\ UNCHANGED <<disk, history, faults>>

\* A retried record's NextAttempt comes.
Elapse(e) ==
  /\ file["pending"][e] # None /\ ~file["pending"][e].due
  /\ file' = [file EXCEPT !["pending"][e].due = TRUE]
  /\ UNCHANGED <<tmp, up, op, held, history, crashes, faults>>

-----------------------------------------------------------------------------

\* The steps of an operation in progress.
Step(p) ==
  \/ MoveMissing(p) \/ MoveWrite(p) \/ MoveRename(p) \/ RenameMissing(p)
  \/ MoveRemove(p) \/ RemoveMissing(p)
  \/ Evicted(p) \/ EnqueueWrite(p) \/ EnqueueRename(p) \/ PruneRemove(p)

Fault(p) == WriteFault(p) \/ RemoveFault(p)

\* The most general client's calls.
Call(p) ==
  \/ Open(p)
  \/ \E e \in Events : Enqueue(p, e)
  \/ \E d \in Dests, n \in BatchLimits : Claim(p, d, n)
  \/ \E e \in held[p] :
       \/ Ack(p, e)
       \/ AckFault(p, e)
       \/ Settle(p, e, "bury")
       \/ /\ file["inflight"][e] # None => file["inflight"][e].attempts < MaxAttempts
          /\ Settle(p, e, "retry")
  \/ \E c \in 1 .. Cardinality(asked) + 1 : Prune(p, c)

Next ==
  \/ \E p \in Procs : Step(p) \/ Return(p) \/ Fault(p) \/ Call(p) \/ End(p)
  \/ \E e \in Events : Elapse(e)

Spec == Init /\ [][Next]_vars

-----------------------------------------------------------------------------
(* Properties                                                              *)

RecordOrNone == Record \cup {None}

OpType ==
  [kind : Kinds, stage : {"pick", "rename", "remove"}, todo : SUBSET Events,
   cur : Events \cup {None}, out : SUBSET Events, new : Events \cup {None},
   size : Nat, freed : Nat]

\* An operation that is moving or storing a record has one at hand.
OpOK(o) ==
  /\ o \in OpType
  /\ o.stage # "pick" => o.cur \in Events /\ o.kind \in MoveKinds \cup {"enqueue"}
  /\ o.stage = "remove" => o.kind \in MoveKinds
  /\ o.kind \in {"evict", "enqueue"} => o.new \in Events

\* Type invariant: files, operations and histories stay in their types, and
\* an operation of a process has the record its stage of moveRecord needs.
TypeOK ==
  /\ file \in [Dir -> [Events -> RecordOrNone]]
  /\ tmp \in [Dir -> [Events -> RecordOrNone]]
  /\ up \in SUBSET Procs
  /\ op \in [Procs -> OpType]
  /\ \A p \in Procs : OpOK(op[p])
  /\ held \in [Procs -> SUBSET Events]
  /\ asked \in SUBSET Events /\ accepted \in SUBSET Events
  /\ acked \in SUBSET Events /\ pruned \in SUBSET Events
  /\ crashes \in Nat /\ faults \in Nat

OnDisk(e) == \E d \in Dir : file[d][e] # None

\* Durable at-least-once: once Enqueue has put an event's record in place,
\* the record is in some directory until a client acknowledged the event or
\* Prune aged it out - across crashes and I/O errors, in mid-move, and
\* whatever Open found and rolled back.
NoLoss == \A e \in accepted : OnDisk(e) \/ e \in acked \cup pruned

\* One claim at a time: an id a running ClaimPending has taken is in no
\* caller's hands, and no id is in the hands of two processes.
ExclusiveClaim ==
  \A p, q \in Procs :
    /\ op[p].out \cap held[q] = {}
    /\ p # q => held[p] \cap held[q] = {}

\* No event is stranded: with no I/O error, when the process is between
\* operations every inflight record is one that a client holds and will
\* settle (nothing but Open ever looks at inflight again), and it has no
\* second, claimable file in pending.
InflightIsHeld ==
  faults = 0 =>
    \A p \in Procs : Free(p) =>
      \A e \in Listed("inflight") :
        e \in held[p] /\ file["pending"][e] = None

\* evictIfFull under "oldest": the step that stores an event leaves the
\* queue within its cap, the new record's header apart, or leaves nothing
\* in pending that could still be evicted.  I/O errors make the loop skip.
CapOrNothingLeft ==
  [][\A p \in Procs, e \in Events :
       (EnqueueRename(p) /\ op[p].cur = e /\ faults = 0 /\ MaxBytes > 0)
         => \/ TotalBytes' + Payload[e] =< MaxBytes + Weight[{e}]
            \/ \A f \in Events \ {e} : file["pending"][f] = None]_vars

\* Eviction takes the oldest first: when a record's copy goes to overflow, no
\* pending record was enqueued earlier.
EvictsOldest ==
  [][\A p \in Procs, e \in Events :
       (MoveRename(p) /\ op[p].kind = "evict" /\ op[p].cur = e /\ faults = 0)
         => \A f \in Listed("pending") : file["pending"][f].at >= file["pending"][e].at]_vars

=============================================================================
