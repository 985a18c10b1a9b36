----------------------------- MODULE Dispatcher -----------------------------
(***************************************************************************)
(* The dispatch loop of internal/dispatch/dispatcher.go over the queue of  *)
(* FileQueue.tla and the destination adapters of internal/destinations.    *)
(*                                                                         *)
(* A process runs several dispatch goroutines on one Queue: the proxy its  *)
(* RunForever loop and, at exit, a RunOnce drain that overlaps it.  Each   *)
(* is a worker wk[p][w] whose pc says where in runDest it is:              *)
(*    idle    between two passes over the registry                         *)
(*    call    about to call ClaimPending for destination Registry[at]      *)
(*    claim   inside ClaimPending                                          *)
(*    send    with a batch to hand to the adapter                          *)
(*    settle  with a result, about to Ack, Retry or MarkDead a record      *)
(*    move    inside Retry or MarkDead                                     *)
(* The other steps of a process are those of its capture side (Enqueue),   *)
(* of Open and of Prune.                                                   *)
(***************************************************************************)
EXTENDS FileQueue, Sequences

CONSTANTS
  Workers,     \* dispatch goroutines of a process
  Registry,    \* sequence of destination names, in registration order
  Adapter,     \* [Dests -> AdapterTypes]
  BatchMax,    \* Options.BatchMax
  MaxRetries   \* BackoffConfig.MaxRetries

AdapterTypes == {"http", "webhookscout", "file"}

ASSUME DispatchConstantsOK ==
  /\ Registry \in Seq(Dests)
  /\ Adapter \in [Dests -> AdapterTypes]
  /\ BatchMax \in Nat \ {0} /\ MaxRetries \in Nat \ {0}

VARIABLES
  wk,       \* the dispatch goroutines
  posts,    \* posts[e]: how often an adapter tried to deliver e
  taken,    \* events a destination has received
  refused   \* events some destination refused for good

world == <<posts, taken, refused>>
dvars == <<vars, wk, world>>

IdleWorker == [pc |-> "idle", at |-> 1, batch |-> <<>>, result |-> "ok"]

DInit ==
  /\ Init
  /\ wk = [p \in Procs |-> [w \in Workers |-> IdleWorker]]
  /\ posts = [e \in Events |-> 0]
  /\ taken = {} /\ refused = {}

-----------------------------------------------------------------------------
(* What a call of Send can come to: its result, how many events of the     *)
(* batch the destination has received, and how many were tried.            *)

\* One POST of the batch; the answer may be lost, or the body not built.
HttpOutcomes(n) ==
  [result : {"ok"}, got : {n}, tried : {n}]
  \cup [result : {"retry"}, got : {0, n}, tried : {n}]
  \cup [result : {"reject"}, got : {0}, tried : {0, n}]

\* One POST per event, up to the first that is not OK.
WebhookScoutOutcomes(n) ==
  [result : {"ok"}, got : {n}, tried : {n}] \cup
  UNION {[result : {"retry"}, got : {k - 1, k}, tried : {k}]
         \cup [result : {"reject"}, got : {k - 1}, tried : {k - 1, k}] : k \in 1 .. n}

\* A line per event, then a sync; any of those may fail.
FileOutcomes(n) ==
  [result : {"ok"}, got : {n}, tried : {n}]
  \cup {[result |-> "retry", got |-> k, tried |-> k] : k \in 0 .. n}

Outcomes(type, n) ==
  CASE type = "http" -> HttpOutcomes(n)
    [] type = "webhookscout" -> WebhookScoutOutcomes(n)
    [] type = "file" -> FileOutcomes(n)

Ids(batch) == {batch[i].id : i \in DOMAIN batch}

-----------------------------------------------------------------------------
(* runDest                                                                 *)

\* RunOnce starts a pass (RunForever does so on every poll interval).
RunOnce(p, w) ==
  /\ p \in up /\ op[p].kind # "open"
  /\ wk[p][w].pc = "idle" /\ Registry # <<>>
  /\ wk' = [wk EXCEPT ![p][w] = [IdleWorker EXCEPT !.pc = "call"]]
  /\ UNCHANGED <<vars, world>>

CallClaim(p, w) ==
  /\ wk[p][w].pc = "call"
  /\ Claim(p, Registry[wk[p][w].at], BatchMax)
  /\ wk' = [wk EXCEPT ![p][w].pc = "claim"]
  /\ UNCHANGED world

\* ClaimPending has moved one more record and appends it to its result.
Claimed(p, w) ==
  /\ wk[p][w].pc = "claim"
  /\ MoveRemove(p)
  /\ wk' = [wk EXCEPT ![p][w].batch = Append(@,
              [id |-> op[p].cur, attempts |-> file["pending"][op[p].cur].attempts])]
  /\ UNCHANGED world

\* ClaimPending returns; no record ends the destination's turn.
ClaimReturns(p, w) ==
  LET x == wk[p][w]
  IN  /\ x.pc = "claim"
      /\ Return(p)
      /\ wk' = [wk EXCEPT ![p][w] =
           IF x.batch # <<>> THEN [x EXCEPT !.pc = "send"]
           ELSE IF x.at = Len(Registry) THEN IdleWorker
           ELSE [x EXCEPT !.pc = "call", !.at = x.at + 1]]
      /\ UNCHANGED world

\* buildBatch and Adapter.Send.
Send(p, w) ==
  LET batch == wk[p][w].batch
      type == Adapter[Registry[wk[p][w].at]]
  IN  /\ wk[p][w].pc = "send"
      /\ \E out \in Outcomes(type, Len(batch)) :
           LET reached(n) == {batch[i].id : i \in 1 .. n}
           IN /\ wk' = [wk EXCEPT ![p][w].pc = "settle", ![p][w].result = out.result]
              /\ posts' = [e \in Events |-> IF e \in reached(out.tried)
                                            THEN posts[e] + 1 ELSE posts[e]]
              /\ taken' = taken \cup reached(out.got)
              /\ refused' = refused \cup
                   CASE out.result # "reject" -> {}
                     [] out.result = "reject" /\ type = "webhookscout" -> {batch[out.got + 1].id}
                     [] OTHER -> Ids(batch)
      /\ UNCHANGED vars

\* Variants for mutation: one try too many, one too few, and an exhausted
\* record that is removed instead of buried.
VerdictOneMore(result, r) ==
  CASE result = "ok" -> "ack"
    [] result = "retry" -> IF r.attempts + 1 > MaxRetries THEN "bury" ELSE "retry"
    [] result = "reject" -> "bury"

VerdictOneFewer(result, r) ==
  CASE result = "ok" -> "ack"
    [] result = "retry" -> IF r.attempts + 2 >= MaxRetries THEN "bury" ELSE "retry"
    [] result = "reject" -> "bury"

VerdictDrops(result, r) ==
  CASE result = "ok" -> "ack"
    [] result = "retry" -> IF r.attempts + 1 >= MaxRetries THEN "ack" ELSE "retry"
    [] result = "reject" -> "bury"

\* What runDest does with a record once the batch's result is known.
Verdict(result, r) ==
  CASE result = "ok" -> "ack"
    [] result = "retry" -> IF r.attempts + 1 >= MaxRetries THEN "bury" ELSE "retry"
    [] result = "reject" -> "bury"

\* The next record of the batch; its error, if any, is ignored.
SettleAck(p, w) ==
  /\ wk[p][w].pc = "settle" /\ wk[p][w].batch # <<>>
  /\ LET r == Head(wk[p][w].batch)
     IN  /\ Verdict(wk[p][w].result, r) = "ack"
         /\ Ack(p, r.id) \/ AckFault(p, r.id)
  /\ wk' = [wk EXCEPT ![p][w].batch = Tail(@)]
  /\ UNCHANGED world

SettleMove(p, w) ==
  /\ wk[p][w].pc = "settle" /\ wk[p][w].batch # <<>>
  /\ LET r == Head(wk[p][w].batch)
         v == Verdict(wk[p][w].result, r)
     IN  v # "ack" /\ Settle(p, r.id, v)
  /\ wk' = [wk EXCEPT ![p][w].batch = Tail(@), ![p][w].pc = "move"]
  /\ UNCHANGED world

MoveReturns(p, w) ==
  /\ wk[p][w].pc = "move"
  /\ Return(p)
  /\ wk' = [wk EXCEPT ![p][w].pc = "settle"]
  /\ UNCHANGED world

\* Variant for mutation: the loop claims again with records unsettled.
NextBatchEarly(p, w) ==
  /\ wk[p][w].pc = "settle"
  /\ wk' = [wk EXCEPT ![p][w].pc = "call"]
  /\ UNCHANGED <<vars, world>>

\* The batch is settled: the loop claims again.
NextBatch(p, w) ==
  /\ wk[p][w].pc = "settle" /\ wk[p][w].batch = <<>>
  /\ wk' = [wk EXCEPT ![p][w].pc = "call"]
  /\ UNCHANGED <<vars, world>>

-----------------------------------------------------------------------------
(* The rest of a process                                                   *)

InClaim(p) == \E w \in Workers : wk[p][w].pc = "claim"

\* A step of an operation in progress that its caller does not see.
QueueStep(p) ==
  /\ \/ MoveMissing(p) \/ MoveWrite(p) \/ MoveRename(p) \/ RenameMissing(p)
     \/ ~InClaim(p) /\ MoveRemove(p)
     \/ RemoveMissing(p)
     \/ Evicted(p) \/ EnqueueWrite(p) \/ EnqueueRename(p) \/ PruneRemove(p)
  /\ UNCHANGED <<wk, world>>

QueueFault(p) == Fault(p) /\ UNCHANGED <<wk, world>>

\* Open, Enqueue or Prune returns to its caller outside the dispatcher.
OtherReturns(p) ==
  /\ op[p].kind \in {"open", "enqueue", "prune"}
  /\ Return(p)
  /\ UNCHANGED <<wk, world>>

Start(p) == Open(p) /\ UNCHANGED <<wk, world>>

Capture(p) == (\E e \in Events : Enqueue(p, e)) /\ UNCHANGED <<wk, world>>

CallPrune(p) ==
  /\ \E c \in 1 .. Cardinality(asked) + 1 : Prune(p, c)
  /\ UNCHANGED <<wk, world>>

\* A process end loses what its goroutines hold.
Stop(p) ==
  /\ End(p)
  /\ wk' = [wk EXCEPT ![p] = [w \in Workers |-> IdleWorker]]
  /\ UNCHANGED world

Wait(e) == Elapse(e) /\ UNCHANGED <<wk, world>>

WorkerStep(p, w) ==
  \/ RunOnce(p, w) \/ CallClaim(p, w) \/ Claimed(p, w) \/ ClaimReturns(p, w)
  \/ Send(p, w) \/ SettleAck(p, w) \/ SettleMove(p, w) \/ MoveReturns(p, w)
  \/ NextBatch(p, w)

DNext ==
  \/ \E p \in Procs :
       \/ \E w \in Workers : WorkerStep(p, w)
       \/ QueueStep(p) \/ QueueFault(p) \/ OtherReturns(p)
       \/ Start(p) \/ Capture(p) \/ CallPrune(p) \/ Stop(p)
  \/ \E e \in Events : Wait(e)

DSpec == DInit /\ [][DNext]_dvars

\* A started call goes on and returns (every adapter call has a timeout), a
\* goroutine that wants q.mu again and again gets it (sync.Mutex hands it to
\* a waiter it has starved), delays pass, and ScoutTrace is started again.
Fairness ==
  /\ \A p \in Procs :
       /\ WF_dvars(QueueStep(p)) /\ WF_dvars(OtherReturns(p)) /\ WF_dvars(Start(p))
       /\ \A w \in Workers : SF_dvars(WorkerStep(p, w))
  /\ \A e \in Events : WF_dvars(Wait(e))

FairSpec == DSpec /\ Fairness

-----------------------------------------------------------------------------
(* Properties                                                              *)

\* Every variable of the dispatcher stays in its type, and a worker has a
\* batch exactly where the loop has one.
DTypeOK ==
  /\ wk \in [Procs -> [Workers ->
       [pc : {"idle", "call", "claim", "send", "settle", "move"},
        at : 1 .. (Len(Registry) + 1), result : {"ok", "retry", "reject"},
        batch : Seq([id : Events, attempts : Nat])]]]
  /\ posts \in [Events -> Nat]
  /\ taken \subseteq Events /\ refused \subseteq Events
  /\ \A p \in Procs, w \in Workers :
       /\ wk[p][w].pc \in {"idle", "call"} => wk[p][w].batch = <<>>
       /\ wk[p][w].pc = "send" => wk[p][w].batch # <<>>

\* The queue loses no event the destination has not received: an accepted
\* event is on disk, was received, or was aged out of a dead directory.
Delivered == \A e \in accepted : OnDisk(e) \/ e \in taken \cup pruned

\* A process acknowledges - and so deletes - only events that a destination
\* has received, whatever other processes do to the record meanwhile.
AckedIsTaken == acked \subseteq taken

InHand(p, w) == IF wk[p][w].pc = "claim" THEN {} ELSE Ids(wk[p][w].batch)

\* No two dispatch goroutines, of one process or of two, have the same event
\* in a batch: concurrent dispatchers do not deliver an event twice.
OneDispatcherPerEvent ==
  \A p, q \in Procs, v, w \in Workers :
    <<p, v>> # <<q, w>> => InHand(p, v) \cap InHand(q, w) = {}

\* Tries are counted right across retries, crashes and Opens. Duplicates are
\* bounded: an event is tried MaxRetries times, and once more for each later
\* Open, which can undo the bookkeeping of one try.
Opens == crashes + Cardinality(up)
TriesBounded == \A e \in Events : posts[e] > 0 => posts[e] =< MaxRetries + Opens - 1

\* And none gives up early: an event is in dead only when a destination refused
\* it or it was tried MaxRetries times.
TriesCounted ==
  /\ TriesBounded
  /\ \A e \in Listed("dead") : e \in refused \/ posts[e] >= MaxRetries

\* Every accepted event of a configured destination leaves the live part of
\* the queue: it is delivered, dead or evicted, whatever ended on the way.
Live(e) == file["pending"][e] # None \/ file["inflight"][e] # None
Configured(e) == \E i \in DOMAIN Registry : Registry[i] = DestOf[e]
EventuallySettled == \A e \in Events : Configured(e) => (Live(e) ~> ~Live(e))

=============================================================================
