-------------------------- MODULE Dispatcher_proofs --------------------------
(***************************************************************************)
(* Proofs about Dispatcher: type correctness and AckedIsTaken for any      *)
(* number of processes and dispatch goroutines, and, for a directory that  *)
(* one process at a time uses, that the queue loses no event which the     *)
(* destination has not received, that no two goroutines have an event,     *)
(* that the dispatcher implements AtLeastOnce, and that tries are counted. *)
(*                                                                         *)
(* To the queue the dispatcher is one of the clients that FileQueue_proofs *)
(* speaks of, so what is proved of the queue there holds here as well.     *)
(***************************************************************************)
EXTENDS DispatcherImplements, FileQueue_proofs, SequenceTheorems

Batches == Seq([id : Events, attempts : Nat])

WorkerType ==
  [pc : {"idle", "call", "claim", "send", "settle", "move"},
   at : 1 .. (Len(Registry) + 1), result : {"ok", "retry", "reject"},
   batch : Batches]

\* A worker in ClaimPending, Retry or MarkDead has q.mu.
Locks(x) == x.pc \in {"claim", "move"}

\* What the loop of runDest knows where it is.
Fits(p, x) ==
  /\ x.pc # "idle" => x.at =< Len(Registry) /\ p \in up
  /\ x.pc \in {"idle", "call"} => x.batch = <<>>
  /\ x.pc = "send" => x.batch # <<>>
  /\ x.pc = "claim" => op[p].kind = "claim"
  /\ x.pc = "move" => op[p].kind \in {"retry", "bury"}
  /\ x.pc \in {"settle", "move"} /\ x.result = "ok" => Ids(x.batch) \subseteq taken

LoopInv ==
  /\ wk \in [Procs -> [Workers -> WorkerType]]
  /\ posts \in [Events -> Nat] /\ taken \subseteq Events /\ refused \subseteq Events
  /\ acked \subseteq taken
  /\ \A p \in Procs, w \in Workers : Fits(p, wk[p][w])
  /\ \A p \in Procs, v, w \in Workers : Locks(wk[p][v]) /\ Locks(wk[p][w]) => v = w

-----------------------------------------------------------------------------
(* The dispatcher as a client of the queue                                 *)

(* A result of Send is one of three, and so is what it leads to: only a    *)
(* batch that went through is acknowledged.                                *)
LEMMA VerdictIs ==
  ASSUME NEW result, NEW r, result \in {"ok", "retry", "reject"}
  PROVE  /\ Verdict(result, r) \in {"ack", "retry", "bury"}
         /\ Verdict(result, r) = "ack" => result = "ok"
BY DEF Verdict

(* A step of the dispatcher is a step of the queue under some client, or   *)
(* leaves the queue alone.                                                 *)
LEMMA DispatcherIsClient ==
  ASSUME LoopInv, DNext
  PROVE  AnyNext \/ UNCHANGED vars
<1>1. ASSUME NEW p \in Procs, NEW w \in Workers, WorkerStep(p, w)
      PROVE  AnyNext \/ UNCHANGED vars
  <2>1. CASE RunOnce(p, w) \/ Send(p, w) \/ NextBatch(p, w)
    BY <2>1 DEF RunOnce, Send, NextBatch
  <2>2. CASE CallClaim(p, w)
    BY <2>2 DEF CallClaim, AnyNext, AnyCall
  <2>3. CASE Claimed(p, w)
    BY <2>3 DEF Claimed, AnyNext, Step
  <2>4. CASE ClaimReturns(p, w) \/ MoveReturns(p, w)
    BY <2>4 DEF ClaimReturns, MoveReturns, AnyNext
  <2>5. CASE SettleAck(p, w)
    <3>1. \E e \in held[p] : Ack(p, e) \/ AckFault(p, e)
      BY <2>5 DEF SettleAck, Ack, AckFault
    <3>. QED  BY <3>1 DEF AnyNext, AnyCall
  <2>6. CASE SettleMove(p, w)
    <3>. DEFINE r == Head(wk[p][w].batch)
                v == Verdict(wk[p][w].result, r)
    <3>1. v # "ack" /\ Settle(p, r.id, v) /\ r.id \in held[p]
      BY <2>6 DEF SettleMove, Settle
    <3>2. v \in {"retry", "bury"}
      <4>1. wk[p][w].result \in {"ok", "retry", "reject"}
        BY DEF LoopInv, WorkerType
      <4>. QED  BY <3>1, <4>1, VerdictIs
    <3>. HIDE DEF r, v
    <3>. QED  BY <3>1, <3>2 DEF AnyNext, AnyCall
  <2>. QED  BY <1>1, <2>1, <2>2, <2>3, <2>4, <2>5, <2>6 DEF WorkerStep
<1>2. ASSUME NEW p \in Procs,
             \/ QueueStep(p) \/ QueueFault(p) \/ OtherReturns(p)
             \/ Start(p) \/ Capture(p) \/ CallPrune(p) \/ Stop(p)
      PROVE  AnyNext
  <2>1. CASE QueueStep(p)
    BY <2>1 DEF QueueStep, AnyNext, Step
  <2>2. CASE QueueFault(p) \/ OtherReturns(p) \/ Stop(p)
    BY <2>2 DEF QueueFault, OtherReturns, Stop, AnyNext
  <2>3. CASE Start(p) \/ Capture(p) \/ CallPrune(p)
    BY <2>3 DEF Start, Capture, CallPrune, AnyNext, AnyCall
  <2>. QED  BY <1>2, <2>1, <2>2, <2>3
<1>3. ASSUME NEW e \in Events, Wait(e)
      PROVE  AnyNext
  BY <1>3 DEF Wait, AnyNext
<1>. QED  BY <1>1, <1>2, <1>3 DEF DNext
-----------------------------------------------------------------------------
(* Batches                                                                 *)

(* The first record of a batch, and the rest.                              *)
LEMMA HeadOfBatch ==
  ASSUME NEW b \in Batches, b # <<>>
  PROVE  /\ Head(b) \in [id : Events, attempts : Nat] /\ Head(b).id \in Ids(b)
         /\ Tail(b) \in Batches /\ Ids(Tail(b)) \subseteq Ids(b)
<1>. DEFINE R == [id : Events, attempts : Nat]
<1>1. b \in Seq(R)
  BY DEF Batches
<1>. HIDE DEF R
<1>2. Len(b) \in Nat /\ DOMAIN b = 1 .. Len(b) /\ Len(b) # 0
  BY <1>1, EmptySeq, LenProperties
<1>3. /\ Head(b) \in R /\ Tail(b) \in Seq(R) /\ Len(Tail(b)) = Len(b) - 1
      /\ \A i \in 1 .. Len(Tail(b)) : Tail(b)[i] = b[i + 1]
  BY <1>1, HeadTailProperties
<1>4. DOMAIN Tail(b) = 1 .. (Len(b) - 1)
  BY <1>3, LenProperties
<1>5. \A i \in DOMAIN Tail(b) : i + 1 \in DOMAIN b /\ Tail(b)[i] = b[i + 1]
  BY <1>2, <1>3, <1>4
<1>6. Head(b) = b[1] /\ 1 \in DOMAIN b
  BY <1>1, <1>2
<1>. QED  BY <1>3, <1>5, <1>6 DEF Batches, Ids, R

(* A batch with one more record.                                           *)
LEMMA LongerBatch ==
  ASSUME NEW b \in Batches, NEW r \in [id : Events, attempts : Nat]
  PROVE  Append(b, r) \in Batches /\ Ids(Append(b, r)) = Ids(b) \cup {r.id}
<1>1. b \in Seq([id : Events, attempts : Nat])
  BY DEF Batches
<1>2. /\ Append(b, r) \in Seq([id : Events, attempts : Nat])
      /\ Len(b) \in Nat /\ DOMAIN b = 1 .. Len(b)
      /\ DOMAIN Append(b, r) = 1 .. (Len(b) + 1)
      /\ \A i \in 1 .. Len(b) : Append(b, r)[i] = b[i]
      /\ Append(b, r)[Len(b) + 1] = r
  BY <1>1
<1>3. \A i \in DOMAIN Append(b, r) : i \in DOMAIN b \/ i = Len(b) + 1
  BY <1>2
<1>4. DOMAIN b \subseteq DOMAIN Append(b, r) /\ Len(b) + 1 \in DOMAIN Append(b, r)
  BY <1>2
<1>. QED  BY <1>2, <1>3, <1>4 DEF Batches, Ids

(* The empty batch.                                                        *)
LEMMA NoBatch == <<>> \in Batches /\ Ids(<<>>) = {}
BY DEF Batches, Ids

(* What a batch has are events.                                            *)
LEMMA BatchOfEvents ==
  ASSUME NEW b \in Batches
  PROVE  /\ Len(b) \in Nat /\ DOMAIN b = 1 .. Len(b) /\ (b # <<>> => Len(b) # 0)
         /\ \A i \in 1 .. Len(b) : b[i].id \in Events
<1>. DEFINE R == [id : Events, attempts : Nat]
<1>1. b \in Seq(R)
  BY DEF Batches
<1>. HIDE DEF R
<1>2. Len(b) \in Nat /\ DOMAIN b = 1 .. Len(b) /\ (b # <<>> => Len(b) # 0)
  BY <1>1, EmptySeq, LenProperties
<1>3. \A i \in 1 .. Len(b) : b[i] \in R
  BY <1>1, ElementOfSeq
<1>. QED  BY <1>2, <1>3 DEF R

(* Send went through, or an event that it could not deliver is left.       *)
LEMMA OutcomeIs ==
  ASSUME NEW type \in AdapterTypes, NEW n \in Nat \ {0}, NEW out \in Outcomes(type, n)
  PROVE  /\ out.result \in {"ok", "retry", "reject"} /\ out.got \in 0 .. n
         /\ out.result = "ok" => out.got = n
         /\ out.result = "reject" /\ type = "webhookscout" => out.got < n
<1>1. CASE type = "http"
  BY <1>1 DEF Outcomes, HttpOutcomes
<1>2. CASE type = "webhookscout"
  <2>1. out \in WebhookScoutOutcomes(n)
    BY <1>2 DEF Outcomes
  <2>2. CASE out \in [result : {"ok"}, got : {n}, tried : {n}]
    BY <2>2
  <2>3. ASSUME NEW k \in 1 .. n,
               out \in [result : {"retry"}, got : {k - 1, k}, tried : {k}]
                        \cup [result : {"reject"}, got : {k - 1}, tried : {k - 1, k}]
        PROVE  /\ out.result \in {"retry", "reject"} /\ out.got \in 0 .. n
               /\ out.result = "reject" => out.got < n
    BY <2>3
  <2>. QED  BY <2>1, <2>2, <2>3 DEF WebhookScoutOutcomes
<1>3. CASE type = "file"
  BY <1>3 DEF Outcomes, FileOutcomes
<1>. QED  BY <1>1, <1>2, <1>3 DEF AdapterTypes

-----------------------------------------------------------------------------
(* The loop                                                                *)

(* A step of one worker: it is enough to look at that worker.              *)
LEMMA OneWorker ==
  ASSUME LoopInv, NEW p \in Procs, NEW w \in Workers, NEW y \in WorkerType,
         wk' = [wk EXCEPT ![p][w] = y],
         up' = up, \A q \in Procs \ {p} : op'[q] = op[q],
         posts' \in [Events -> Nat], refused' \subseteq Events,
         taken \subseteq taken', taken' \subseteq Events, acked' \subseteq taken',
         op'[p].kind = op[p].kind \/ \A v \in Workers \ {w} : ~Locks(wk[p][v]),
         Locks(y) => \A v \in Workers \ {w} : ~Locks(wk[p][v]),
         Fits(p, y)'
  PROVE  LoopInv'
<1>1. /\ wk' \in [Procs -> [Workers -> WorkerType]] /\ wk'[p][w] = y
      /\ \A q \in Procs, v \in Workers : q # p \/ v # w => wk'[q][v] = wk[q][v]
  BY DEF LoopInv
<1>2. ASSUME NEW q \in Procs, NEW v \in Workers, q # p \/ v # w
      PROVE  Fits(q, wk[q][v])'
  <2>1. Fits(q, wk[q][v]) /\ wk'[q][v] = wk[q][v]
    BY <1>1, <1>2 DEF LoopInv
  <2>2. op'[q].kind = op[q].kind \/ ~Locks(wk[q][v])
    BY <1>2
  <2>. QED  BY <2>1, <2>2 DEF Fits, Locks
<1>3. \A q \in Procs, v \in Workers : Fits(q, wk[q][v])'
  BY <1>1, <1>2
<1>4. ASSUME NEW q \in Procs, NEW u \in Workers, NEW v \in Workers,
             Locks(wk'[q][u]), Locks(wk'[q][v])
      PROVE  u = v
  BY <1>1, <1>4 DEF LoopInv
<1>. QED  BY <1>1, <1>3, <1>4 DEF LoopInv

(* The steps of the queue that a worker waits for change no operation's    *)
(* kind, but that an eviction goes on to store its event.                  *)
LEMMA KindKept ==
  ASSUME TypeOK, NEW p \in Procs, Step(p) \/ Fault(p)
  PROVE  /\ \A q \in Procs \ {p} : op'[q] = op[q]
         /\ op'[p].kind = op[p].kind \/ op[p].kind = "evict"
         /\ up' = up /\ held' = held /\ acked' = acked
<1>1. op \in [Procs -> OpType] /\ op[p] \in OpType
  BY DEF TypeOK
<1>2. CASE \/ RenameMissing(p) \/ RemoveMissing(p) \/ WriteFault(p) \/ RemoveFault(p)
           \/ EnqueueRename(p)
  BY <1>1, <1>2, DoneFields
  DEF RenameMissing, RemoveMissing, WriteFault, RemoveFault, EnqueueRename, Skip, history
<1>3. CASE \/ MoveMissing(p) \/ MoveWrite(p) \/ MoveRename(p) \/ Evicted(p)
           \/ EnqueueWrite(p) \/ PruneRemove(p)
  BY <1>1, <1>3
  DEF MoveMissing, MoveWrite, MoveRename, Evicted, EnqueueWrite, PruneRemove, OpType, history
<1>4. CASE MoveRemove(p)
  BY <1>1, <1>4, MovedFields DEF MoveRemove, history
<1>. QED  BY <1>2, <1>3, <1>4 DEF Step, Fault

(* What a goroutine does keeps LoopInv.                                    *)
LEMMA LoopWorker ==
  ASSUME TypeOK, LoopInv, NEW p \in Procs, NEW w \in Workers, WorkerStep(p, w)
  PROVE  LoopInv'
<1>. DEFINE x == wk[p][w]
<1>0. /\ x \in WorkerType /\ Fits(p, x) /\ op \in [Procs -> OpType] /\ op[p] \in OpType
      /\ posts \in [Events -> Nat] /\ taken \subseteq Events /\ refused \subseteq Events
      /\ acked \subseteq taken
      /\ x.batch \in Batches /\ x.at \in 1 .. (Len(Registry) + 1) /\ Len(Registry) \in Nat
      /\ wk \in [Procs -> [Workers -> WorkerType]]
  BY DispatchConstantsOK DEF LoopInv, TypeOK, WorkerType
<1>1. Free(p) => \A v \in Workers : ~Locks(wk[p][v])
  BY DEF LoopInv, Fits, Locks, Free
<1>2. Locks(x) => \A v \in Workers \ {w} : ~Locks(wk[p][v])
  BY DEF LoopInv
<1>3. IdleWorker \in WorkerType /\ Fits(p, IdleWorker)'
  BY <1>0, NoBatch DEF IdleWorker, WorkerType, Fits
<1>4. CASE RunOnce(p, w)
  <2>. DEFINE y == [IdleWorker EXCEPT !.pc = "call"]
  <2>1. /\ wk' = [wk EXCEPT ![p][w] = y] /\ Registry # <<>> /\ p \in up
        /\ UNCHANGED <<vars, world>>
    BY <1>4 DEF RunOnce
  <2>2. y \in WorkerType /\ y.pc = "call" /\ y.at = 1 /\ y.batch = <<>>
    BY <1>3 DEF IdleWorker, WorkerType
  <2>3. 1 =< Len(Registry)
    BY <2>1, DispatchConstantsOK
  <2>4. Fits(p, y)' /\ ~Locks(y)
    BY <2>1, <2>2, <2>3 DEF Fits, Locks, vars
  <2>. HIDE DEF y
  <2>. QED  BY <1>0, <2>1, <2>2, <2>4, OneWorker DEF vars, world
<1>5. CASE CallClaim(p, w)
  <2>0. PICK y : y = [x EXCEPT !.pc = "claim"]
    OBVIOUS
  <2>1. /\ wk' = [wk EXCEPT ![p][w] = y] /\ x.pc = "call" /\ Free(p)
        /\ \E S : op' = [op EXCEPT ![p] = Begin("claim", S, None, 0)]
        /\ up' = up /\ acked' = acked /\ UNCHANGED world
    BY <1>0, <1>5, <2>0 DEF CallClaim, Claim, history
  <2>2. y \in WorkerType /\ y.pc = "claim" /\ y.at = x.at /\ y.batch = x.batch
    BY <1>0, <2>0 DEF WorkerType
  <2>3. op'[p].kind = "claim" /\ \A q \in Procs \ {p} : op'[q] = op[q]
    BY <1>0, <2>1, BeginFields
  <2>4. Fits(p, y)'
    BY <1>0, <2>1, <2>2, <2>3 DEF Fits
  <2>. QED  BY <1>0, <1>1, <2>1, <2>2, <2>3, <2>4, OneWorker DEF world
<1>6. CASE Claimed(p, w)
  <2>. DEFINE r == [id |-> op[p].cur, attempts |-> file["pending"][op[p].cur].attempts]
  <2>0. PICK y : y = [x EXCEPT !.batch = Append(@, r)]
    OBVIOUS
  <2>1. wk' = [wk EXCEPT ![p][w] = y] /\ x.pc = "claim" /\ MoveRemove(p) /\ UNCHANGED world
    BY <1>0, <1>6, <2>0 DEF Claimed
  <2>2. op[p].kind = "claim" /\ op[p].cur \in Events
    BY <1>0, <2>1 DEF Fits, MoveRemove, TypeOK, OpOK
  <2>3. file["pending"][op[p].cur] \in Record
    BY <2>1, <2>2 DEF MoveRemove, Src, TypeOK, RecordOrNone, Dir
  <2>4. r \in [id : Events, attempts : Nat]
    BY <2>2, <2>3 DEF Record
  <2>5. Append(x.batch, r) \in Batches
    BY <1>0, <2>4, LongerBatch
  <2>. HIDE DEF r
  <2>6. y \in WorkerType /\ y.pc = "claim" /\ y.at = x.at
    BY <1>0, <2>0, <2>1, <2>5 DEF WorkerType
  <2>7. /\ \A q \in Procs \ {p} : op'[q] = op[q]
        /\ op'[p].kind = "claim" /\ up' = up /\ acked' = acked
    BY <2>1, <2>2, KindKept DEF Step
  <2>8. Fits(p, y)' /\ Locks(x)
    BY <1>0, <2>1, <2>6, <2>7 DEF Fits, Locks
  <2>. QED  BY <1>0, <1>2, <2>1, <2>2, <2>6, <2>7, <2>8, OneWorker DEF world
<1>7. CASE ClaimReturns(p, w)
  <2>1. /\ x.pc = "claim" /\ Return(p) /\ UNCHANGED world /\ up' = up /\ acked' = acked
        /\ \A q \in Procs \ {p} : op'[q] = op[q]
    BY <1>0, <1>7 DEF ClaimReturns, Return, history
  <2>2. PICK y : /\ wk' = [wk EXCEPT ![p][w] = y]
                 /\ \/ y = [x EXCEPT !.pc = "send"] /\ x.batch # <<>>
                    \/ y = IdleWorker
                    \/ /\ y = [x EXCEPT !.pc = "call", !.at = x.at + 1]
                       /\ x.batch = <<>> /\ x.at # Len(Registry)
    <3>. DEFINE y == IF x.batch # <<>> THEN [x EXCEPT !.pc = "send"]
                     ELSE IF x.at = Len(Registry) THEN IdleWorker
                     ELSE [x EXCEPT !.pc = "call", !.at = x.at + 1]
    <3>1. wk' = [wk EXCEPT ![p][w] = y]
      BY <1>7 DEF ClaimReturns
    <3>. QED  BY <3>1
  <2>3. x.at =< Len(Registry) /\ p \in up /\ Locks(x)
    BY <1>0, <2>1 DEF Fits, Locks
  <2>4. y \in WorkerType /\ Fits(p, y)' /\ ~Locks(y)
    <3>1. CASE y = [x EXCEPT !.pc = "send"] /\ x.batch # <<>>
      <4>1. y \in WorkerType /\ y.pc = "send" /\ y.at = x.at /\ y.batch = x.batch
        BY <1>0, <3>1 DEF WorkerType
      <4>. QED  BY <2>1, <2>3, <3>1, <4>1 DEF Fits, Locks
    <3>2. CASE y = IdleWorker
      <4>1. ~Locks(IdleWorker)
        BY DEF Locks, IdleWorker
      <4>. QED  BY <1>3, <3>2, <4>1 DEF Fits
    <3>3. CASE /\ y = [x EXCEPT !.pc = "call", !.at = x.at + 1]
               /\ x.batch = <<>> /\ x.at # Len(Registry)
      <4>1. x.at + 1 \in 1 .. Len(Registry) /\ x.at + 1 \in 1 .. (Len(Registry) + 1)
        BY <1>0, <2>3, <3>3
      <4>2. y \in WorkerType /\ y.pc = "call" /\ y.at = x.at + 1 /\ y.batch = <<>>
        BY <1>0, <3>3, <4>1 DEF WorkerType
      <4>. QED  BY <2>1, <2>3, <4>1, <4>2 DEF Fits, Locks
    <3>. QED  BY <2>2, <3>1, <3>2, <3>3
  <2>. QED  BY <1>0, <1>2, <2>1, <2>2, <2>3, <2>4, OneWorker DEF world
<1>8. CASE Send(p, w)
  <2>. DEFINE type == Adapter[Registry[x.at]]
              Reached(n) == {x.batch[i].id : i \in 1 .. n}
  <2>1. x.pc = "send" /\ UNCHANGED vars /\ x.batch # <<>> /\ x.at \in 1 .. Len(Registry) /\ p \in up
    BY <1>0, <1>8 DEF Send, Fits
  <2>2. PICK out \in Outcomes(type, Len(x.batch)) :
          /\ wk' = [wk EXCEPT ![p][w].pc = "settle", ![p][w].result = out.result]
          /\ posts' = [e \in Events |-> IF e \in Reached(out.tried) THEN posts[e] + 1 ELSE posts[e]]
          /\ taken' = taken \cup Reached(out.got)
          /\ refused' = refused \cup
               CASE out.result # "reject" -> {}
                 [] out.result = "reject" /\ type = "webhookscout" -> {x.batch[out.got + 1].id}
                 [] OTHER -> Ids(x.batch)
    BY <1>8 DEF Send
  <2>3. PICK y : y = [x EXCEPT !.pc = "settle", !.result = out.result]
    OBVIOUS
  <2>4. type \in AdapterTypes
    BY <2>1, DispatchConstantsOK, ElementOfSeq
  <2>5. /\ Len(x.batch) \in Nat \ {0} /\ DOMAIN x.batch = 1 .. Len(x.batch)
        /\ \A i \in 1 .. Len(x.batch) : x.batch[i].id \in Events
    BY <1>0, <2>1, BatchOfEvents
  <2>. HIDE DEF type
  <2>6. /\ out.result \in {"ok", "retry", "reject"} /\ out.got \in 0 .. Len(x.batch)
        /\ out.result = "ok" => out.got = Len(x.batch)
        /\ out.result = "reject" /\ type = "webhookscout" => out.got < Len(x.batch)
    BY <2>2, <2>4, <2>5, OutcomeIs
  <2>7. /\ y \in WorkerType /\ y.pc = "settle" /\ y.result = out.result
        /\ y.batch = x.batch /\ y.at = x.at
    BY <1>0, <2>3, <2>6 DEF WorkerType
  <2>8. wk' = [wk EXCEPT ![p][w] = y]
    BY <1>0, <2>2, <2>3 DEF WorkerType
  <2>9. posts' \in [Events -> Nat]
    BY <1>0, <2>2
  <2>10. Reached(out.got) \subseteq Events /\ Ids(x.batch) \subseteq Events
    BY <2>5, <2>6 DEF Ids
  <2>11. refused' \subseteq Events
    <3>1. CASE out.result # "reject"
      BY <1>0, <2>2, <3>1
    <3>2. CASE out.result = "reject" /\ type = "webhookscout"
      <4>1. out.got + 1 \in 1 .. Len(x.batch)
        BY <2>5, <2>6, <3>2
      <4>. QED  BY <1>0, <2>2, <2>5, <3>2, <4>1
    <3>3. CASE out.result = "reject" /\ type # "webhookscout"
      BY <1>0, <2>2, <2>10, <3>3
    <3>. QED  BY <3>1, <3>2, <3>3
  <2>12. out.result = "ok" => Ids(x.batch) \subseteq taken'
    BY <2>2, <2>5, <2>6 DEF Ids
  <2>13. Fits(p, y)' /\ ~Locks(y)
    BY <1>0, <2>1, <2>7, <2>12 DEF Fits, Locks, vars
  <2>14. taken \subseteq taken' /\ taken' \subseteq Events /\ acked' \subseteq taken'
    BY <1>0, <2>1, <2>2, <2>10 DEF vars
  <2>. QED  BY <2>1, <2>7, <2>8, <2>9, <2>11, <2>13, <2>14, OneWorker DEF vars
<1>9. CASE SettleAck(p, w)
  <2>1. PICK y : y = [x EXCEPT !.batch = Tail(@)]
    OBVIOUS
  <2>2. /\ wk' = [wk EXCEPT ![p][w] = y] /\ x.pc = "settle" /\ x.batch # <<>>
        /\ Verdict(x.result, Head(x.batch)) = "ack" /\ UNCHANGED world
        /\ Ack(p, Head(x.batch).id) \/ AckFault(p, Head(x.batch).id)
    BY <1>0, <1>9, <2>1 DEF SettleAck
  <2>3. /\ Head(x.batch).id \in Ids(x.batch) /\ Tail(x.batch) \in Batches
        /\ Ids(Tail(x.batch)) \subseteq Ids(x.batch)
    BY <1>0, <2>2, HeadOfBatch
  <2>4. x.result = "ok" /\ x.at =< Len(Registry) /\ p \in up
    BY <1>0, <2>2, VerdictIs DEF WorkerType, Fits
  <2>5. Ids(x.batch) \subseteq taken
    BY <1>0, <2>2, <2>4 DEF Fits
  <2>6. op' = op /\ up' = up /\ acked' = acked \cup {Head(x.batch).id}
    BY <2>2 DEF Ack, AckFault
  <2>7. /\ y \in WorkerType /\ y.pc = "settle" /\ y.result = x.result
        /\ y.batch = Tail(x.batch) /\ y.at = x.at
    BY <1>0, <2>1, <2>2, <2>3 DEF WorkerType
  <2>8. taken' = taken /\ posts' = posts /\ refused' = refused
    BY <2>2 DEF world
  <2>9. Fits(p, y)' /\ ~Locks(y)
    BY <2>3, <2>4, <2>5, <2>6, <2>7, <2>8 DEF Fits, Locks
  <2>10. acked' \subseteq taken'
    BY <1>0, <2>3, <2>5, <2>6, <2>8
  <2>. QED  BY <1>0, <2>2, <2>6, <2>7, <2>8, <2>9, <2>10, OneWorker
<1>10. CASE SettleMove(p, w)
  <2>. DEFINE v == Verdict(x.result, Head(x.batch))
  <2>1. PICK y : y = [x EXCEPT !.batch = Tail(@), !.pc = "move"]
    OBVIOUS
  <2>2. /\ wk' = [wk EXCEPT ![p][w] = y] /\ x.pc = "settle" /\ x.batch # <<>>
        /\ v # "ack" /\ UNCHANGED world /\ Settle(p, Head(x.batch).id, v)
    BY <1>0, <1>10, <2>1 DEF SettleMove, WorkerType
  <2>3. Tail(x.batch) \in Batches /\ Ids(Tail(x.batch)) \subseteq Ids(x.batch)
    BY <1>0, <2>2, HeadOfBatch
  <2>4. v \in {"retry", "bury"} /\ x.at =< Len(Registry) /\ p \in up
    BY <1>0, <2>2, VerdictIs DEF WorkerType, Fits
  <2>. HIDE DEF v
  <2>5. /\ Free(p) /\ op' = [op EXCEPT ![p] = Begin(v, {Head(x.batch).id}, None, 0)]
        /\ up' = up /\ acked' = acked
    BY <2>2 DEF Settle, history
  <2>6. op'[p].kind = v /\ \A q \in Procs \ {p} : op'[q] = op[q]
    BY <1>0, <2>5, BeginFields
  <2>7. /\ y \in WorkerType /\ y.pc = "move" /\ y.result = x.result
        /\ y.batch = Tail(x.batch) /\ y.at = x.at
    BY <1>0, <2>1, <2>2, <2>3 DEF WorkerType
  <2>8. taken' = taken /\ posts' = posts /\ refused' = refused
    BY <2>2 DEF world
  <2>9. x.result = "ok" => Ids(x.batch) \subseteq taken
    BY <1>0, <2>2 DEF Fits
  <2>10. Fits(p, y)'
    BY <2>3, <2>4, <2>5, <2>6, <2>7, <2>8, <2>9 DEF Fits
  <2>. QED  BY <1>0, <1>1, <2>2, <2>5, <2>6, <2>7, <2>8, <2>10, OneWorker
<1>11. CASE MoveReturns(p, w)
  <2>1. PICK y : y = [x EXCEPT !.pc = "settle"]
    OBVIOUS
  <2>2. /\ wk' = [wk EXCEPT ![p][w] = y] /\ x.pc = "move" /\ UNCHANGED world
        /\ up' = up /\ acked' = acked /\ \A q \in Procs \ {p} : op'[q] = op[q]
    BY <1>0, <1>11, <2>1 DEF MoveReturns, Return, history
  <2>3. /\ y \in WorkerType /\ y.pc = "settle" /\ y.result = x.result
        /\ y.batch = x.batch /\ y.at = x.at
    BY <1>0, <2>1 DEF WorkerType
  <2>4. taken' = taken /\ posts' = posts /\ refused' = refused
    BY <2>2 DEF world
  <2>5. Fits(p, y)' /\ ~Locks(y) /\ Locks(x)
    BY <1>0, <2>2, <2>3, <2>4 DEF Fits, Locks
  <2>. QED  BY <1>0, <1>2, <2>2, <2>3, <2>4, <2>5, OneWorker
<1>12. CASE NextBatch(p, w)
  <2>1. PICK y : y = [x EXCEPT !.pc = "call"]
    OBVIOUS
  <2>2. /\ wk' = [wk EXCEPT ![p][w] = y] /\ x.pc = "settle" /\ x.batch = <<>>
        /\ UNCHANGED <<vars, world>>
    BY <1>0, <1>12, <2>1 DEF NextBatch
  <2>3. y \in WorkerType /\ y.pc = "call" /\ y.batch = <<>> /\ y.at = x.at
    BY <1>0, <2>1, <2>2 DEF WorkerType
  <2>4. Fits(p, y)' /\ ~Locks(y)
    BY <1>0, <2>2, <2>3 DEF Fits, Locks, vars
  <2>. QED  BY <1>0, <2>2, <2>3, <2>4, OneWorker DEF vars, world
<1>. QED  BY <1>4, <1>5, <1>6, <1>7, <1>8, <1>9, <1>10, <1>11, <1>12 DEF WorkerStep

(* Nor does the rest of the process, which waits while a worker has q.mu.  *)
LEMMA LoopRest ==
  ASSUME TypeOK, LoopInv, NEW p \in Procs,
         \/ QueueStep(p) \/ QueueFault(p) \/ OtherReturns(p)
         \/ Start(p) \/ Capture(p) \/ CallPrune(p) \/ Stop(p)
  PROVE  LoopInv'
<1>0. op \in [Procs -> OpType] /\ op[p] \in OpType
  BY DEF TypeOK
<1>1. ASSUME UNCHANGED <<wk, world>>, up \subseteq up', acked' = acked,
             \A q \in Procs \ {p} : op'[q] = op[q],
             op'[p].kind = op[p].kind \/ \A w \in Workers : ~Locks(wk[p][w])
      PROVE  LoopInv'
  <2>1. \A q \in Procs, w \in Workers : op'[q].kind = op[q].kind \/ ~Locks(wk[q][w])
    BY <1>1
  <2>2. \A q \in Procs, w \in Workers : Fits(q, wk[q][w])'
    BY <1>1, <2>1 DEF LoopInv, Fits, Locks, world
  <2>. QED  BY <1>1, <2>2 DEF LoopInv, world
<1>2. op[p].kind \notin {"claim", "retry", "bury"} => \A w \in Workers : ~Locks(wk[p][w])
  BY DEF LoopInv, Fits, Locks
<1>3. p \notin up => \A w \in Workers : ~Locks(wk[p][w])
  BY DEF LoopInv, Fits, Locks
<1>4. CASE QueueStep(p) \/ QueueFault(p)
  <2>1. Step(p) \/ Fault(p)
    BY <1>4 DEF QueueStep, QueueFault, Step
  <2>2. UNCHANGED <<wk, world>>
    BY <1>4 DEF QueueStep, QueueFault
  <2>. QED  BY <1>1, <1>2, <2>1, <2>2, KindKept
<1>5. CASE OtherReturns(p)
  BY <1>0, <1>1, <1>2, <1>5 DEF OtherReturns, Return, history
<1>6. CASE Start(p)
  BY <1>0, <1>1, <1>3, <1>6 DEF Start, Open, history
<1>7. CASE Capture(p) \/ CallPrune(p)
  <2>1. /\ Free(p) /\ up' = up /\ acked' = acked /\ UNCHANGED <<wk, world>>
        /\ op' = op \/ \E o : op' = [op EXCEPT ![p] = o]
    BY <1>7 DEF Capture, CallPrune, Enqueue, Prune, history
  <2>2. \A q \in Procs \ {p} : op'[q] = op[q]
    BY <1>0, <2>1
  <2>3. \A w \in Workers : ~Locks(wk[p][w])
    BY <1>2, <2>1 DEF Free
  <2>. QED  BY <1>1, <2>1, <2>2, <2>3
<1>8. CASE Stop(p)
  <2>1. /\ \A q \in Procs \ {p} : op'[q] = op[q] /\ (q \in up' <=> q \in up)
        /\ acked' = acked /\ UNCHANGED world
        /\ wk' = [wk EXCEPT ![p] = [w \in Workers |-> IdleWorker]]
    BY <1>0, <1>8 DEF Stop, End, history
  <2>2. IdleWorker \in WorkerType /\ Fits(p, IdleWorker)' /\ ~Locks(IdleWorker)
    BY NoBatch, DispatchConstantsOK DEF IdleWorker, WorkerType, Fits, Locks
  <2>3. /\ wk' \in [Procs -> [Workers -> WorkerType]]
        /\ \A w \in Workers : wk'[p][w] = IdleWorker
        /\ \A q \in Procs \ {p} : wk'[q] = wk[q]
    BY <2>1, <2>2 DEF LoopInv
  <2>4. \A q \in Procs \ {p}, w \in Workers : Fits(q, wk[q][w])'
    BY <2>1, <2>3 DEF LoopInv, Fits, world
  <2>5. \A w \in Workers : Fits(p, wk[p][w])'
    BY <2>2, <2>3 DEF Fits
  <2>6. \A q \in Procs, u, w \in Workers : Locks(wk'[q][u]) /\ Locks(wk'[q][w]) => u = w
    BY <2>2, <2>3 DEF LoopInv
  <2>. QED  BY <2>1, <2>3, <2>4, <2>5, <2>6 DEF LoopInv, world
<1>. QED  BY <1>4, <1>5, <1>6, <1>7, <1>8
(* LoopInv is inductive, with the type of the queue.                       *)
LEMMA LoopStep ==
  ASSUME TypeOK, LoopInv, [DNext]_dvars
  PROVE  TypeOK' /\ LoopInv'
<1>1. CASE UNCHANGED dvars
  BY <1>1 DEF dvars, vars, world, TypeOK, OpOK, LoopInv, Fits
<1>2. CASE DNext
  <2>1. TypeOK'
    <3>1. CASE AnyNext
      BY <3>1, NextType
    <3>2. CASE UNCHANGED vars
      BY <3>2 DEF vars, TypeOK, OpOK
    <3>. QED  BY <1>2, <3>1, <3>2, DispatcherIsClient
  <2>2. ASSUME NEW e \in Events, Wait(e)
        PROVE  LoopInv'
    BY <2>2 DEF Wait, Elapse, history, LoopInv, Fits, world
  <2>3. LoopInv'
    BY <1>2, <2>2, LoopWorker, LoopRest DEF DNext
  <2>. QED  BY <2>1, <2>3
<1>. QED  BY <1>1, <1>2

(* At the start every goroutine is idle.                                   *)
LEMMA LoopInit == DInit => TypeOK /\ LoopInv
<1>. SUFFICES ASSUME DInit PROVE TypeOK /\ LoopInv
  OBVIOUS
<1>1. TypeOK
  BY InitType DEF DInit
<1>2. IdleWorker \in WorkerType /\ ~Locks(IdleWorker) /\ \A p \in Procs : Fits(p, IdleWorker)
  BY NoBatch, DispatchConstantsOK DEF IdleWorker, WorkerType, Fits, Locks
<1>3. \A p \in Procs, w \in Workers : wk[p][w] = IdleWorker
  BY DEF DInit
<1>4. wk \in [Procs -> [Workers -> WorkerType]]
  BY <1>2 DEF DInit
<1>5. posts \in [Events -> Nat] /\ taken = {} /\ refused = {} /\ acked = {}
  BY DEF DInit, Init
<1>. QED  BY <1>1, <1>2, <1>3, <1>4, <1>5 DEF LoopInv

(* LoopInv is an invariant, for any number of processes and goroutines.    *)
LEMMA LoopInvariant == DSpec => [](TypeOK /\ LoopInv)
<1>1. (TypeOK /\ LoopInv) /\ [DNext]_dvars => (TypeOK /\ LoopInv)'
  BY LoopStep
<1>. QED  BY <1>1, LoopInit, PTL DEF DSpec

(* Type correctness: every variable of the dispatcher stays in its type,   *)
(* and a worker has a batch exactly where the loop of runDest has one, for *)
(* any number of processes and goroutines.                                 *)
THEOREM DTypeCorrect == DSpec => []DTypeOK
<1>1. LoopInv => DTypeOK
  BY DEF LoopInv, DTypeOK, WorkerType, Batches, Fits
<1>. QED  BY <1>1, LoopInvariant, PTL

(* A process acknowledges, and so deletes, only events that a destination  *)
(* has received: for any number of processes and goroutines on one         *)
(* directory, whatever fails and whatever they do to each other's records. *)
THEOREM AckedIsTakenTheorem == DSpec => []AckedIsTaken
<1>1. LoopInv => AckedIsTaken
  BY DEF LoopInv, AckedIsTaken
<1>. QED  BY <1>1, LoopInvariant, PTL

(* The queue loses no event the destination has not received, if one       *)
(* process at a time has the directory: an accepted event is on disk, was  *)
(* received, or was aged out of a dead directory, through any number of    *)
(* crashes, restarts and I/O errors and whatever the destinations answer.  *)
THEOREM DeliveredTheorem ==
  ASSUME SoleProcess
  PROVE  DSpec => []Delivered
<1>1. DInit => TypeOK /\ LoopInv /\ LossInv
  BY LoopInit, LossInit DEF DInit
<1>2. (TypeOK /\ LoopInv /\ LossInv) /\ [DNext]_dvars => (TypeOK /\ LoopInv /\ LossInv)'
  <2>. SUFFICES ASSUME TypeOK, LoopInv, LossInv, [DNext]_dvars
                PROVE  LossInv'
    BY LoopStep
  <2>1. AnyNext \/ UNCHANGED vars
    BY DispatcherIsClient DEF dvars
  <2>. QED  BY <2>1, LossStep
<1>3. LoopInv /\ LossInv => Delivered
  BY DEF LoopInv, LossInv, NoLoss, Delivered
<1>. QED  BY <1>1, <1>2, <1>3, PTL DEF DSpec

-----------------------------------------------------------------------------
(* No two goroutines have an event                                         *)

\* A record is in a batch once.
Distinct(b) == \A i, j \in DOMAIN b : b[i].id = b[j].id => i = j

\* What a goroutine has in hand.
Hand(x) == IF x.pc = "claim" THEN {} ELSE Ids(x.batch)

\* A batch is filled from what its claim took, and is then held until it is
\* settled, record by record.
HandOK(H, O, x) ==
  /\ Distinct(x.batch)
  /\ Ids(x.batch) \subseteq IF x.pc = "claim" THEN O ELSE H

HandInv ==
  \A p \in Procs, w \in Workers :
    /\ HandOK(held[p], op[p].out, wk[p][w])
    /\ \A v \in Workers \ {w} : Hand(wk[p][v]) \cap Hand(wk[p][w]) = {}

(* The rest of a batch no longer has the first record.                     *)
LEMMA DistinctTail ==
  ASSUME NEW b \in Batches, b # <<>>, Distinct(b)
  PROVE  Distinct(Tail(b)) /\ Head(b).id \notin Ids(Tail(b))
<1>. DEFINE R == [id : Events, attempts : Nat]
<1>1. b \in Seq(R)
  BY DEF Batches
<1>. HIDE DEF R
<1>2. Len(b) \in Nat /\ DOMAIN b = 1 .. Len(b) /\ Len(b) # 0
  BY <1>1, EmptySeq, LenProperties
<1>3. /\ Tail(b) \in Seq(R) /\ Len(Tail(b)) = Len(b) - 1
      /\ \A i \in 1 .. Len(Tail(b)) : Tail(b)[i] = b[i + 1]
  BY <1>1, HeadTailProperties
<1>4. DOMAIN Tail(b) = 1 .. (Len(b) - 1)
  BY <1>3, LenProperties
<1>5. \A i \in DOMAIN Tail(b) : /\ i \in Nat /\ i + 1 \in DOMAIN b /\ i + 1 # 1
                                /\ Tail(b)[i] = b[i + 1]
  BY <1>2, <1>3, <1>4
<1>6. Head(b) = b[1] /\ 1 \in DOMAIN b
  BY <1>1, <1>2
<1>7. ASSUME NEW i \in DOMAIN Tail(b), NEW j \in DOMAIN Tail(b), Tail(b)[i].id = Tail(b)[j].id
      PROVE  i = j
  <2>1. i + 1 = j + 1 /\ i \in Nat /\ j \in Nat
    BY <1>5, <1>7 DEF Distinct
  <2>. QED  BY <2>1
<1>8. ASSUME NEW i \in DOMAIN Tail(b), Tail(b)[i].id = Head(b).id
      PROVE  FALSE
  BY <1>5, <1>6, <1>8 DEF Distinct
<1>. QED  BY <1>7, <1>8 DEF Distinct, Ids

(* A record that is not in the batch may be appended.                      *)
LEMMA DistinctAppend ==
  ASSUME NEW b \in Batches, NEW r \in [id : Events, attempts : Nat],
         Distinct(b), r.id \notin Ids(b)
  PROVE  Distinct(Append(b, r))
<1>1. b \in Seq([id : Events, attempts : Nat])
  BY DEF Batches
<1>2. /\ Len(b) \in Nat /\ DOMAIN b = 1 .. Len(b)
      /\ DOMAIN Append(b, r) = 1 .. (Len(b) + 1)
      /\ \A i \in 1 .. Len(b) : Append(b, r)[i] = b[i]
      /\ Append(b, r)[Len(b) + 1] = r
  BY <1>1
<1>3. \A i \in DOMAIN Append(b, r) :
        \/ i \in DOMAIN b /\ Append(b, r)[i] = b[i]
        \/ i = Len(b) + 1 /\ Append(b, r)[i] = r
  BY <1>2
<1>4. \A i \in DOMAIN b : b[i].id # r.id
  BY DEF Ids
<1>. QED  BY <1>3, <1>4 DEF Distinct

(* A batch with no record.                                                 *)
LEMMA EmptyHand ==
  ASSUME NEW H, NEW O, NEW x, x.batch = <<>>
  PROVE  HandOK(H, O, x) /\ Hand(x) = {}
BY NoBatch DEF HandOK, Hand, Distinct

(* A step that only one process takes, while goroutine w turns to y.       *)
LEMMA OneHand ==
  ASSUME LoopInv, SoleProcess, HandInv, NEW p \in Procs, NEW w \in Workers, NEW y,
         wk' = [wk EXCEPT ![p][w] = y],
         HandOK(held'[p], op'[p].out, y),
         \A v \in Workers \ {w} :
           HandOK(held'[p], op'[p].out, wk[p][v]) /\ Hand(wk[p][v]) \cap Hand(y) = {}
  PROVE  HandInv'
<1>1. /\ wk'[p][w] = y /\ \A v \in Workers \ {w} : wk'[p][v] = wk[p][v]
  BY DEF LoopInv
<1>2. \A q \in Procs : q = p
  BY DEF SoleProcess
<1>3. ASSUME NEW u \in Workers
      PROVE  /\ HandOK(held'[p], op'[p].out, wk'[p][u])
             /\ \A v \in Workers \ {u} : Hand(wk'[p][v]) \cap Hand(wk'[p][u]) = {}
  BY <1>1 DEF HandInv
<1>. QED  BY <1>2, <1>3 DEF HandInv

(* What a goroutine does keeps HandInv.                                    *)
LEMMA HandWorker ==
  ASSUME SoleProcess, ClaimInv, LoopInv, HandInv,
         NEW p \in Procs, NEW w \in Workers, WorkerStep(p, w)
  PROVE  HandInv'
<1>. DEFINE x == wk[p][w]
            Others == \A v \in Workers \ {w} : wk[p][v].pc # "claim"
<1>0. /\ x \in WorkerType /\ Fits(p, x) /\ op \in [Procs -> OpType] /\ op[p] \in OpType
      /\ x.batch \in Batches /\ wk \in [Procs -> [Workers -> WorkerType]]
      /\ held \in [Procs -> SUBSET Events] /\ TypeOK
      /\ InHandOK(p, op[p], held[p])
  BY DEF LoopInv, ClaimInv, TypeOK, WorkerType
<1>00. /\ HandOK(held[p], op[p].out, x)
       /\ \A v \in Workers \ {w} : /\ HandOK(held[p], op[p].out, wk[p][v])
                                   /\ Hand(wk[p][v]) \cap Hand(x) = {}
  BY DEF HandInv
<1>1. Free(p) \/ Locks(x) => Others
  BY DEF LoopInv, Fits, Locks, Free
<1>e. ASSUME NEW y, wk' = [wk EXCEPT ![p][w] = y], y.batch = <<>>,
             \A v \in Workers \ {w} : HandOK(held'[p], op'[p].out, wk[p][v])
      PROVE  HandInv'
  <2>1. HandOK(held'[p], op'[p].out, y) /\ Hand(y) = {}
    BY <1>e, EmptyHand
  <2>2. \A v \in Workers \ {w} : Hand(wk[p][v]) \cap Hand(y) = {}
    BY <2>1
  <2>. QED  BY <1>e, <2>1, <2>2, OneHand
<1>2. CASE RunOnce(p, w)
  <2>1. PICK y : y = [IdleWorker EXCEPT !.pc = "call"]
    OBVIOUS
  <2>2. wk' = [wk EXCEPT ![p][w] = y] /\ UNCHANGED <<held, op>>
    BY <1>2, <2>1 DEF RunOnce, vars
  <2>3. y.batch = <<>>
    BY <2>1 DEF IdleWorker
  <2>. QED  BY <1>00, <1>e, <2>2, <2>3
<1>9. CASE NextBatch(p, w)
  <2>1. PICK y : y = [x EXCEPT !.pc = "call"]
    OBVIOUS
  <2>2. wk' = [wk EXCEPT ![p][w] = y] /\ x.batch = <<>> /\ UNCHANGED <<held, op>>
    BY <1>0, <1>9, <2>1 DEF NextBatch, vars
  <2>3. y.batch = <<>>
    BY <1>0, <2>1, <2>2 DEF WorkerType
  <2>. QED  BY <1>00, <1>e, <2>2, <2>3
<1>3. CASE CallClaim(p, w)
  <2>1. PICK y : y = [x EXCEPT !.pc = "claim"]
    OBVIOUS
  <2>2. /\ wk' = [wk EXCEPT ![p][w] = y] /\ x.pc = "call" /\ Free(p) /\ held' = held
    BY <1>0, <1>3, <2>1 DEF CallClaim, Claim
  <2>3. y.batch = <<>>
    BY <1>0, <2>1, <2>2 DEF WorkerType, Fits
  <2>4. \A v \in Workers \ {w} : HandOK(held'[p], op'[p].out, wk[p][v])
    BY <1>00, <1>1, <2>2 DEF HandOK
  <2>. QED  BY <1>e, <2>2, <2>3, <2>4
<1>4. CASE Claimed(p, w)
  <2>. DEFINE r == [id |-> op[p].cur, attempts |-> file["pending"][op[p].cur].attempts]
  <2>1. PICK y : y = [x EXCEPT !.batch = Append(@, r)]
    OBVIOUS
  <2>2. /\ wk' = [wk EXCEPT ![p][w] = y] /\ x.pc = "claim" /\ MoveRemove(p) /\ held' = held
    BY <1>0, <1>4, <2>1 DEF Claimed, MoveRemove
  <2>3. op[p].kind = "claim" /\ op[p].cur \in Events
    BY <1>0, <2>2 DEF Fits, MoveRemove, TypeOK, OpOK
  <2>4. file["pending"][op[p].cur] \in Record /\ op[p].cur \notin op[p].out
    BY <1>0, <2>2, <2>3 DEF MoveRemove, Src, TypeOK, RecordOrNone, Dir, ClaimInv, HeldIsNotPending
  <2>5. r \in [id : Events, attempts : Nat] /\ r.id = op[p].cur
    BY <2>3, <2>4 DEF Record
  <2>6. op'[p] = Moved(op[p])
    BY <1>0, <2>2 DEF MoveRemove
  <2>7. op'[p].out = op[p].out \cup {r.id}
    BY <1>0, <2>3, <2>5, <2>6, MovedFields
  <2>8. r.id \notin Ids(x.batch) /\ Distinct(x.batch) /\ Ids(x.batch) \subseteq op[p].out
    BY <1>00, <2>2, <2>4, <2>5 DEF HandOK
  <2>. HIDE DEF r
  <2>9. /\ Append(x.batch, r) \in Batches /\ Distinct(Append(x.batch, r))
        /\ Ids(Append(x.batch, r)) = Ids(x.batch) \cup {r.id}
    BY <1>0, <2>5, <2>8, LongerBatch, DistinctAppend
  <2>10. y.batch = Append(x.batch, r) /\ y.pc = "claim"
    BY <1>0, <2>1, <2>2 DEF WorkerType
  <2>11. HandOK(held'[p], op'[p].out, y) /\ Hand(y) = {}
    BY <2>7, <2>8, <2>9, <2>10 DEF HandOK, Hand
  <2>12. \A v \in Workers \ {w} : /\ HandOK(held'[p], op'[p].out, wk[p][v])
                                  /\ Hand(wk[p][v]) \cap Hand(y) = {}
    BY <1>00, <2>2, <2>7, <2>11 DEF HandOK
  <2>. QED  BY <2>2, <2>11, <2>12, OneHand
<1>5. CASE ClaimReturns(p, w)
  <2>1. x.pc = "claim" /\ Return(p) /\ Others
    BY <1>1, <1>5 DEF ClaimReturns, Locks
  <2>2. PICK y : /\ wk' = [wk EXCEPT ![p][w] = y]
                 /\ \/ y = [x EXCEPT !.pc = "send"]
                    \/ y = IdleWorker
                    \/ y = [x EXCEPT !.pc = "call", !.at = x.at + 1] /\ x.batch = <<>>
    <3>. DEFINE y == IF x.batch # <<>> THEN [x EXCEPT !.pc = "send"]
                     ELSE IF x.at = Len(Registry) THEN IdleWorker
                     ELSE [x EXCEPT !.pc = "call", !.at = x.at + 1]
    <3>1. wk' = [wk EXCEPT ![p][w] = y]
      BY <1>5 DEF ClaimReturns
    <3>. QED  BY <3>1
  <2>3. held'[p] = held[p] \cup op[p].out /\ op[p].out \cap held[p] = {}
    BY <1>0, <2>1 DEF Return, InHandOK
  <2>4. \A v \in Workers \ {w} : /\ HandOK(held'[p], op'[p].out, wk[p][v])
                                 /\ Hand(wk[p][v]) \subseteq held[p]
    BY <1>00, <2>1, <2>3 DEF HandOK, Hand
  <2>5. Ids(x.batch) \subseteq op[p].out /\ Distinct(x.batch)
    BY <1>00, <2>1 DEF HandOK
  <2>6. HandOK(held'[p], op'[p].out, y) /\ Hand(y) \subseteq op[p].out
    <3>1. CASE y = [x EXCEPT !.pc = "send"]
      <4>1. y.pc = "send" /\ y.batch = x.batch
        BY <1>0, <3>1 DEF WorkerType
      <4>. QED  BY <2>3, <2>5, <4>1 DEF HandOK, Hand
    <3>2. CASE y = IdleWorker
      <4>1. y.batch = <<>>
        BY <3>2 DEF IdleWorker
      <4>. QED  BY <4>1, EmptyHand
    <3>3. CASE y = [x EXCEPT !.pc = "call", !.at = x.at + 1] /\ x.batch = <<>>
      <4>1. y.batch = <<>>
        BY <1>0, <3>3 DEF WorkerType
      <4>. QED  BY <4>1, EmptyHand
    <3>. QED  BY <2>2, <3>1, <3>2, <3>3
  <2>7. \A v \in Workers \ {w} : Hand(wk[p][v]) \cap Hand(y) = {}
    BY <2>3, <2>4, <2>6
  <2>. QED  BY <2>2, <2>4, <2>6, <2>7, OneHand
<1>6. CASE Send(p, w)
  <2>1. PICK out \in Outcomes(Adapter[Registry[x.at]], Len(x.batch)) :
          wk' = [wk EXCEPT ![p][w].pc = "settle", ![p][w].result = out.result]
    BY <1>6 DEF Send
  <2>2. PICK y : y = [x EXCEPT !.pc = "settle", !.result = out.result]
    OBVIOUS
  <2>3. wk' = [wk EXCEPT ![p][w] = y]
    BY <1>0, <2>1, <2>2 DEF WorkerType
  <2>4. x.pc = "send" /\ UNCHANGED <<held, op>>
    BY <1>6 DEF Send, vars
  <2>5. y.pc = "settle" /\ y.batch = x.batch
    BY <1>0, <2>2 DEF WorkerType
  <2>6. HandOK(held'[p], op'[p].out, y) /\ Hand(y) = Hand(x)
    BY <1>00, <2>4, <2>5 DEF HandOK, Hand
  <2>7. \A v \in Workers \ {w} : HandOK(held'[p], op'[p].out, wk[p][v])
    BY <1>00, <2>4
  <2>. QED  BY <1>00, <2>3, <2>6, <2>7, OneHand
<1>7. ASSUME NEW y, wk' = [wk EXCEPT ![p][w] = y], y.batch = Tail(x.batch), y.pc # "claim",
             x.pc = "settle", x.batch # <<>>, Free(p),
             held' = [held EXCEPT ![p] = @ \ {Head(x.batch).id}]
      PROVE  HandInv'
  <2>3. held'[p] = held[p] \ {Head(x.batch).id} /\ Others
    BY <1>0, <1>1, <1>7
  <2>4. Distinct(x.batch) /\ Ids(x.batch) \subseteq held[p] /\ Hand(x) = Ids(x.batch)
    BY <1>00, <1>7 DEF HandOK, Hand
  <2>5. /\ Head(x.batch).id \in Ids(x.batch) /\ Ids(Tail(x.batch)) \subseteq Ids(x.batch)
        /\ Distinct(Tail(x.batch)) /\ Head(x.batch).id \notin Ids(Tail(x.batch))
    BY <1>0, <1>7, <2>4, HeadOfBatch, DistinctTail
  <2>6. HandOK(held'[p], op'[p].out, y) /\ Hand(y) \subseteq Hand(x)
    BY <1>7, <2>3, <2>4, <2>5 DEF HandOK, Hand
  <2>7. ASSUME NEW v \in Workers \ {w}
        PROVE  HandOK(held'[p], op'[p].out, wk[p][v]) /\ Hand(wk[p][v]) \cap Hand(y) = {}
    <3>1. Head(x.batch).id \notin Hand(wk[p][v]) /\ Hand(wk[p][v]) \cap Hand(y) = {}
      BY <1>00, <2>4, <2>5, <2>6
    <3>. QED  BY <1>00, <2>3, <3>1 DEF HandOK, Hand
  <2>. QED  BY <1>7, <2>6, <2>7, OneHand
<1>10. CASE SettleAck(p, w)
  <2>1. PICK y : y = [x EXCEPT !.batch = Tail(@)]
    OBVIOUS
  <2>2. /\ wk' = [wk EXCEPT ![p][w] = y] /\ x.pc = "settle" /\ x.batch # <<>> /\ Free(p)
        /\ held' = [held EXCEPT ![p] = @ \ {Head(x.batch).id}]
    BY <1>0, <1>10, <2>1 DEF SettleAck, Ack, AckFault
  <2>3. y.batch = Tail(x.batch) /\ y.pc # "claim"
    BY <1>0, <2>1, <2>2 DEF WorkerType
  <2>. QED  BY <1>7, <2>2, <2>3
<1>11. CASE SettleMove(p, w)
  <2>1. PICK y : y = [x EXCEPT !.batch = Tail(@), !.pc = "move"]
    OBVIOUS
  <2>2. wk' = [wk EXCEPT ![p][w] = y]
    BY <1>0, <1>11, <2>1 DEF SettleMove, WorkerType
  <2>3. /\ x.pc = "settle" /\ x.batch # <<>> /\ Free(p)
        /\ held' = [held EXCEPT ![p] = @ \ {Head(x.batch).id}]
    BY <1>11 DEF SettleMove, Settle
  <2>4. y.batch = Tail(x.batch) /\ y.pc # "claim"
    BY <1>0, <2>1 DEF WorkerType
  <2>. QED  BY <1>7, <2>2, <2>3, <2>4
<1>8. CASE MoveReturns(p, w)
  <2>1. PICK y : y = [x EXCEPT !.pc = "settle"]
    OBVIOUS
  <2>2. /\ wk' = [wk EXCEPT ![p][w] = y] /\ x.pc = "move" /\ held[p] \subseteq held'[p] /\ Others
    BY <1>0, <1>1, <1>8, <2>1 DEF MoveReturns, Return, Locks
  <2>3. y.pc = "settle" /\ y.batch = x.batch
    BY <1>0, <2>1 DEF WorkerType
  <2>4. HandOK(held'[p], op'[p].out, y) /\ Hand(y) = Hand(x)
    BY <1>00, <2>2, <2>3 DEF HandOK, Hand
  <2>5. \A v \in Workers \ {w} : HandOK(held'[p], op'[p].out, wk[p][v])
    BY <1>00, <2>2 DEF HandOK
  <2>. QED  BY <1>00, <2>2, <2>4, <2>5, OneHand
<1>. QED  BY <1>2, <1>3, <1>4, <1>5, <1>6, <1>8, <1>9, <1>10, <1>11 DEF WorkerStep

(* The rest of the process takes nothing out of a goroutine's hands.       *)
LEMMA HandRest ==
  ASSUME SoleProcess, ClaimInv, LoopInv, HandInv, NEW p \in Procs,
         \/ QueueStep(p) \/ QueueFault(p) \/ OtherReturns(p)
         \/ Start(p) \/ Capture(p) \/ CallPrune(p) \/ Stop(p)
  PROVE  HandInv'
<1>0. /\ TypeOK /\ op \in [Procs -> OpType] /\ op[p] \in OpType
      /\ held \in [Procs -> SUBSET Events] /\ \A q \in Procs : q = p
  BY DEF ClaimInv, TypeOK, SoleProcess
<1>1. ASSUME wk' = wk, held[p] \subseteq held'[p],
             \/ op[p].out \subseteq op'[p].out
             \/ \A w \in Workers : wk[p][w].pc # "claim"
      PROVE  HandInv'
  <2>1. \A w \in Workers : HandOK(held[p], op[p].out, wk[p][w])
    BY DEF HandInv
  <2>2. \A w \in Workers : HandOK(held'[p], op'[p].out, wk'[p][w])
    BY <1>1, <2>1 DEF HandOK
  <2>. QED  BY <1>0, <1>1, <2>2 DEF HandInv
<1>2. ASSUME \A w \in Workers : wk'[p][w].batch = <<>>
      PROVE  HandInv'
  BY <1>0, <1>2, EmptyHand DEF HandInv
<1>3. op[p].kind # "claim" => \A w \in Workers : wk[p][w].pc # "claim"
  BY DEF LoopInv, Fits
<1>4. CASE QueueStep(p) \/ QueueFault(p)
  <2>1. (Step(p) \/ Fault(p)) /\ wk' = wk
    BY <1>4 DEF QueueStep, QueueFault, Step
  <2>2. held' = held /\ op[p].out \subseteq op'[p].out
    <3>1. CASE MoveRemove(p)
      BY <1>0, <3>1, MovedFields DEF MoveRemove
    <3>2. CASE \/ RenameMissing(p) \/ RemoveMissing(p) \/ WriteFault(p) \/ RemoveFault(p)
               \/ EnqueueRename(p)
      BY <1>0, <3>2, DoneFields
      DEF RenameMissing, RemoveMissing, WriteFault, RemoveFault, EnqueueRename, Skip
    <3>3. CASE \/ MoveMissing(p) \/ MoveWrite(p) \/ MoveRename(p) \/ Evicted(p)
               \/ EnqueueWrite(p) \/ PruneRemove(p)
      BY <1>0, <3>3
      DEF MoveMissing, MoveWrite, MoveRename, Evicted, EnqueueWrite, PruneRemove, OpType
    <3>. QED  BY <2>1, <3>1, <3>2, <3>3 DEF Step, Fault
  <2>. QED  BY <1>1, <2>1, <2>2
<1>5. CASE OtherReturns(p)
  BY <1>0, <1>1, <1>3, <1>5 DEF OtherReturns, Return
<1>6. CASE Start(p)
  <2>1. wk' = wk /\ p \notin up
    BY <1>6 DEF Start, Open
  <2>2. \A w \in Workers : wk[p][w].batch = <<>>
    BY <2>1 DEF LoopInv, Fits
  <2>. QED  BY <1>2, <2>1, <2>2
<1>7. CASE Capture(p) \/ CallPrune(p)
  BY <1>0, <1>1, <1>3, <1>7 DEF Capture, CallPrune, Enqueue, Prune, Free
<1>8. CASE Stop(p)
  <2>1. \A w \in Workers : wk'[p][w] = IdleWorker
    BY <1>8 DEF Stop, LoopInv
  <2>. QED  BY <1>2, <2>1 DEF IdleWorker
<1>. QED  BY <1>4, <1>5, <1>6, <1>7, <1>8

\* The loop over the queue that one process has.
HandsInv == TypeOK /\ LoopInv /\ ClaimInv /\ HandInv

(* At the start nobody has a batch.                                        *)
LEMMA HandInit == DInit => HandsInv
<1>. SUFFICES ASSUME DInit PROVE HandsInv
  OBVIOUS
<1>1. ClaimInv /\ LoopInv /\ TypeOK
  BY ClaimInit, LoopInit DEF DInit
<1>2. \A p \in Procs, w \in Workers : wk[p][w].batch = <<>>
  BY DEF DInit, IdleWorker
<1>. QED  BY <1>1, <1>2, EmptyHand DEF HandInv, HandsInv

(* HandsInv is inductive.                                                  *)
LEMMA HandStep ==
  ASSUME SoleProcess, HandsInv, [DNext]_dvars
  PROVE  HandsInv'
<1>1. AnyNext \/ UNCHANGED vars
  BY DispatcherIsClient DEF dvars, HandsInv
<1>2. HandInv'
  <2>1. CASE UNCHANGED dvars
    BY <2>1 DEF dvars, vars, HandInv, HandsInv
  <2>2. CASE \E e \in Events : Wait(e)
    BY <2>2 DEF Wait, Elapse, HandInv, HandsInv
  <2>. QED  BY <2>1, <2>2, HandWorker, HandRest DEF DNext, HandsInv
<1>. QED  BY <1>1, <1>2, ClaimStep, LoopStep DEF HandsInv

(* No two dispatch goroutines have the same event in a batch, if one       *)
(* process at a time has the directory, for any number of goroutines: the  *)
(* queue's mutex, and that a claimed record leaves pending until it is     *)
(* given back, keep the proxy's overlapping drains apart.                  *)
THEOREM OneDispatcherTheorem ==
  ASSUME SoleProcess
  PROVE  DSpec => []OneDispatcherPerEvent
<1>1. HandsInv => OneDispatcherPerEvent
  <2>. SUFFICES ASSUME LoopInv, HandInv, NEW p \in Procs, NEW q \in Procs,
                       NEW v \in Workers, NEW w \in Workers, <<p, v>> # <<q, w>>
                PROVE  InHand(p, v) \cap InHand(q, w) = {}
    BY DEF HandsInv, OneDispatcherPerEvent
  <2>1. p = q /\ v # w
    BY DEF SoleProcess
  <2>. QED  BY <2>1 DEF HandInv, Hand, InHand
<1>. QED  BY <1>1, HandInit, HandStep, PTL DEF DSpec

-----------------------------------------------------------------------------
(* The dispatcher implements AtLeastOnce                                   *)

\* In a step, the stage of e changes so, and no other.
Changes(e, from, to) ==
  /\ StageOf(e) \in from /\ StageOf(e)' = to
  /\ \A x \in Events \ {e} : StageOf(x)' = StageOf(x)

(* The stage of an event depends on where it has files, not on what they   *)
(* say.                                                                    *)
LEMMA SameStage ==
  ASSUME NEW e \in Events, (e \in accepted') <=> (e \in accepted),
         \A d \in Dir : (file'[d][e] # None) <=> (file[d][e] # None)
  PROVE  StageOf(e)' = StageOf(e)
BY DEF StageOf, Live, Dir

(* What is accepted and has a live file is queued.                         *)
LEMMA LiveIsQueued ==
  ASSUME NEW e \in accepted, Live(e)
  PROVE  StageOf(e) = "queued"
BY DEF StageOf

(* The same in the state that a step leads to.                             *)
LEMMA LiveIsQueuedNext ==
  ASSUME NEW e \in accepted', Live(e)'
  PROVE  StageOf(e)' = "queued"
BY DEF StageOf

(* What a step of the queue does to the stages of events, whatever client  *)
(* calls: an event that leaves the live part with no trace was             *)
(* acknowledged.                                                           *)
LEMMA StageMove ==
  ASSUME ClaimInv, LossInv, PlaceInv, NEW p \in Procs, MoveRename(p) \/ MoveRemove(p)
  PROVE  \/ \A x \in Events : StageOf(x)' = StageOf(x)
         \/ \E e \in Events : Changes(e, {"queued"}, "dead") \/ Changes(e, {"queued"}, "evicted")
<1>. PICK k, e : k = op[p].kind /\ e = op[p].cur
  OBVIOUS
<1>0. /\ TypeOK /\ OpOK(op[p]) /\ MoveSafe /\ InPlace(p) /\ OnlyAccepted
      /\ k \in MoveKinds /\ e \in Events /\ accepted' = accepted
  BY DEF ClaimInv, LossInv, PlaceInv, TypeOK, MoveRename, MoveRemove, OpOK, history
<1>1. Src(k) \in {"pending", "inflight"} /\ Src(k) \in Dir /\ Dst(k) \in Dir /\ Src(k) # Dst(k)
  BY <1>0, SrcIsNotDst DEF Src
<1>2. file[Src(k)][e] # None
  BY <1>0 DEF MoveRename, MoveRemove, InPlace
<1>3. e \in accepted /\ Live(e)
  BY <1>0, <1>1, <1>2 DEF OnlyAccepted, Live
<1>4. StageOf(e) = "queued"
  BY <1>3, LiveIsQueued
<1>5. \A x \in Events \ {e}, d \in Dir : file'[d][x] = file[d][x]
  <2>1. \E d \in Dir : \E v : file' = [file EXCEPT ![d][e] = v]
    BY <1>1 DEF MoveRename, MoveRemove
  <2>. QED  BY <1>0, <2>1 DEF TypeOK
<1>6. \A x \in Events \ {e} : StageOf(x)' = StageOf(x)
  BY <1>0, <1>5, SameStage
<1>7. CASE MoveRename(p)
  <2>1. file'[Src(k)][e] = file[Src(k)][e]
    BY <1>0, <1>1, <1>7 DEF MoveRename, TypeOK
  <2>2. Live(e)'
    BY <1>1, <1>2, <2>1 DEF Live
  <2>3. StageOf(e)' = "queued"
    BY <1>0, <1>3, <2>2, LiveIsQueuedNext
  <2>. QED  BY <1>4, <1>6, <2>3
<1>8. CASE MoveRemove(p)
  <2>1. file'[Dst(k)][e] # None
    <3>1. file[Dst(k)][e] # None
      BY <1>8 DEF MoveSafe, MoveRemove, LossInv
    <3>. QED  BY <1>0, <1>1, <1>8, <3>1 DEF MoveRemove, TypeOK
  <2>2. StageOf(e)' \in {"queued", "dead", "evicted"}
    BY <1>0, <1>1, <1>3, <2>1 DEF StageOf, Live, Dir
  <2>. QED  BY <1>0, <1>4, <1>6, <2>2 DEF Changes
<1>. QED  BY <1>7, <1>8

(* Every step of the queue.                                                *)
LEMMA StageStep ==
  ASSUME ClaimInv, LossInv, PlaceInv, AnyNext \/ UNCHANGED vars
  PROVE  \/ \A x \in Events : StageOf(x)' = StageOf(x)
         \/ \E e \in Events :
              \/ Changes(e, {"new"}, "queued")
              \/ Changes(e, {"queued"}, "dead") \/ Changes(e, {"queued"}, "evicted")
              \/ Changes(e, {"dead", "evicted"}, "gone")
              \/ e \in acked' /\ Changes(e, {"queued"}, "gone")
<1>0. TypeOK /\ OnlyAccepted
  BY DEF ClaimInv, PlaceInv
<1>1. CASE UNCHANGED <<file, accepted>>
  BY <1>1, SameStage
<1>2. ASSUME NEW e \in Events, Elapse(e)
      PROVE  \A x \in Events : StageOf(x)' = StageOf(x)
  BY <1>0, <1>2, ElapsePlaces, SameStage DEF history
<1>3. ASSUME NEW p \in Procs, EnqueueRename(p)
      PROVE  \E e \in Events : Changes(e, {"new"}, "queued")
  <2>. PICK e : e = op[p].cur
    OBVIOUS
  <2>1. /\ OpOK(op[p]) /\ InPlace(p) /\ op[p].kind = "enqueue" /\ op[p].stage = "rename"
        /\ e \in Events /\ accepted' = accepted \cup {e} /\ tmp["pending"][e] # None
        /\ file' = [file EXCEPT !["pending"][e] = tmp["pending"][e]]
    BY <1>0, <1>3 DEF EnqueueRename, OpOK, TypeOK, PlaceInv
  <2>2. StageOf(e) = "new"
    BY <2>1 DEF InPlace, StageOf
  <2>3. file'["pending"][e] # None
    BY <1>0, <2>1 DEF TypeOK, Dir
  <2>4. StageOf(e)' = "queued"
    BY <2>1, <2>3, LiveIsQueuedNext DEF Live
  <2>5. \A x \in Events \ {e}, d \in Dir : file'[d][x] = file[d][x]
    BY <1>0, <2>1 DEF TypeOK, Dir
  <2>6. \A x \in Events \ {e} : StageOf(x)' = StageOf(x)
    BY <2>1, <2>5, SameStage
  <2>. QED  BY <2>1, <2>2, <2>4, <2>6 DEF Changes
<1>4. ASSUME NEW p \in Procs, PruneRemove(p)
      PROVE  \/ \A x \in Events : StageOf(x)' = StageOf(x)
             \/ \E e \in Events : Changes(e, {"dead", "evicted"}, "gone")
  <2>1. PICK e \in Events :
          file' = [file EXCEPT !["dead"][e] = None, !["dead_overflow"][e] = None]
    BY <1>0, <1>4 DEF PruneRemove, TypeOK, OpType
  <2>2. accepted' = accepted
    BY <1>4 DEF PruneRemove
  <2>3. /\ \A x \in Events \ {e}, d \in Dir : file'[d][x] = file[d][x]
        /\ \A d \in {"pending", "inflight"} : file'[d][e] = file[d][e]
        /\ file'["dead"][e] = None /\ file'["dead_overflow"][e] = None
    BY <1>0, <2>1 DEF TypeOK, Dir
  <2>4. \A x \in Events \ {e} : StageOf(x)' = StageOf(x)
    BY <2>2, <2>3, SameStage
  <2>5. \/ StageOf(e)' = StageOf(e)
        \/ StageOf(e) \in {"dead", "evicted"} /\ StageOf(e)' = "gone"
    BY <2>2, <2>3 DEF StageOf, Live
  <2>. QED  BY <2>4, <2>5 DEF Changes
<1>5. ASSUME NEW p \in Procs, NEW e \in held[p], Ack(p, e)
      PROVE  \/ Changes(e, {"queued"}, "dead") \/ Changes(e, {"queued"}, "evicted")
             \/ e \in acked' /\ Changes(e, {"queued"}, "gone")
  <2>1. /\ file' = [file EXCEPT !["inflight"][e] = None] /\ accepted' = accepted
        /\ e \in acked' /\ e \in Events
    BY <1>0, <1>5 DEF Ack, TypeOK
  <2>2. file["inflight"][e] # None /\ file["pending"][e] = None
    BY DEF PlaceInv, InPlace, ClaimInv, HeldIsNotPending
  <2>3. e \in accepted /\ StageOf(e) = "queued"
    BY <1>0, <2>1, <2>2, LiveIsQueued DEF OnlyAccepted, Live, Dir
  <2>4. /\ \A x \in Events \ {e}, d \in Dir : file'[d][x] = file[d][x]
        /\ file'["pending"][e] = None /\ file'["inflight"][e] = None
    BY <1>0, <2>1, <2>2 DEF TypeOK, Dir
  <2>5. \A x \in Events \ {e} : StageOf(x)' = StageOf(x)
    BY <2>1, <2>4, SameStage
  <2>6. StageOf(e)' \in {"dead", "evicted", "gone"}
    BY <2>1, <2>3, <2>4 DEF StageOf, Live
  <2>. QED  BY <2>1, <2>3, <2>5, <2>6 DEF Changes
<1>6. ASSUME NEW p \in Procs, Step(p) \/ Return(p) \/ Fault(p) \/ AnyCall(p) \/ End(p)
      PROVE  \/ UNCHANGED <<file, accepted>> \/ MoveRename(p) \/ MoveRemove(p)
             \/ EnqueueRename(p) \/ PruneRemove(p) \/ \E e \in held[p] : Ack(p, e)
  BY <1>6 DEF Step, Return, Fault, AnyCall, End, MoveMissing, MoveWrite, RenameMissing,
     RemoveMissing, Evicted, EnqueueWrite, WriteFault, RemoveFault, Open, Enqueue,
     Claim, AckFault, Settle, Prune, disk, history
<1>7. \A p \in Procs : held[p] \subseteq Events
  BY <1>0 DEF TypeOK
<1>8. ASSUME NEW p \in Procs, Step(p) \/ Return(p) \/ Fault(p) \/ AnyCall(p) \/ End(p)
      PROVE  \/ \A x \in Events : StageOf(x)' = StageOf(x)
             \/ \E e \in Events :
                  \/ Changes(e, {"new"}, "queued")
                  \/ Changes(e, {"queued"}, "dead") \/ Changes(e, {"queued"}, "evicted")
                  \/ Changes(e, {"dead", "evicted"}, "gone")
                  \/ e \in acked' /\ Changes(e, {"queued"}, "gone")
  <2>1. CASE \E e \in held[p] : Ack(p, e)
    <3>1. PICK e \in held[p] : Ack(p, e)
      BY <2>1
    <3>. QED  BY <1>5, <1>7, <3>1
  <2>. QED  BY <1>1, <1>3, <1>4, <1>6, <1>8, <2>1, StageMove
<1>. QED  BY <1>1, <1>2, <1>8 DEF AnyNext, vars

(* A change of one stage is a step of the promise.                         *)
LEMMA ChangesIsMove ==
  ASSUME NEW e \in Events, NEW from, NEW to, Changes(e, from, to), taken' = taken
  PROVE  Promise!Move(e, from, to)
BY DEF Changes, Promise!Move

(* What the adapter is given is queued: the batch is in hand, and so in    *)
(* inflight.                                                               *)
LEMMA SendReceives ==
  ASSUME HandsInv, PlaceInv, NEW p \in Procs, NEW w \in Workers, Send(p, w)
  PROVE  \E S \in SUBSET Events : Promise!Receive(S)
<1>. DEFINE batch == wk[p][w].batch
            type == Adapter[Registry[wk[p][w].at]]
<1>0. /\ wk[p][w] \in WorkerType /\ Fits(p, wk[p][w]) /\ wk[p][w].pc = "send" /\ UNCHANGED vars
      /\ batch \in Batches /\ batch # <<>> /\ TypeOK /\ Ids(batch) \subseteq held[p]
  BY DEF Send, HandsInv, LoopInv, Fits, WorkerType, HandInv, HandOK
<1>1. Len(batch) \in Nat \ {0} /\ DOMAIN batch = 1 .. Len(batch)
  BY <1>0, BatchOfEvents
<1>2. type \in AdapterTypes
  <2>1. wk[p][w].at \in 1 .. Len(Registry)
    BY <1>0, DispatchConstantsOK DEF Fits, WorkerType
  <2>2. Registry[wk[p][w].at] \in Dests
    BY <2>1, DispatchConstantsOK
  <2>. QED  BY <2>2, DispatchConstantsOK
<1>3. PICK out \in Outcomes(type, Len(batch)) :
        taken' = taken \cup {batch[i].id : i \in 1 .. out.got}
  BY DEF Send
<1>. DEFINE S == {batch[i].id : i \in 1 .. out.got}
<1>4. out.got \in 0 .. Len(batch)
  BY <1>1, <1>2, <1>3, OutcomeIs
<1>5. S \subseteq Ids(batch)
  BY <1>1, <1>4 DEF Ids
<1>6. \A e \in S : e \in Events /\ e \in accepted /\ Live(e)
  <2>1. \A e \in S : e \in Events /\ file["inflight"][e] # None
    BY <1>0, <1>5 DEF PlaceInv, InPlace, TypeOK
  <2>. QED  BY <2>1 DEF PlaceInv, OnlyAccepted, Live, Dir
<1>7. \A e \in S : StageOf(e) = "queued"
  BY <1>6, LiveIsQueued
<1>8. \A e \in Events : StageOf(e)' = StageOf(e)
  BY <1>0, SameStage DEF vars
<1>9. taken' = taken \cup S
  BY <1>3
<1>. HIDE DEF S
<1>10. Promise!Receive(S)
  BY <1>6, <1>7, <1>8, <1>9 DEF Promise!Receive
<1>. QED  BY <1>6, <1>10

(* A step of the dispatcher over the queue is a step of the promise, or    *)
(* changes nothing that the promise speaks of.                             *)
LEMMA PromiseStep ==
  ASSUME SoleProcess, HandsInv, LossInv, PlaceInv, [DNext]_dvars
  PROVE  \/ Promise!Next
         \/ UNCHANGED <<[e \in Events |-> StageOf(e)], taken>>
<1>1. CASE \E p \in Procs, w \in Workers : Send(p, w)
  BY <1>1, SendReceives DEF Promise!Next
<1>2. CASE ~\E p \in Procs, w \in Workers : Send(p, w)
  <2>1. taken' = taken
    <3>1. ASSUME NEW p \in Procs, NEW w \in Workers, WorkerStep(p, w)
          PROVE  UNCHANGED world
      BY <1>2, <3>1 DEF WorkerStep, RunOnce, CallClaim, Claimed, ClaimReturns,
         SettleAck, SettleMove, MoveReturns, NextBatch
    <3>2. ASSUME NEW p \in Procs,
                 \/ QueueStep(p) \/ QueueFault(p) \/ OtherReturns(p)
                 \/ Start(p) \/ Capture(p) \/ CallPrune(p) \/ Stop(p)
          PROVE  UNCHANGED world
      BY <3>2 DEF QueueStep, QueueFault, OtherReturns, Start, Capture, CallPrune, Stop
    <3>3. UNCHANGED world
      BY <3>1, <3>2 DEF DNext, dvars, Wait, world
    <3>. QED  BY <3>3 DEF world
  <2>2. AnyNext \/ UNCHANGED vars
    BY DispatcherIsClient DEF dvars, HandsInv
  <2>3. acked' \subseteq taken
    BY <2>1, HandStep DEF HandsInv, LoopInv
  <2>4. CASE \A x \in Events : StageOf(x)' = StageOf(x)
    BY <2>1, <2>4
  <2>5. ASSUME NEW e \in Events,
               \/ Changes(e, {"new"}, "queued")
               \/ Changes(e, {"queued"}, "dead") \/ Changes(e, {"queued"}, "evicted")
               \/ Changes(e, {"dead", "evicted"}, "gone")
               \/ e \in acked' /\ Changes(e, {"queued"}, "gone")
        PROVE  Promise!Next
    BY <2>1, <2>3, <2>5, ChangesIsMove
    DEF Promise!Next, Promise!Accept, Promise!Bury, Promise!Evict, Promise!Prune, Promise!Complete
  <2>. QED  BY <2>2, <2>4, <2>5, StageStep DEF HandsInv
<1>. QED  BY <1>1, <1>2

(* The dispatcher over the file queue implements AtLeastOnce, for any      *)
(* number of events, goroutines and destinations and through any number of *)
(* crashes, restarts and faults, if one process at a time has the          *)
(* directory: no event leaves the queue undelivered unless it is put aside *)
(* as dead or evicted, and none is delivered that is not in the queue.     *)
THEOREM ImplementsTheorem ==
  ASSUME SoleProcess
  PROVE  DSpec => ImplementsAtLeastOnce
<1>1. DInit => HandsInv /\ LossInv /\ PlaceInv /\ Promise!Init
  <2>1. DInit => \A e \in Events : StageOf(e) = "new"
    BY DEF DInit, Init, StageOf
  <2>. QED  BY <2>1, HandInit, LossInit, PlaceInit DEF DInit, Promise!Init
<1>2. HandsInv /\ LossInv /\ PlaceInv /\ [DNext]_dvars =>
        /\ (HandsInv /\ LossInv /\ PlaceInv)'
        /\ [Promise!Next]_<<[e \in Events |-> StageOf(e)], taken>>
  <2>. SUFFICES ASSUME HandsInv, LossInv, PlaceInv, [DNext]_dvars
                PROVE  /\ HandsInv' /\ LossInv' /\ PlaceInv'
                       /\ [Promise!Next]_<<[e \in Events |-> StageOf(e)], taken>>
    OBVIOUS
  <2>1. AnyNext \/ UNCHANGED vars
    BY DispatcherIsClient DEF dvars, HandsInv
  <2>. QED  BY <2>1, HandStep, LossStep, PlaceStep, PromiseStep DEF HandsInv
<1>. QED  BY <1>1, <1>2, PTL DEF DSpec, ImplementsAtLeastOnce, Promise!Spec

-----------------------------------------------------------------------------
(* Tries are counted right                                                 *)

\* One POST tries a whole batch.
AllHttp == \A d \in Dests : Adapter[d] = "http"

\* A record with n attempts of an event that was tried k times, after o Opens,
\* each of which may have undone the count of one try: it may be tried, or it
\* has been tried once since.
Fresh(n, k, o) == n < MaxRetries /\ k + 1 =< n + o /\ (AllHttp => n =< k)
Tried(n, k, o) == n < MaxRetries /\ k =< n + o /\ (AllHttp => n =< k)

\* An event that may be given up.
Spent(e) == AllHttp => e \in refused \/ posts[e] >= MaxRetries

EventCounted(e) ==
  /\ file["pending"][e] # None => Fresh(file["pending"][e].attempts, posts[e], Opens)
  /\ file["inflight"][e] # None => Tried(file["inflight"][e].attempts, posts[e], Opens)
  /\ file["dead"][e] # None => Spent(e)
  /\ posts[e] > 0 => e \in accepted /\ posts[e] =< MaxRetries + Opens - 1

\* A record that Retry may put back.
Again(e) ==
  file["inflight"][e] # None =>
    LET n == file["inflight"][e].attempts
    IN  n + 1 < MaxRetries /\ (AllHttp => n + 1 =< posts[e])

\* What Open finds may be tried once more; a copy agrees with its source.
OpCounted(p) ==
  LET o == op[p]
      Copy(d) == tmp[d][o.cur]
  IN  /\ o.kind = "open" => \A e \in o.todo :
           file["inflight"][e] # None => Fresh(file["inflight"][e].attempts, posts[e], Opens)
      /\ /\ o.kind \in {"open", "retry", "enqueue"} /\ o.stage = "rename"
         /\ Copy("pending") # None
         => Fresh(Copy("pending").attempts, posts[o.cur], Opens)
      /\ /\ o.kind = "claim" /\ o.stage = "rename" /\ Copy("inflight") # None
         => Copy("inflight").attempts = file["pending"][o.cur].attempts
      /\ /\ o.kind = "claim" /\ o.stage = "remove"
         /\ file["inflight"][o.cur] # None /\ file["pending"][o.cur] # None
         => file["inflight"][o.cur].attempts = file["pending"][o.cur].attempts
      /\ o.kind = "retry" => \A e \in o.todo : Again(e)
      /\ o.kind = "bury" => /\ \A e \in o.todo : Spent(e)
                            /\ o.stage # "pick" => Spent(o.cur)

\* A record of a batch agrees with its file, and the batch with its result.
RecordCounted(x, r) ==
  /\ x.pc \in {"claim", "send"} => Fresh(r.attempts, posts[r.id], Opens)
  /\ x.pc \in {"settle", "move"} /\ AllHttp =>
       /\ x.result = "retry" => r.attempts + 1 =< posts[r.id]
       /\ x.result = "reject" => r.id \in refused
  /\ file["inflight"][r.id] # None => file["inflight"][r.id].attempts = r.attempts

BatchCounted(x) == \A i \in DOMAIN x.batch : RecordCounted(x, x.batch[i])

CountInv ==
  /\ \A e \in Events : EventCounted(e)
  /\ \A p \in Procs : OpCounted(p)
  /\ \A p \in Procs, w \in Workers : BatchCounted(wk[p][w])

(* With one process, Opens counts it and those before it.                  *)
LEMMA OpensIs ==
  ASSUME SoleProcess, NEW p \in Procs, NEW S \in SUBSET Procs
  PROVE  Cardinality(S) = IF p \in S THEN 1 ELSE 0
<1>1. S = {} \/ S = {p}
  BY DEF SoleProcess
<1>2. Cardinality({}) = 0 /\ Cardinality({p}) = 1
  BY FS_EmptySet, FS_Singleton
<1>. QED  BY <1>1, <1>2

(* Opens never falls: an end gives back what it takes.                     *)
LEMMA OpensGrow ==
  ASSUME SoleProcess, TypeOK, TypeOK', NEW p \in Procs,
         Step(p) \/ Return(p) \/ Fault(p) \/ AnyCall(p) \/ End(p)
  PROVE  /\ Opens \in Nat /\ Opens' \in Nat /\ Opens =< Opens'
         /\ p \in up => Opens >= 1
         /\ Open(p) => Opens' = Opens + 1
<1>1. /\ Cardinality(up) = IF p \in up THEN 1 ELSE 0
      /\ Cardinality(up') = IF p \in up' THEN 1 ELSE 0
      /\ crashes \in Nat /\ crashes' \in Nat
  BY OpensIs DEF TypeOK
<1>2. \/ up' = up /\ crashes' = crashes
      \/ End(p) \/ Open(p)
  BY DEF Step, Return, Fault, AnyCall, MoveMissing, MoveWrite, MoveRename,
         RenameMissing, MoveRemove, RemoveMissing, Evicted, EnqueueWrite,
         EnqueueRename, PruneRemove, WriteFault, RemoveFault, Enqueue,
         Claim, Ack, AckFault, Settle, Prune
<1>3. CASE up' = up /\ crashes' = crashes
  <2>1. ~Open(p)
    BY <1>3 DEF Open
  <2>. QED  BY <1>1, <1>3, <2>1 DEF Opens
<1>4. CASE End(p)
  BY <1>1, <1>4 DEF Opens, End, Open
<1>5. CASE Open(p)
  BY <1>1, <1>5 DEF Opens, Open
<1>. QED  BY <1>2, <1>3, <1>4, <1>5

(* More Opens only allow more.                                             *)
LEMMA FreshStays ==
  ASSUME NEW n \in Nat, NEW k \in Nat, NEW o \in Nat, NEW oo \in Nat, o =< oo
  PROVE  /\ Fresh(n, k, o) => Fresh(n, k, oo) /\ Tried(n, k, o)
         /\ Tried(n, k, o) => Tried(n, k, oo)
BY DispatchConstantsOK DEF Fresh, Tried

(* A record is stored fresh, and is fresh again when Retry has counted the *)
(* try, or when a later Open finds it.                                     *)
LEMMA FreshIs ==
  ASSUME NEW n \in Nat, NEW k \in Nat, NEW o \in Nat, NEW oo \in Nat, o =< oo
  PROVE  /\ o >= 1 => Fresh(0, 0, oo)
         /\ Tried(n, k, o) /\ n + 1 < MaxRetries /\ (AllHttp => n + 1 =< k) =>
              Fresh(n + 1, k, oo)
         /\ Tried(n, k, o) => Fresh(n, k, o + 1)
BY DispatchConstantsOK DEF Fresh, Tried

(* The attempts of a record are a number.                                  *)
LEMMA AttemptsIs ==
  ASSUME TypeOK, NEW d \in Dir, NEW e \in Events
  PROVE  /\ file[d][e] # None => file[d][e].attempts \in Nat
         /\ tmp[d][e] # None => tmp[d][e].attempts \in Nat
BY DEF TypeOK, RecordOrNone, Record

\* A step of the queue, with what is known of it.
CountStep(p) ==
  /\ SoleProcess /\ ClaimInv /\ PlaceInv /\ TypeOK' /\ posts \in [Events -> Nat]
  /\ \A e \in Events : EventCounted(e)
  /\ OpCounted(p)
  /\ posts' = posts /\ refused' = refused
  /\ Step(p) \/ Return(p) \/ Fault(p) \/ AnyCall(p) \/ End(p)

(* A file that keeps its attempts, or goes, stays well counted.            *)
LEMMA EventStays ==
  ASSUME NEW p \in Procs, CountStep(p), NEW e \in Events,
         \A d \in {"pending", "inflight", "dead"} :
           \/ file'[d][e] = None
           \/ file[d][e] # None /\ file'[d][e].attempts = file[d][e].attempts
  PROVE  EventCounted(e)'
<1>1. /\ Opens \in Nat /\ Opens' \in Nat /\ Opens =< Opens' /\ posts[e] \in Nat /\ TypeOK
      /\ posts' = posts /\ refused' = refused /\ EventCounted(e)
  BY OpensGrow DEF CountStep, ClaimInv
<1>2. accepted \subseteq accepted'
  BY DEF CountStep, Step, Return, Fault, AnyCall, End, MoveMissing, MoveWrite, MoveRename,
         RenameMissing, MoveRemove, RemoveMissing, Evicted, EnqueueWrite,
         EnqueueRename, PruneRemove, WriteFault, RemoveFault, Open, Enqueue,
         Claim, Ack, AckFault, Settle, Prune, history
<1>3. \A d \in {"pending", "inflight", "dead"} : file[d][e] # None => file[d][e].attempts \in Nat
  BY <1>1, AttemptsIs DEF Dir
<1>4. file'["pending"][e] # None => Fresh(file'["pending"][e].attempts, posts[e], Opens')
  <2>1. ASSUME file'["pending"][e] # None
        PROVE  Fresh(file["pending"][e].attempts, posts[e], Opens')
    BY <1>1, <1>3, <2>1, FreshStays DEF EventCounted
  <2>. QED  BY <2>1
<1>5. file'["inflight"][e] # None => Tried(file'["inflight"][e].attempts, posts[e], Opens')
  <2>1. ASSUME file'["inflight"][e] # None
        PROVE  Tried(file["inflight"][e].attempts, posts[e], Opens')
    BY <1>1, <1>3, <2>1, FreshStays DEF EventCounted
  <2>. QED  BY <2>1
<1>6. file'["dead"][e] # None => Spent(e)'
  BY <1>1 DEF EventCounted, Spent
<1>7. posts[e] > 0 => e \in accepted' /\ posts[e] =< MaxRetries + Opens' - 1
  BY <1>1, <1>2, DispatchConstantsOK DEF EventCounted
<1>. QED  BY <1>1, <1>4, <1>5, <1>6, <1>7 DEF EventCounted

\* What is in hand keeps its attempts, if it stays.
HandKept(p) ==
  \A e \in held[p] \cup op[p].out :
    \/ file'["inflight"][e] = None
    \/ /\ file["inflight"][e] # None
       /\ file'["inflight"][e].attempts = file["inflight"][e].attempts

(* A copy is put in place.                                                 *)
LEMMA RenameCounts ==
  ASSUME NEW p \in Procs, CountStep(p), MoveRename(p)
  PROVE  (\A e \in Events : EventCounted(e)') /\ OpCounted(p)' /\ HandKept(p)
<1>. PICK k, e, d, m : k = op[p].kind /\ e = op[p].cur /\ d = Dst(k) /\ m = tmp[d][e]
  OBVIOUS
<1>0. /\ TypeOK /\ OpOK(op[p]) /\ op \in [Procs -> OpType] /\ InPlace(p) /\ HeldIsNotPending
      /\ k \in MoveKinds /\ e \in Events /\ OpCounted(p) /\ op[p].stage = "rename" /\ m # None
      /\ held[p] \subseteq Events /\ op[p].out \subseteq Events /\ op[p].todo \subseteq Events
      /\ posts' = posts /\ refused' = refused /\ \A x \in Events : posts[x] \in Nat
      /\ Opens \in Nat /\ Opens' \in Nat /\ Opens =< Opens'
      /\ \A x \in Events : EventCounted(x)
  BY OpensGrow DEF CountStep, ClaimInv, PlaceInv, TypeOK, MoveRename, OpOK, OpType
<1>1. /\ file' = [file EXCEPT ![d][e] = m] /\ op' = [op EXCEPT ![p].stage = "remove"]
      /\ held' = held /\ tmp' = [tmp EXCEPT ![d][e] = None] /\ accepted' = accepted
  BY DEF MoveRename, history
<1>2. /\ Src(k) \in Dir /\ d \in Dir /\ Src(k) # d /\ file[Src(k)][e] # None
      /\ (d = "inflight" <=> k = "claim") /\ (d = "dead" <=> k = "bury")
      /\ (d = "pending" <=> k \in {"open", "retry"})
  BY <1>0, SrcIsNotDst DEF Src, Dst, Dir, InPlace, MoveKinds
<1>3. /\ file'[d][e] = m
      /\ \A x \in Events, c \in Dir : x # e \/ c # d => file'[c][x] = file[c][x]
  BY <1>0, <1>1, <1>2 DEF TypeOK
<1>4. /\ op'[p].kind = k /\ op'[p].cur = e /\ op'[p].stage = "remove"
      /\ op'[p].todo = op[p].todo
  BY <1>0, <1>1 DEF OpType
<1>5. /\ m.attempts \in Nat
      /\ \A x \in Events, c \in Dir : file[c][x] # None => file[c][x].attempts \in Nat
  BY <1>0, <1>2, AttemptsIs
<1>6. ASSUME NEW x \in Events, x # e \/ d = "dead_overflow"
      PROVE  EventCounted(x)'
  BY <1>3, <1>6, EventStays DEF Dir
<1>7. CASE k \in {"open", "retry"}
  <2>1. Fresh(m.attempts, posts[e], Opens)
    BY <1>0, <1>2, <1>7 DEF OpCounted
  <2>2. Fresh(m.attempts, posts[e], Opens')
    BY <1>0, <1>5, <2>1, FreshStays
  <2>3. EventCounted(e)'
    <3>1. file'["pending"][e] = m /\ file'["inflight"][e] = file["inflight"][e]
          /\ file'["dead"][e] = file["dead"][e]
      BY <1>0, <1>2, <1>3, <1>7 DEF Dir
    <3>2. file["inflight"][e] # None => Tried(file["inflight"][e].attempts, posts[e], Opens')
      BY <1>0, <1>5, FreshStays DEF EventCounted, Dir
    <3>3. posts[e] > 0 => posts[e] =< MaxRetries + Opens' - 1
      BY <1>0, DispatchConstantsOK DEF EventCounted
    <3>. QED  BY <1>0, <1>1, <2>2, <3>1, <3>2, <3>3 DEF EventCounted, Spent
  <2>4. \A x \in Events : file'["inflight"][x] = file["inflight"][x]
    BY <1>2, <1>3, <1>7 DEF Dir
  <2>5. OpCounted(p)'
    <3>1. ASSUME k = "open", NEW x \in op[p].todo, file["inflight"][x] # None
          PROVE  Fresh(file["inflight"][x].attempts, posts[x], Opens')
      BY <1>0, <1>5, <3>1, FreshStays DEF OpCounted, Dir
    <3>2. k = "retry" => \A x \in op[p].todo : Again(x)'
      BY <1>0, <2>4 DEF OpCounted, Again
    <3>. QED  BY <1>0, <1>4, <1>7, <2>4, <3>1, <3>2 DEF OpCounted
  <2>6. HandKept(p)
    BY <1>0, <2>4 DEF HandKept
  <2>. QED  BY <1>6, <2>3, <2>5, <2>6
<1>8. CASE k = "claim"
  <2>1. m.attempts = file["pending"][e].attempts /\ file["pending"][e] # None
    BY <1>0, <1>2, <1>8 DEF OpCounted, Src
  <2>2. Tried(m.attempts, posts[e], Opens') /\ Fresh(m.attempts, posts[e], Opens')
    BY <1>0, <1>5, <2>1, FreshStays DEF EventCounted
  <2>3. /\ file'["inflight"][e] = m /\ file'["pending"][e] = file["pending"][e]
        /\ file'["dead"][e] = file["dead"][e]
    BY <1>0, <1>2, <1>3, <1>8 DEF Dir
  <2>4. EventCounted(e)'
    <3>3. posts[e] > 0 => posts[e] =< MaxRetries + Opens' - 1
      BY <1>0, DispatchConstantsOK DEF EventCounted
    <3>. QED  BY <1>0, <1>1, <2>1, <2>2, <2>3, <3>3 DEF EventCounted, Spent
  <2>5. OpCounted(p)'
    BY <1>4, <1>8, <2>1, <2>3 DEF OpCounted
  <2>6. HandKept(p)
    <3>1. e \notin held[p] \cup op[p].out
      BY <1>0, <2>1 DEF HeldIsNotPending
    <3>. QED  BY <1>0, <1>3, <3>1 DEF HandKept, Dir
  <2>. QED  BY <1>6, <2>4, <2>5, <2>6
<1>9. CASE k = "bury"
  <2>1. Spent(e)
    BY <1>0, <1>9 DEF OpCounted
  <2>2. /\ file'["pending"][e] = file["pending"][e]
        /\ \A x \in Events : file'["inflight"][x] = file["inflight"][x]
    BY <1>0, <1>2, <1>3, <1>9 DEF Dir
  <2>3. EventCounted(e)'
    <3>1. file["inflight"][e] # None => Tried(file["inflight"][e].attempts, posts[e], Opens')
      BY <1>0, <1>5, FreshStays DEF EventCounted, Dir
    <3>2. file["pending"][e] # None => Fresh(file["pending"][e].attempts, posts[e], Opens')
      BY <1>0, <1>5, FreshStays DEF EventCounted, Dir
    <3>3. posts[e] > 0 => posts[e] =< MaxRetries + Opens' - 1
      BY <1>0, DispatchConstantsOK DEF EventCounted
    <3>. QED  BY <1>0, <1>1, <2>1, <2>2, <3>1, <3>2, <3>3 DEF EventCounted, Spent
  <2>4. OpCounted(p)'
    BY <1>0, <1>4, <1>9, <2>1 DEF OpCounted, Spent
  <2>5. HandKept(p)
    BY <1>0, <2>2 DEF HandKept
  <2>. QED  BY <1>6, <2>3, <2>4, <2>5
<1>10. CASE k = "evict"
  <2>1. d = "dead_overflow"
    BY <1>10 DEF Dst
  <2>2. OpCounted(p)'
    BY <1>4, <1>10 DEF OpCounted
  <2>3. HandKept(p)
    BY <1>0, <1>3, <2>1 DEF HandKept, Dir
  <2>. QED  BY <1>6, <2>1, <2>2, <2>3
<1>. QED  BY <1>0, <1>7, <1>8, <1>9, <1>10 DEF MoveKinds

(* The other steps of an operation.                                        *)
LEMMA StepCounts ==
  ASSUME NEW p \in Procs, CountStep(p), Step(p) \/ Fault(p), ~MoveRename(p)
  PROVE  (\A e \in Events : EventCounted(e)') /\ OpCounted(p)' /\ HandKept(p)
<1>0. /\ TypeOK /\ OpOK(op[p]) /\ op \in [Procs -> OpType] /\ op[p] \in OpType
      /\ InPlace(p) /\ HeldIsNotPending /\ InHandOK(p, op[p], held[p])
      /\ OpCounted(p)
      /\ held[p] \subseteq Events /\ op[p].out \subseteq Events /\ op[p].todo \subseteq Events
      /\ posts' = posts /\ refused' = refused /\ \A x \in Events : posts[x] \in Nat
      /\ Opens \in Nat /\ Opens' \in Nat /\ Opens =< Opens' /\ (p \in up => Opens >= 1)
      /\ \A x \in Events : EventCounted(x)
      /\ \A x \in Events, c \in Dir : file[c][x] # None => file[c][x].attempts \in Nat
  BY OpensGrow, AttemptsIs DEF CountStep, ClaimInv, PlaceInv, TypeOK, OpOK, OpType
<1>a. ASSUME \A x \in Events, d \in Dir : file'[d][x] = None \/ file'[d][x] = file[d][x]
      PROVE  (\A e \in Events : EventCounted(e)') /\ HandKept(p)
  <2>1. \A e \in Events : EventCounted(e)'
    BY <1>a, EventStays DEF Dir
  <2>2. HandKept(p)
    BY <1>0, <1>a DEF HandKept, Dir
  <2>. QED  BY <2>1, <2>2
<1>b. ASSUME \A x \in Events : file'["inflight"][x] = None \/ file'["inflight"][x] = file["inflight"][x],
             op'[p].kind = op[p].kind, op'[p].stage = "pick", op'[p].todo \subseteq op[p].todo
      PROVE  OpCounted(p)'
  <2>1. ASSUME op[p].kind = "open", NEW x \in op[p].todo, file["inflight"][x] # None
        PROVE  Fresh(file["inflight"][x].attempts, posts[x], Opens')
    BY <1>0, <2>1, FreshStays DEF OpCounted, Dir
  <2>2. op[p].kind = "retry" => \A x \in op[p].todo : Again(x)'
    BY <1>0, <1>b DEF OpCounted, Again
  <2>3. op[p].kind = "bury" => \A x \in op[p].todo : Spent(x)'
    BY <1>0 DEF OpCounted, Spent
  <2>. QED  BY <1>0, <1>b, <2>1, <2>2, <2>3 DEF OpCounted
<1>1. CASE RenameMissing(p) \/ RemoveMissing(p) \/ RemoveFault(p) \/ WriteFault(p)
  <2>1. file' = file /\ op' = [op EXCEPT ![p] = Done(@)]
    BY <1>1 DEF RenameMissing, RemoveMissing, RemoveFault, WriteFault, Skip, disk
  <2>2. op'[p].kind = op[p].kind /\ op'[p].stage = "pick" /\ op'[p].todo \subseteq op[p].todo
    BY <1>0, <2>1, DoneFields
  <2>. QED  BY <1>a, <1>b, <2>1, <2>2
<1>2. CASE MoveMissing(p)
  <2>1. file' = file /\ \E e : op' = [op EXCEPT ![p].todo = @ \ {e}] /\ op[p].stage = "pick"
    BY <1>2 DEF MoveMissing, disk
  <2>2. op'[p].kind = op[p].kind /\ op'[p].stage = "pick" /\ op'[p].todo \subseteq op[p].todo
    BY <1>0, <2>1 DEF OpType
  <2>. QED  BY <1>a, <1>b, <2>1, <2>2
<1>3. CASE PruneRemove(p)
  <2>1. PICK e \in op[p].todo :
          /\ file' = [file EXCEPT !["dead"][e] = None, !["dead_overflow"][e] = None]
          /\ op' = [op EXCEPT ![p].todo = @ \ {e}]
    BY <1>3 DEF PruneRemove
  <2>2. \A x \in Events, d \in Dir : file'[d][x] = None \/ file'[d][x] = file[d][x]
    BY <1>0, <2>1 DEF TypeOK, Dir
  <2>3. op'[p].kind = "prune"
    BY <1>0, <1>3, <2>1 DEF OpType, PruneRemove
  <2>. QED  BY <1>a, <2>2, <2>3 DEF OpCounted
<1>4. CASE MoveRemove(p)
  <2>1. /\ file' = [file EXCEPT ![Src(op[p].kind)][op[p].cur] = None]
        /\ op' = [op EXCEPT ![p] = Moved(@)] /\ op[p].cur \in Events
    BY <1>0, <1>4 DEF MoveRemove, OpOK
  <2>2. \A x \in Events, d \in Dir : file'[d][x] = None \/ file'[d][x] = file[d][x]
    BY <1>0, <2>1 DEF TypeOK, Src, Dir
  <2>3. op'[p] = Moved(op[p])
    BY <1>0, <2>1
  <2>4. op'[p].kind = op[p].kind /\ op'[p].stage = "pick" /\ op'[p].todo \subseteq op[p].todo
    BY <1>0, <2>3, MovedFields
  <2>. QED  BY <1>a, <1>b, <2>2, <2>4 DEF Dir
<1>5. CASE Evicted(p)
  <2>1. file' = file /\ op'[p].kind = "enqueue" /\ op'[p].stage = "pick"
    BY <1>0, <1>5 DEF Evicted, disk, OpType
  <2>. QED  BY <1>a, <2>1 DEF OpCounted
<1>6. CASE EnqueueWrite(p)
  <2>. PICK e : e = op[p].new
    OBVIOUS
  <2>1. /\ file' = file /\ e \in Events /\ op[p].kind = "enqueue" /\ op[p].stage = "pick"
        /\ op[p].todo # {} /\ op' = [op EXCEPT ![p].stage = "rename", ![p].cur = e]
        /\ tmp' = [tmp EXCEPT !["pending"][e] =
                     [attempts |-> 0, at |-> Cardinality(asked), due |-> TRUE]]
    BY <1>0, <1>6 DEF EnqueueWrite, OpOK
  <2>2. /\ op'[p].kind = "enqueue" /\ op'[p].cur = e
        /\ tmp'["pending"][e].attempts = 0
    BY <1>0, <2>1 DEF OpType, TypeOK, Dir
  <2>3. posts[e] = 0
    <3>1. e \notin accepted
      BY <1>0, <2>1 DEF InPlace
    <3>. QED  BY <1>0, <2>1, <3>1 DEF EventCounted
  <2>4. Opens >= 1
    BY <1>0, <2>1 DEF InHandOK
  <2>5. Fresh(0, posts[e], Opens')
    BY <1>0, <2>3, <2>4, FreshIs
  <2>. QED  BY <1>0, <1>a, <2>1, <2>2, <2>5 DEF OpCounted
<1>7. CASE EnqueueRename(p)
  <2>. PICK e, m : e = op[p].cur /\ m = tmp["pending"][e]
    OBVIOUS
  <2>1. /\ file' = [file EXCEPT !["pending"][e] = m] /\ e \in Events /\ m # None
        /\ op' = [op EXCEPT ![p] = Done(@)] /\ op[p].kind = "enqueue" /\ op[p].stage = "rename"
        /\ accepted' = accepted \cup {e}
    BY <1>0, <1>7 DEF EnqueueRename, OpOK, Skip
  <2>2. op'[p].kind = "enqueue" /\ op'[p].stage = "pick"
    BY <1>0, <2>1, DoneFields
  <2>3. /\ file'["pending"][e] = m
        /\ \A x \in Events, d \in Dir : x # e \/ d # "pending" => file'[d][x] = file[d][x]
    BY <1>0, <2>1 DEF TypeOK, Dir
  <2>4. m.attempts \in Nat /\ Fresh(m.attempts, posts[e], Opens)
    BY <1>0, <2>1, AttemptsIs DEF OpCounted, Dir
  <2>5. EventCounted(e)'
    <3>1. Fresh(m.attempts, posts[e], Opens')
      BY <1>0, <2>1, <2>4, FreshStays
    <3>2. file["inflight"][e] # None => Tried(file["inflight"][e].attempts, posts[e], Opens')
      BY <1>0, <2>1, FreshStays DEF EventCounted, Dir
    <3>3. posts[e] > 0 => posts[e] =< MaxRetries + Opens' - 1
      BY <1>0, <2>1, DispatchConstantsOK DEF EventCounted
    <3>4. file'["inflight"][e] = file["inflight"][e] /\ file'["dead"][e] = file["dead"][e]
      BY <2>1, <2>3 DEF Dir
    <3>. QED  BY <1>0, <2>1, <2>3, <3>1, <3>2, <3>3, <3>4 DEF EventCounted, Spent
  <2>6. \A x \in Events \ {e} : EventCounted(x)'
    BY <2>3, EventStays DEF Dir
  <2>7. HandKept(p)
    BY <1>0, <2>3 DEF HandKept, Dir
  <2>. QED  BY <2>2, <2>5, <2>6, <2>7 DEF OpCounted
<1>8. CASE MoveWrite(p)
  <2>1. PICK e \in op[p].todo :
          /\ file[Src(op[p].kind)][e] # None
          /\ tmp' = [tmp EXCEPT ![Dst(op[p].kind)][e] =
                       Revised(op[p].kind, file[Src(op[p].kind)][e])]
          /\ op' = [op EXCEPT ![p].stage = "rename", ![p].cur = e]
    BY <1>8 DEF MoveWrite
  <2>. PICK k, r : k = op[p].kind /\ r = file[Src(k)][e]
    OBVIOUS
  <2>2. file' = file /\ k \in MoveKinds /\ e \in Events /\ r # None
    BY <1>0, <1>8, <2>1 DEF MoveWrite
  <2>3. /\ op'[p].kind = k /\ op'[p].cur = e /\ op'[p].stage = "rename"
        /\ op'[p].todo = op[p].todo
    BY <1>0, <2>1 DEF OpType
  <2>4. tmp'[Dst(k)][e] = Revised(k, r) /\ Src(k) \in Dir /\ r.attempts \in Nat
    BY <1>0, <2>1, <2>2, DstInDir DEF TypeOK, Src, Dir
  <2>5. Revised(k, r).attempts = IF k = "retry" THEN r.attempts + 1 ELSE r.attempts
    BY DEF Revised
  <2>6. CASE k = "open"
    <3>1. Fresh(r.attempts, posts[e], Opens) /\ Fresh(r.attempts, posts[e], Opens')
      BY <1>0, <2>1, <2>2, <2>4, <2>6, FreshStays DEF OpCounted, Src
    <3>2. \A x \in op[p].todo : file["inflight"][x] # None =>
            Fresh(file["inflight"][x].attempts, posts[x], Opens')
      BY <1>0, <2>6, FreshStays DEF OpCounted, Dir
    <3>3. tmp'["pending"][e].attempts = r.attempts
      BY <2>4, <2>5, <2>6 DEF Dst
    <3>. QED  BY <1>0, <1>a, <2>2, <2>3, <2>6, <3>1, <3>2, <3>3 DEF OpCounted
  <2>7. CASE k = "retry"
    <3>1. /\ Tried(r.attempts, posts[e], Opens) /\ r.attempts + 1 < MaxRetries
          /\ AllHttp => r.attempts + 1 =< posts[e]
      BY <1>0, <2>1, <2>2, <2>7 DEF OpCounted, Src, EventCounted, Again
    <3>2. Fresh(r.attempts + 1, posts[e], Opens')
      BY <1>0, <2>2, <2>4, <3>1, FreshIs
    <3>3. tmp'["pending"][e].attempts = r.attempts + 1
      BY <2>4, <2>5, <2>7 DEF Dst
    <3>4. \A x \in op[p].todo : Again(x)'
      BY <1>0, <2>2, <2>7 DEF OpCounted, Again
    <3>. QED  BY <1>0, <1>a, <2>2, <2>3, <2>7, <3>2, <3>3, <3>4 DEF OpCounted
  <2>8. CASE k = "claim"
    <3>1. tmp'["inflight"][e].attempts = file'["pending"][e].attempts
      BY <2>2, <2>4, <2>5, <2>8 DEF Dst, Src
    <3>. QED  BY <1>a, <2>2, <2>3, <2>8, <3>1 DEF OpCounted
  <2>9. CASE k = "bury"
    <3>1. \A x \in op[p].todo : Spent(x)'
      BY <1>0, <2>9 DEF OpCounted, Spent
    <3>. QED  BY <1>a, <2>1, <2>2, <2>3, <2>9, <3>1 DEF OpCounted
  <2>10. CASE k = "evict"
    BY <1>a, <2>2, <2>3, <2>10 DEF OpCounted
  <2>. QED  BY <2>2, <2>6, <2>7, <2>8, <2>9, <2>10 DEF MoveKinds
<1>. QED  BY <1>1, <1>2, <1>3, <1>4, <1>5, <1>6, <1>7, <1>8 DEF Step, Fault

(* The calls, if Retry and MarkDead are called with what they are for.     *)
LEMMA CallCounts ==
  ASSUME NEW p \in Procs, CountStep(p), Return(p) \/ AnyCall(p) \/ End(p),
         \A e \in held[p] : Settle(p, e, "retry") => Again(e),
         \A e \in held[p] : Settle(p, e, "bury") => Spent(e)
  PROVE  (\A e \in Events : EventCounted(e)') /\ OpCounted(p)' /\ HandKept(p)
<1>0. /\ TypeOK /\ op \in [Procs -> OpType] /\ held \in [Procs -> SUBSET Events]
      /\ held[p] \subseteq Events /\ op[p].out \subseteq Events
      /\ posts' = posts /\ refused' = refused /\ \A x \in Events : posts[x] \in Nat
      /\ Opens \in Nat /\ Opens' \in Nat /\ Opens =< Opens' /\ (Open(p) => Opens' = Opens + 1)
      /\ \A x \in Events : EventCounted(x)
      /\ \A x \in Events, c \in Dir : file[c][x] # None => file[c][x].attempts \in Nat
  BY OpensGrow, AttemptsIs DEF CountStep, ClaimInv, TypeOK, OpType
<1>1. ASSUME \A x \in Events, d \in Dir : file'[d][x] = None \/ file'[d][x] = file[d][x]
      PROVE  (\A e \in Events : EventCounted(e)') /\ HandKept(p)
  <2>1. \A e \in Events : EventCounted(e)'
    BY <1>1, EventStays DEF Dir
  <2>2. HandKept(p)
    BY <1>0, <1>1 DEF HandKept, Dir
  <2>. QED  BY <2>1, <2>2
<1>2. ASSUME op'[p].kind \in {"idle", "claim", "evict", "enqueue", "prune"},
             op'[p].stage = "pick"
      PROVE  OpCounted(p)'
  BY <1>2 DEF OpCounted
<1>3. CASE Return(p) \/ End(p)
  <2>1. file' = file /\ op' = [op EXCEPT ![p] = Idle]
    BY <1>3 DEF Return, End, disk
  <2>2. op'[p].kind = "idle" /\ op'[p].stage = "pick"
    BY <1>0, <2>1, BeginFields DEF Idle
  <2>. QED  BY <1>1, <1>2, <2>1, <2>2
<1>4. CASE Open(p)
  <2>1. /\ file' = file /\ op' = [op EXCEPT ![p] = Begin("open", Listed("inflight"), None, 0)]
    BY <1>4 DEF Open, disk
  <2>2. op'[p].kind = "open" /\ op'[p].stage = "pick" /\ op'[p].todo = Listed("inflight")
    BY <1>0, <2>1, BeginFields
  <2>3. ASSUME NEW e \in Listed("inflight"), file["inflight"][e] # None
        PROVE  Fresh(file["inflight"][e].attempts, posts[e], Opens')
    BY <1>0, <1>4, <2>3, FreshIs DEF EventCounted, Listed, Dir
  <2>4. OpCounted(p)'
    BY <1>0, <2>1, <2>2, <2>3 DEF OpCounted
  <2>. QED  BY <1>1, <2>1, <2>4
<1>5. ASSUME NEW e \in Events, Enqueue(p, e)
      PROVE  (\A x \in Events : EventCounted(x)') /\ OpCounted(p)' /\ HandKept(p)
  <2>1. /\ file' = file /\ op[p].kind = "idle"
        /\ \/ op' = op
           \/ op' = [op EXCEPT ![p] = Begin("evict", Listed("pending"), e, TotalBytes)]
           \/ op' = [op EXCEPT ![p] = Begin("enqueue", {e}, e, TotalBytes)]
    BY <1>5 DEF Enqueue, disk, Free
  <2>2. CASE op' = op
    <3>1. OpCounted(p)'
      BY <2>1, <2>2 DEF OpCounted
    <3>. QED  BY <1>1, <2>1, <3>1
  <2>3. CASE op' # op
    <3>1. op'[p].kind \in {"evict", "enqueue"} /\ op'[p].stage = "pick"
      BY <1>0, <2>1, <2>3, BeginFields
    <3>. QED  BY <1>1, <1>2, <2>1, <3>1
  <2>. QED  BY <2>2, <2>3
<1>6. ASSUME NEW d, NEW n, Claim(p, d, n)
      PROVE  (\A x \in Events : EventCounted(x)') /\ OpCounted(p)' /\ HandKept(p)
  <2>1. file' = file /\ \E S : op' = [op EXCEPT ![p] = Begin("claim", S, None, 0)]
    BY <1>6 DEF Claim, disk
  <2>2. op'[p].kind = "claim" /\ op'[p].stage = "pick"
    BY <1>0, <2>1, BeginFields
  <2>. QED  BY <1>1, <1>2, <2>1, <2>2
<1>7. ASSUME NEW c, Prune(p, c)
      PROVE  (\A x \in Events : EventCounted(x)') /\ OpCounted(p)' /\ HandKept(p)
  <2>1. file' = file /\ \E S : op' = [op EXCEPT ![p] = Begin("prune", S, None, 0)]
    BY <1>7 DEF Prune, disk
  <2>2. op'[p].kind = "prune" /\ op'[p].stage = "pick"
    BY <1>0, <2>1, BeginFields
  <2>. QED  BY <1>1, <1>2, <2>1, <2>2
<1>8. ASSUME NEW e \in held[p], Ack(p, e) \/ AckFault(p, e)
      PROVE  (\A x \in Events : EventCounted(x)') /\ OpCounted(p)' /\ HandKept(p)
  <2>1. /\ op' = op /\ op[p].kind = "idle" /\ e \in Events
        /\ file' = file \/ file' = [file EXCEPT !["inflight"][e] = None]
    BY <1>0, <1>8 DEF Ack, AckFault, Free, disk
  <2>2. \A x \in Events, d \in Dir : file'[d][x] = None \/ file'[d][x] = file[d][x]
    BY <1>0, <2>1 DEF TypeOK, Dir
  <2>3. OpCounted(p)'
    BY <2>1 DEF OpCounted
  <2>. QED  BY <1>1, <2>2, <2>3
<1>9. ASSUME NEW e \in held[p], NEW k \in {"retry", "bury"}, Settle(p, e, k)
      PROVE  (\A x \in Events : EventCounted(x)') /\ OpCounted(p)' /\ HandKept(p)
  <2>1. file' = file /\ op' = [op EXCEPT ![p] = Begin(k, {e}, None, 0)]
    BY <1>9 DEF Settle, disk
  <2>2. op'[p].kind = k /\ op'[p].stage = "pick" /\ op'[p].todo = {e}
    BY <1>0, <2>1, BeginFields
  <2>3. k = "retry" => Again(e)'
    BY <1>0, <1>9, <2>1 DEF Again
  <2>4. k = "bury" => Spent(e)'
    BY <1>0, <1>9 DEF Spent
  <2>5. OpCounted(p)'
    BY <2>2, <2>3, <2>4 DEF OpCounted
  <2>. QED  BY <1>1, <2>1, <2>5
<1>. QED  BY <1>3, <1>4, <1>5, <1>6, <1>7, <1>8, <1>9 DEF AnyCall

(* What is in hand stays well counted, whoever has it.                     *)
LEMMA BatchStays ==
  ASSUME NEW p \in Procs, CountStep(p), HandKept(p), NEW x \in WorkerType, BatchCounted(x),
         HandOK(held[p], op[p].out, x)
  PROVE  \A i \in DOMAIN x.batch : RecordCounted(x, x.batch[i])'
<1>. TAKE i \in DOMAIN x.batch
<1>. PICK r : r = x.batch[i]
  OBVIOUS
<1>1. r \in [id : Events, attempts : Nat]
  <2>1. x.batch \in Seq([id : Events, attempts : Nat])
    BY DEF WorkerType, Batches
  <2>. QED  BY <2>1, LenProperties, ElementOfSeq
<1>2. r.id \in held[p] \cup op[p].out
  BY DEF HandOK, Ids
<1>3. /\ Opens \in Nat /\ Opens' \in Nat /\ Opens =< Opens' /\ posts[r.id] \in Nat
      /\ posts' = posts /\ refused' = refused /\ RecordCounted(x, r)
  BY <1>1, OpensGrow DEF CountStep, ClaimInv, BatchCounted
<1>4. x.pc \in {"claim", "send"} => Fresh(r.attempts, posts[r.id], Opens')
  BY <1>1, <1>3, FreshStays DEF RecordCounted
<1>5. file'["inflight"][r.id] # None => file'["inflight"][r.id].attempts = r.attempts
  BY <1>2, <1>3 DEF HandKept, RecordCounted
<1>6. RecordCounted(x, r)'
  BY <1>3, <1>4, <1>5 DEF RecordCounted
<1>. QED  BY <1>6

(* The records of a batch, of its rest, and of a longer one.               *)
LEMMA BatchRecords ==
  ASSUME NEW b \in Batches
  PROVE  /\ \A i \in DOMAIN b : b[i] \in [id : Events, attempts : Nat]
         /\ b # <<>> => /\ 1 \in DOMAIN b /\ Head(b) = b[1]
                        /\ \A i \in DOMAIN Tail(b) : \E j \in DOMAIN b : Tail(b)[i] = b[j]
         /\ \A r \in [id : Events, attempts : Nat] : \A i \in DOMAIN Append(b, r) :
              Append(b, r)[i] = r \/ \E j \in DOMAIN b : Append(b, r)[i] = b[j]
<1>. DEFINE R == [id : Events, attempts : Nat]
<1>1. b \in Seq(R)
  BY DEF Batches
<1>. HIDE DEF R
<1>2. Len(b) \in Nat /\ DOMAIN b = 1 .. Len(b) /\ (b # <<>> => Len(b) # 0)
  BY <1>1, EmptySeq, LenProperties
<1>3. \A i \in DOMAIN b : b[i] \in R
  BY <1>1, <1>2, ElementOfSeq
<1>4. ASSUME b # <<>>
      PROVE  /\ 1 \in DOMAIN b /\ Head(b) = b[1]
             /\ \A i \in DOMAIN Tail(b) : \E j \in DOMAIN b : Tail(b)[i] = b[j]
  <2>1. /\ Head(b) = b[1] /\ Tail(b) \in Seq(R) /\ Len(Tail(b)) = Len(b) - 1
        /\ \A i \in 1 .. Len(Tail(b)) : Tail(b)[i] = b[i + 1]
    BY <1>1, <1>4, HeadTailProperties
  <2>2. DOMAIN Tail(b) = 1 .. (Len(b) - 1)
    BY <2>1, LenProperties
  <2>3. \A i \in DOMAIN Tail(b) : i + 1 \in DOMAIN b /\ Tail(b)[i] = b[i + 1]
    BY <1>2, <2>1, <2>2
  <2>. QED  BY <1>2, <1>4, <2>1, <2>3
<1>5. ASSUME NEW r \in R
      PROVE  \A i \in DOMAIN Append(b, r) :
               Append(b, r)[i] = r \/ \E j \in DOMAIN b : Append(b, r)[i] = b[j]
  <2>1. /\ DOMAIN Append(b, r) = 1 .. (Len(b) + 1)
        /\ \A i \in 1 .. Len(b) : Append(b, r)[i] = b[i]
        /\ Append(b, r)[Len(b) + 1] = r
    BY <1>1, <1>5
  <2>. QED  BY <1>2, <2>1
<1>. QED  BY <1>3, <1>4, <1>5 DEF R

\* The state in which a step starts and what is known of where it leads.
Counting ==
  SoleProcess /\ HandsInv /\ HandsInv' /\ PlaceInv /\ CountInv

(* The step is one that the lemmas on the queue speak of.                  *)
LEMMA CountStepIs ==
  ASSUME Counting, NEW p \in Procs, posts' = posts, refused' = refused,
         Step(p) \/ Return(p) \/ Fault(p) \/ AnyCall(p) \/ End(p)
  PROVE  CountStep(p)
BY DEF Counting, CountStep, HandsInv, CountInv, LoopInv

(* A step of one goroutine: it is enough to look at it and the queue.      *)
LEMMA CountOne ==
  ASSUME Counting, NEW p \in Procs, NEW w \in Workers, NEW y,
         wk' = [wk EXCEPT ![p][w] = y],
         \A e \in Events : EventCounted(e)', OpCounted(p)', BatchCounted(y)',
         \A v \in Workers \ {w}, x \in WorkerType : x = wk[p][v] => BatchCounted(x)'
  PROVE  CountInv'
<1>0. LoopInv /\ wk \in [Procs -> [Workers -> WorkerType]] /\ \A q \in Procs : q = p
  BY DEF Counting, HandsInv, LoopInv, SoleProcess
<1>1. wk'[p][w] = y /\ \A v \in Workers \ {w} : wk'[p][v] = wk[p][v]
  BY <1>0
<1>2. ASSUME NEW v \in Workers
      PROVE  BatchCounted(wk[p][v])'
  <2>1. PICK x : x = wk'[p][v]
    OBVIOUS
  <2>2. BatchCounted(x)'
    BY <1>0, <1>1, <2>1
  <2>. QED  BY <2>1, <2>2 DEF BatchCounted, RecordCounted
<1>. QED  BY <1>0, <1>2 DEF CountInv

(* The same for a step of the queue that keeps what is in hand.            *)
LEMMA CountHands ==
  ASSUME Counting, NEW p \in Procs, CountStep(p), HandKept(p),
         NEW v \in Workers, NEW x \in WorkerType, x = wk[p][v]
  PROVE  BatchCounted(x)'
<1>1. HandOK(held[p], op[p].out, x) /\ BatchCounted(x)
  BY DEF Counting, HandsInv, HandInv, CountInv
<1>2. \A i \in DOMAIN x.batch : RecordCounted(x, x.batch[i])'
  BY <1>1, BatchStays
<1>. QED  BY <1>2 DEF BatchCounted

(* A call of Retry or MarkDead shows in the operation.                     *)
LEMMA SettleShows ==
  ASSUME TypeOK, NEW p \in Procs
  PROVE  /\ op'[p].kind \notin {"retry", "bury"} =>
              \A e : ~Settle(p, e, "retry") /\ ~Settle(p, e, "bury")
         /\ \A e, f, k, j : Settle(p, e, k) /\ Settle(p, f, j) => e = f /\ k = j
<1>1. ASSUME NEW e, NEW k, Settle(p, e, k)
      PROVE  op'[p].kind = k /\ op'[p].todo = {e}
  <2>1. op' = [op EXCEPT ![p] = Begin(k, {e}, None, 0)] /\ op \in [Procs -> OpType]
    BY <1>1 DEF Settle, TypeOK
  <2>. QED  BY <2>1, BeginFields
<1>. QED  BY <1>1

(* The goroutine's steps but Send.                                         *)
LEMMA CountWorker ==
  ASSUME Counting, NEW p \in Procs, NEW w \in Workers, WorkerStep(p, w), ~Send(p, w)
  PROVE  CountInv'
<1>. PICK x : x = wk[p][w]
  OBVIOUS
<1>0. /\ x \in WorkerType /\ wk \in [Procs -> [Workers -> WorkerType]] /\ TypeOK
      /\ Fits(p, x) /\ op \in [Procs -> OpType]
      /\ \A e \in Events : posts[e] \in Nat
  BY DEF Counting, HandsInv, LoopInv, TypeOK
<1>00. /\ \A e \in Events : EventCounted(e)
       /\ OpCounted(p) /\ BatchCounted(x)
  BY DEF Counting, CountInv
<1>01. HandOK(held[p], op[p].out, x)
  BY DEF Counting, HandsInv, HandInv
<1>02. x.batch \in Batches /\ x.result \in {"ok", "retry", "reject"}
  BY <1>0 DEF WorkerType
<1>1. ASSUME NEW y, wk' = [wk EXCEPT ![p][w] = y], y.batch = <<>>, UNCHANGED <<vars, world>>
      PROVE  CountInv'
  <2>1. UNCHANGED <<file, tmp, op, accepted, posts, refused, Opens>>
    BY <1>1 DEF vars, world, Opens
  <2>2. (\A e \in Events : EventCounted(e)') /\ OpCounted(p)'
    BY <1>00, <2>1 DEF EventCounted, OpCounted, Spent, Again
  <2>3. \A z : BatchCounted(z) => BatchCounted(z)'
    BY <2>1 DEF BatchCounted, RecordCounted
  <2>4. BatchCounted(y)'
    BY <1>1 DEF BatchCounted
  <2>5. \A v \in Workers : BatchCounted(wk[p][v])
    BY DEF Counting, CountInv
  <2>. QED  BY <1>1, <2>2, <2>3, <2>4, <2>5, CountOne
<1>2. ASSUME CountStep(p), \A e \in Events : EventCounted(e)', OpCounted(p)', HandKept(p),
             NEW y, wk' = [wk EXCEPT ![p][w] = y], BatchCounted(y)'
      PROVE  CountInv'
  BY <1>2, CountHands, CountOne
<1>3. ASSUME UNCHANGED world
      PROVE  posts' = posts /\ refused' = refused
  BY <1>3 DEF world
<1>4. CASE RunOnce(p, w)
  <2>1. PICK y : y = [IdleWorker EXCEPT !.pc = "call"]
    OBVIOUS
  <2>2. wk' = [wk EXCEPT ![p][w] = y] /\ y.batch = <<>> /\ UNCHANGED <<vars, world>>
    BY <1>4, <2>1 DEF RunOnce, IdleWorker
  <2>. QED  BY <1>1, <2>2
<1>5. CASE NextBatch(p, w)
  <2>1. PICK y : y = [x EXCEPT !.pc = "call"]
    OBVIOUS
  <2>2. wk' = [wk EXCEPT ![p][w] = y] /\ y.batch = <<>> /\ UNCHANGED <<vars, world>>
    BY <1>0, <1>5, <2>1 DEF NextBatch, WorkerType
  <2>. QED  BY <1>1, <2>2
<1>6. CASE CallClaim(p, w)
  <2>1. PICK y : y = [x EXCEPT !.pc = "claim"]
    OBVIOUS
  <2>2. /\ wk' = [wk EXCEPT ![p][w] = y] /\ y.batch = <<>> /\ UNCHANGED world
        /\ \E d : Claim(p, d, BatchMax)
    BY <1>0, <1>6, <2>1 DEF CallClaim, WorkerType, Fits
  <2>3. op'[p].kind = "claim"
    BY <1>0, <2>2, BeginFields DEF Claim
  <2>4. AnyCall(p) /\ CountStep(p)
    BY <1>3, <2>2, CountStepIs DEF AnyCall
  <2>5. BatchCounted(y)'
    BY <2>2 DEF BatchCounted
  <2>. QED  BY <1>0, <1>2, <2>2, <2>3, <2>4, <2>5, SettleShows, CallCounts
<1>6a. ASSUME CountStep(p), HandKept(p)
       PROVE  \A j \in DOMAIN x.batch : RecordCounted(x, x.batch[j])'
  BY <1>0, <1>00, <1>01, <1>6a, BatchStays
<1>7. CASE Claimed(p, w)
  <2>. PICK e, n : e = op[p].cur /\ n = file["pending"][e].attempts
    OBVIOUS
  <2>. PICK r : r = [id |-> e, attempts |-> n]
    OBVIOUS
  <2>. PICK y : y = [x EXCEPT !.batch = Append(@, r)]
    OBVIOUS
  <2>1. /\ wk' = [wk EXCEPT ![p][w] = y] /\ UNCHANGED world /\ MoveRemove(p) /\ x.pc = "claim"
    BY <1>7 DEF Claimed
  <2>2. /\ op[p].kind = "claim" /\ op[p].stage = "remove" /\ file["pending"][e] # None
        /\ file' = [file EXCEPT !["pending"][e] = None] /\ e \in Events
    BY <1>0, <2>1 DEF Fits, MoveRemove, Src, TypeOK, OpOK
  <2>3. CountStep(p) /\ ~MoveRename(p) /\ Step(p)
    BY <1>3, <2>1, <2>2, CountStepIs DEF Step, MoveRename
  <2>4. (\A f \in Events : EventCounted(f)') /\ OpCounted(p)' /\ HandKept(p)
    BY <2>3, StepCounts
  <2>5. n \in Nat /\ Fresh(n, posts[e], Opens)
    BY <1>0, <1>00, <2>2, AttemptsIs DEF EventCounted, Dir
  <2>6. Opens \in Nat /\ Opens' \in Nat /\ Opens =< Opens' /\ posts' = posts
    BY <2>3, OpensGrow DEF CountStep, ClaimInv
  <2>7. Fresh(n, posts'[e], Opens')
    BY <1>0, <2>2, <2>5, <2>6, FreshStays
  <2>8. file'["inflight"][e] # None => file'["inflight"][e].attempts = n
    <3>1. file'["inflight"][e] = file["inflight"][e]
      BY <1>0, <2>2 DEF TypeOK, Dir
    <3>. QED  BY <1>00, <2>2, <3>1 DEF OpCounted
  <2>9. /\ y.batch = Append(x.batch, r) /\ y.pc = "claim"
        /\ r.id = e /\ r.attempts = n /\ r \in [id : Events, attempts : Nat]
    BY <1>0, <2>1, <2>2, <2>5 DEF WorkerType
  <2>10. RecordCounted(y, r)'
    BY <2>7, <2>8, <2>9 DEF RecordCounted
  <2>11. \A j \in DOMAIN x.batch : RecordCounted(y, x.batch[j])'
    BY <1>6a, <2>1, <2>3, <2>4, <2>9 DEF RecordCounted
  <2>12. \A i \in DOMAIN y.batch : y.batch[i] = r \/ \E j \in DOMAIN x.batch : y.batch[i] = x.batch[j]
    BY <1>02, <2>9, BatchRecords
  <2>13. BatchCounted(y)'
    BY <2>10, <2>11, <2>12 DEF BatchCounted
  <2>. QED  BY <1>2, <2>1, <2>3, <2>4, <2>13
<1>8. CASE ClaimReturns(p, w) \/ MoveReturns(p, w)
  <2>1. /\ Return(p) /\ UNCHANGED world /\ x.pc \in {"claim", "move"}
        /\ \E y : /\ wk' = [wk EXCEPT ![p][w] = y]
                  /\ \/ y = [x EXCEPT !.pc = IF x.pc = "claim" THEN "send" ELSE "settle"]
                     \/ y = IdleWorker
                     \/ x.batch = <<>> /\ y = [x EXCEPT !.pc = "call", !.at = x.at + 1]
    BY <1>8 DEF ClaimReturns, MoveReturns
  <2>2. PICK y :
           /\ wk' = [wk EXCEPT ![p][w] = y]
           /\ \/ y = [x EXCEPT !.pc = IF x.pc = "claim" THEN "send" ELSE "settle"]
              \/ y = IdleWorker
              \/ x.batch = <<>> /\ y = [x EXCEPT !.pc = "call", !.at = x.at + 1]
    BY <2>1
  <2>3. \/ /\ y.batch = x.batch /\ y.result = x.result
           /\ y.pc = IF x.pc = "claim" THEN "send" ELSE "settle"
        \/ y.batch = <<>>
    <3>1. CASE y = [x EXCEPT !.pc = IF x.pc = "claim" THEN "send" ELSE "settle"]
      BY <1>0, <3>1 DEF WorkerType
    <3>2. CASE y = IdleWorker
      BY <3>2 DEF IdleWorker
    <3>3. CASE x.batch = <<>> /\ y = [x EXCEPT !.pc = "call", !.at = x.at + 1]
      BY <1>0, <3>3 DEF WorkerType
    <3>. QED  BY <2>2, <3>1, <3>2, <3>3
  <2>4. op'[p].kind = "idle"
    BY <1>0, <2>1, BeginFields DEF Return, Idle
  <2>5. CountStep(p)
    BY <1>3, <2>1, CountStepIs
  <2>6. (\A f \in Events : EventCounted(f)') /\ OpCounted(p)' /\ HandKept(p)
    BY <1>0, <2>1, <2>4, <2>5, SettleShows, CallCounts
  <2>7. CASE y.batch = <<>>
    <3>1. BatchCounted(y)'
      BY <2>7 DEF BatchCounted
    <3>. QED  BY <1>2, <2>2, <2>5, <2>6, <3>1
  <2>8. CASE y.batch # <<>>
    <3>1. \A j \in DOMAIN x.batch : RecordCounted(y, x.batch[j])'
      BY <1>6a, <2>1, <2>3, <2>5, <2>6, <2>8 DEF RecordCounted
    <3>2. BatchCounted(y)'
      BY <2>3, <2>8, <3>1 DEF BatchCounted
    <3>. QED  BY <1>2, <2>2, <2>5, <2>6, <3>2
  <2>. QED  BY <2>7, <2>8
<1>9. CASE SettleAck(p, w) \/ SettleMove(p, w)
  <2>. PICK r, v, b : r = Head(x.batch) /\ v = Verdict(x.result, r) /\ b = Tail(x.batch)
    OBVIOUS
  <2>1. /\ UNCHANGED world /\ x.pc = "settle" /\ x.batch # <<>>
        /\ \E y : /\ wk' = [wk EXCEPT ![p][w] = y]
                  /\ \/ y = [x EXCEPT !.batch = Tail(@)]
                     \/ y = [x EXCEPT !.batch = Tail(@), !.pc = "move"]
        /\ Ack(p, r.id) \/ AckFault(p, r.id) \/ (v # "ack" /\ Settle(p, r.id, v))
    <3>1. CASE SettleAck(p, w)
      <4>1. UNCHANGED world /\ x.pc = "settle" /\ x.batch # <<>>
        BY <3>1 DEF SettleAck
      <4>2. wk' = [wk EXCEPT ![p][w] = [x EXCEPT !.batch = Tail(@)]]
        BY <3>1 DEF SettleAck
      <4>3. Ack(p, r.id) \/ AckFault(p, r.id)
        BY <3>1 DEF SettleAck
      <4>. QED  BY <4>1, <4>2, <4>3
    <3>2. CASE SettleMove(p, w)
      <4>1. UNCHANGED world /\ x.pc = "settle" /\ x.batch # <<>>
        BY <3>2 DEF SettleMove
      <4>2. wk' = [wk EXCEPT ![p][w] = [x EXCEPT !.batch = Tail(@), !.pc = "move"]]
        BY <1>0, <3>2 DEF SettleMove, WorkerType
      <4>3. v # "ack" /\ Settle(p, r.id, v)
        BY <3>2 DEF SettleMove
      <4>. QED  BY <4>1, <4>2, <4>3
    <3>. QED  BY <1>9, <3>1, <3>2
  <2>2. PICK y : /\ wk' = [wk EXCEPT ![p][w] = y]
                 /\ \/ y = [x EXCEPT !.batch = Tail(@)]
                    \/ y = [x EXCEPT !.batch = Tail(@), !.pc = "move"]
    BY <2>1
  <2>3. y.batch = b /\ y.result = x.result /\ y.pc \in {"settle", "move"}
    BY <1>0, <2>1, <2>2 DEF WorkerType
  <2>4. /\ r \in [id : Events, attempts : Nat] /\ r.id \in Ids(x.batch)
        /\ \A i \in DOMAIN b : \E j \in DOMAIN x.batch : b[i] = x.batch[j]
        /\ RecordCounted(x, r)
    BY <1>00, <1>02, <2>1, BatchRecords, HeadOfBatch DEF BatchCounted
  <2>5. r.id \in held[p]
    BY <1>01, <2>1, <2>4 DEF HandOK
  <2>6. v \in {"ack", "retry", "bury"}
    BY <1>02, VerdictIs
  <2>7. AnyCall(p) /\ CountStep(p)
    <3>1. AnyCall(p)
      BY <2>1, <2>5, <2>6 DEF AnyCall
    <3>. QED  BY <1>3, <2>1, <3>1, CountStepIs
  <2>8. /\ v = "retry" => Again(r.id)
        /\ v = "bury" => Spent(r.id)
    <3>1. /\ v = "retry" => x.result = "retry" /\ r.attempts + 1 < MaxRetries
          /\ v = "bury" => \/ x.result = "reject"
                           \/ x.result = "retry" /\ r.attempts + 1 >= MaxRetries
      BY <1>02, <2>4, DispatchConstantsOK DEF Verdict
    <3>2. AllHttp =>
            /\ x.result = "retry" => r.attempts + 1 =< posts[r.id]
            /\ x.result = "reject" => r.id \in refused
      BY <2>1, <2>4 DEF RecordCounted
    <3>3. file["inflight"][r.id] # None => file["inflight"][r.id].attempts = r.attempts
      BY <2>4 DEF RecordCounted
    <3>4. v = "retry" => Again(r.id)
      BY <3>1, <3>2, <3>3 DEF Again
    <3>5. v = "bury" => Spent(r.id)
      BY <1>0, <2>4, <3>1, <3>2, DispatchConstantsOK DEF Spent
    <3>. QED  BY <3>4, <3>5
  <2>9. \A e \in held[p] : /\ Settle(p, e, "retry") => Again(e)
                           /\ Settle(p, e, "bury") => Spent(e)
    <3>1. CASE Settle(p, r.id, v)
      BY <1>0, <2>8, <3>1, SettleShows
    <3>2. CASE Ack(p, r.id) \/ AckFault(p, r.id)
      <4>1. op'[p].kind = "idle"
        BY <3>2 DEF Ack, AckFault, Free, disk
      <4>. QED  BY <1>0, <4>1, SettleShows
    <3>. QED  BY <2>1, <3>1, <3>2
  <2>10. (\A f \in Events : EventCounted(f)') /\ OpCounted(p)' /\ HandKept(p)
    BY <2>7, <2>9, CallCounts
  <2>11. \A j \in DOMAIN x.batch : RecordCounted(y, x.batch[j])'
    BY <1>6a, <2>1, <2>3, <2>7, <2>10 DEF RecordCounted
  <2>12. BatchCounted(y)'
    BY <2>3, <2>4, <2>11 DEF BatchCounted
  <2>. QED  BY <1>2, <2>2, <2>7, <2>10, <2>12
<1>. QED  BY <1>4, <1>5, <1>6, <1>7, <1>8, <1>9 DEF WorkerStep

(* How many events an adapter tries; http tries the whole batch, unless it *)
(* refuses it.                                                             *)
LEMMA TriedIs ==
  ASSUME NEW type \in AdapterTypes, NEW n \in Nat \ {0}, NEW out \in Outcomes(type, n)
  PROVE  /\ out.tried \in 0 .. n
         /\ type = "http" /\ out.result = "retry" => out.tried = n
<1>1. CASE type = "http"
  BY <1>1 DEF Outcomes, HttpOutcomes
<1>2. CASE type = "webhookscout"
  <2>1. out \in WebhookScoutOutcomes(n)
    BY <1>2 DEF Outcomes
  <2>2. CASE out \in [result : {"ok"}, got : {n}, tried : {n}]
    BY <1>2, <2>2
  <2>3. ASSUME NEW k \in 1 .. n,
               out \in [result : {"retry"}, got : {k - 1, k}, tried : {k}]
                        \cup [result : {"reject"}, got : {k - 1}, tried : {k - 1, k}]
        PROVE  out.tried \in 0 .. n
    BY <2>3
  <2>. QED  BY <1>2, <2>1, <2>2, <2>3 DEF WebhookScoutOutcomes
<1>3. CASE type = "file"
  BY <1>3 DEF Outcomes, FileOutcomes
<1>. QED  BY <1>1, <1>2, <1>3 DEF AdapterTypes

(* One more try of an event that was fresh.                                *)
LEMMA FreshTried ==
  ASSUME NEW n \in Nat, NEW k \in Nat, NEW o \in Nat, Fresh(n, k, o)
  PROVE  /\ Tried(n, k + 1, o) /\ k + 1 =< MaxRetries + o - 1
         /\ AllHttp => n + 1 =< k + 1
BY DispatchConstantsOK DEF Fresh, Tried

(* Send counts a try of every event it got to, and of no other.            *)
LEMMA CountSend ==
  ASSUME Counting, NEW p \in Procs, NEW w \in Workers, Send(p, w)
  PROVE  CountInv'
<1>. PICK x, type : x = wk[p][w] /\ type = Adapter[Registry[x.at]]
  OBVIOUS
<1>0. /\ x \in WorkerType /\ wk \in [Procs -> [Workers -> WorkerType]] /\ TypeOK
      /\ Fits(p, x) /\ \A e \in Events : posts[e] \in Nat
      /\ posts \in [Events -> Nat] /\ ClaimInv /\ HandInv /\ PlaceInv
  BY DEF Counting, HandsInv, LoopInv, TypeOK
<1>00. /\ \A e \in Events : EventCounted(e)
       /\ OpCounted(p) /\ BatchCounted(x)
  BY DEF Counting, CountInv
<1>01. /\ x.pc = "send" /\ x.batch # <<>> /\ x.batch \in Batches /\ UNCHANGED vars
       /\ Len(x.batch) \in Nat \ {0} /\ DOMAIN x.batch = 1 .. Len(x.batch)
       /\ \A i \in DOMAIN x.batch : x.batch[i] \in [id : Events, attempts : Nat]
  <2>1. x.pc = "send" /\ UNCHANGED vars
    BY DEF Send
  <2>2. x.batch \in Batches /\ x.batch # <<>>
    BY <1>0, <2>1 DEF WorkerType, Fits
  <2>. QED  BY <2>1, <2>2, BatchOfEvents, BatchRecords
<1>02. Ids(x.batch) \subseteq held[p]
  BY <1>0, <1>01 DEF HandInv, HandOK
<1>03. type \in AdapterTypes /\ (AllHttp => type = "http")
  <2>1. x.at \in 1 .. Len(Registry)
    BY <1>0, <1>01, DispatchConstantsOK DEF Fits, WorkerType
  <2>2. Registry[x.at] \in Dests
    BY <2>1, DispatchConstantsOK
  <2>. QED  BY <2>2, DispatchConstantsOK DEF AllHttp
<1>1. PICK out \in Outcomes(type, Len(x.batch)) :
        /\ wk' = [wk EXCEPT ![p][w].pc = "settle", ![p][w].result = out.result]
        /\ posts' = [e \in Events |-> IF e \in {x.batch[i].id : i \in 1 .. out.tried}
                                      THEN posts[e] + 1 ELSE posts[e]]
        /\ refused' = refused \cup (
             CASE out.result # "reject" -> {}
               [] out.result = "reject" /\ type = "webhookscout" -> {x.batch[out.got + 1].id}
               [] OTHER -> Ids(x.batch))
  <2>. DEFINE batch == wk[p][w].batch
              kind == Adapter[Registry[wk[p][w].at]]
  <2>1. PICK out \in Outcomes(kind, Len(batch)) :
        /\ wk' = [wk EXCEPT ![p][w].pc = "settle", ![p][w].result = out.result]
        /\ posts' = [e \in Events |-> IF e \in {batch[i].id : i \in 1 .. out.tried}
                                      THEN posts[e] + 1 ELSE posts[e]]
        /\ refused' = refused \cup (
             CASE out.result # "reject" -> {}
               [] out.result = "reject" /\ kind = "webhookscout" -> {batch[out.got + 1].id}
               [] OTHER -> Ids(batch))
    BY Zenon DEF Send
  <2>2. batch = x.batch /\ kind = type
    OBVIOUS
  <2>. HIDE DEF batch, kind
  <2>. QED  BY <2>1, <2>2
<1>. PICK T : T = {x.batch[i].id : i \in 1 .. out.tried}
  OBVIOUS
<1>. PICK y : y = [x EXCEPT !.pc = "settle", !.result = out.result]
  OBVIOUS
<1>2. /\ out.tried \in 0 .. Len(x.batch) /\ out.result \in {"ok", "retry", "reject"}
      /\ type = "http" /\ out.result = "retry" => out.tried = Len(x.batch)
  BY <1>01, <1>03, TriedIs, OutcomeIs
<1>3. /\ T \subseteq Ids(x.batch) /\ T \subseteq held[p]
      /\ AllHttp /\ out.result = "retry" => T = Ids(x.batch)
  <2>1. T \subseteq Ids(x.batch)
    BY <1>01, <1>2 DEF Ids
  <2>2. ASSUME AllHttp, out.result = "retry"
        PROVE  T = Ids(x.batch)
    BY <1>01, <1>03, <1>2, <2>2 DEF Ids
  <2>. QED  BY <1>02, <2>1, <2>2
<1>4. /\ y.batch = x.batch /\ y.pc = "settle" /\ y.result = out.result /\ y \in WorkerType
      /\ wk' = [wk EXCEPT ![p][w] = y]
  <2>1. y.batch = x.batch /\ y.pc = "settle" /\ y.result = out.result /\ y \in WorkerType
    BY <1>0, <1>2 DEF WorkerType
  <2>2. wk' = [wk EXCEPT ![p][w] = y]
    BY <1>0, <1>1 DEF WorkerType
  <2>. QED  BY <2>1, <2>2
<1>5. /\ \A e \in T : posts'[e] = posts[e] + 1
      /\ \A e \in Events \ T : posts'[e] = posts[e]
      /\ \A e \in Events : posts'[e] \in Nat /\ posts[e] =< posts'[e]
  BY <1>0, <1>1, <1>3 DEF TypeOK
<1>6. /\ refused \subseteq refused'
      /\ AllHttp /\ out.result = "reject" => Ids(x.batch) \subseteq refused'
  <2>1. AllHttp /\ out.result = "reject" => type # "webhookscout"
    BY <1>03
  <2>. QED  BY <1>1, <2>1
<1>7. UNCHANGED <<file, tmp, op, held, accepted, Opens>>
  BY <1>01 DEF vars, Opens
<1>8. Opens \in Nat
  <2>1. Cardinality(up) \in Nat /\ crashes \in Nat
    <3>1. SoleProcess /\ up \in SUBSET Procs /\ crashes \in Nat
      BY <1>0 DEF Counting, TypeOK
    <3>. QED  BY <3>1, OpensIs
  <2>. QED  BY <2>1 DEF Opens
<1>9. ASSUME NEW e \in T
      PROVE  \E r \in [id : Events, attempts : Nat] :
               /\ r.id = e /\ RecordCounted(x, r)
               /\ file["pending"][e] = None /\ file["inflight"][e] # None
               /\ file["inflight"][e].attempts = r.attempts
  <2>1. PICK i \in DOMAIN x.batch : x.batch[i].id = e
    BY <1>3, <1>9 DEF Ids
  <2>2. /\ file["pending"][e] = None /\ file["inflight"][e] # None
    BY <1>0, <1>3 DEF ClaimInv, HeldIsNotPending, PlaceInv, InPlace
  <2>3. RecordCounted(x, x.batch[i])
    BY <1>00 DEF BatchCounted
  <2>4. file["inflight"][e].attempts = x.batch[i].attempts
    BY <2>1, <2>2, <2>3 DEF RecordCounted
  <2>. QED  BY <1>01, <2>1, <2>2, <2>3, <2>4
<1>10. ASSUME NEW e \in Events
       PROVE  EventCounted(e)'
  <2>1. CASE e \notin T
    <3>1. posts'[e] = posts[e]
      BY <1>5, <2>1
    <3>. QED  BY <1>00, <1>6, <1>7, <3>1 DEF EventCounted, Spent
  <2>2. CASE e \in T
    <3>1. PICK r \in [id : Events, attempts : Nat] :
               /\ r.id = e /\ RecordCounted(x, r)
               /\ file["pending"][e] = None /\ file["inflight"][e] # None
               /\ file["inflight"][e].attempts = r.attempts
      BY <1>9, <2>2
    <3>2. Fresh(r.attempts, posts[e], Opens)
      BY <1>01, <3>1 DEF RecordCounted
    <3>3. Tried(r.attempts, posts'[e], Opens) /\ posts'[e] =< MaxRetries + Opens - 1
      BY <1>0, <1>5, <1>8, <2>2, <3>2, FreshTried
    <3>4. e \in accepted
      BY <1>0, <3>1 DEF PlaceInv, OnlyAccepted, Dir
    <3>5. Spent(e) => Spent(e)'
      BY <1>0, <1>5, <1>6, DispatchConstantsOK DEF Spent
    <3>. QED  BY <1>00, <1>7, <3>1, <3>3, <3>4, <3>5 DEF EventCounted
  <2>. QED  BY <2>1, <2>2
<1>11. OpCounted(p)'
  <2>1. op[p].kind # "open"
    <3>1. held[p] # {}
      BY <1>01, <1>02, HeadOfBatch
    <3>. QED  BY <1>0, <3>1 DEF ClaimInv, InHandOK
  <2>2. op[p].kind \in {"retry", "enqueue"} /\ op[p].stage = "rename" =>
          posts'[op[p].cur] = posts[op[p].cur]
    <3>1. op[p].kind \in {"retry", "enqueue"} /\ op[p].stage = "rename" =>
            op[p].cur \in Events \ T
      BY <1>0, <1>3 DEF ClaimInv, InHandOK, TypeOK, OpOK
    <3>. QED  BY <1>5, <3>1
  <2>3. op[p].todo \subseteq Events /\ (op[p].stage # "pick" => op[p].cur \in Events)
    BY <1>0 DEF TypeOK, OpOK, OpType
  <2>4. \A e \in Events : Spent(e) => Spent(e)'
    BY <1>0, <1>5, <1>6, DispatchConstantsOK DEF Spent
  <2>5. \A e \in Events : Again(e) => Again(e)'
    <3>1. ASSUME NEW e \in Events, Again(e), file["inflight"][e] # None
          PROVE  LET n == file["inflight"][e].attempts
                 IN  n + 1 < MaxRetries /\ (AllHttp => n + 1 =< posts'[e])
      <4>1. file["inflight"][e].attempts \in Nat
        BY <1>0, <3>1, AttemptsIs DEF Dir
      <4>. QED  BY <1>0, <1>5, <3>1, <4>1 DEF Again
    <3>. QED  BY <1>7, <3>1 DEF Again
  <2>6. op[p].kind = "retry" => \A e \in op[p].todo : Again(e)'
    BY <1>00, <2>3, <2>5 DEF OpCounted
  <2>7. op[p].kind = "bury" => /\ \A e \in op[p].todo : Spent(e)'
                               /\ op[p].stage # "pick" => Spent(op[p].cur)'
    <3>1. PICK c : c = op[p].cur
      OBVIOUS
    <3>2. op[p].kind = "bury" => /\ \A e \in op[p].todo : Spent(e)'
                                 /\ op[p].stage # "pick" => Spent(c)'
      BY <1>00, <2>3, <2>4, <3>1 DEF OpCounted
    <3>. QED  BY <1>7, <3>1, <3>2 DEF Spent
  <2>8. op'[p] = op[p]
    BY <1>7
  <2>. QED  BY <1>00, <1>7, <2>1, <2>2, <2>6, <2>7, <2>8 DEF OpCounted
<1>12. BatchCounted(y)'
  <2>. SUFFICES ASSUME NEW i \in DOMAIN x.batch
                PROVE  RecordCounted(y, x.batch[i])'
    BY <1>4 DEF BatchCounted
  <2>. PICK r : r = x.batch[i]
    OBVIOUS
  <2>1. r \in [id : Events, attempts : Nat] /\ r.id \in Ids(x.batch) /\ RecordCounted(x, r)
    BY <1>00, <1>01 DEF BatchCounted, Ids
  <2>2. AllHttp /\ out.result = "retry" => r.attempts + 1 =< posts'[r.id]
    <3>1. ASSUME AllHttp, out.result = "retry"
          PROVE  r.attempts + 1 =< posts[r.id] + 1
      <4>1. Fresh(r.attempts, posts[r.id], Opens)
        BY <1>01, <2>1 DEF RecordCounted
      <4>. QED  BY <1>0, <1>8, <2>1, <3>1, <4>1, FreshTried
    <3>. QED  BY <1>3, <1>5, <2>1, <3>1
  <2>3. RecordCounted(y, r)'
    BY <1>4, <1>6, <1>7, <2>1, <2>2 DEF RecordCounted
  <2>. QED  BY <2>3
<1>13. ASSUME NEW v \in Workers \ {w}, NEW z \in WorkerType, z = wk[p][v]
       PROVE  BatchCounted(z)'
  <2>1. BatchCounted(z) /\ HandOK(held[p], op[p].out, z) /\ Hand(z) \cap Hand(x) = {}
    BY <1>0, <1>13 DEF Counting, CountInv, HandInv
  <2>2. Hand(x) = Ids(x.batch)
    BY <1>01 DEF Hand
  <2>3. Ids(z.batch) \cap T = {}
    <3>1. CASE z.pc = "claim"
      <4>1. op[p].out \cap held[p] = {}
        BY <1>0 DEF ClaimInv, InHandOK
      <4>. QED  BY <1>3, <2>1, <3>1, <4>1 DEF HandOK
    <3>2. CASE z.pc # "claim"
      BY <1>3, <2>1, <2>2, <3>2 DEF Hand
    <3>. QED  BY <3>1, <3>2
  <2>. SUFFICES ASSUME NEW i \in DOMAIN z.batch
                PROVE  RecordCounted(z, z.batch[i])'
    BY DEF BatchCounted
  <2>. PICK r : r = z.batch[i]
    OBVIOUS
  <2>4. r.id \in Ids(z.batch) /\ RecordCounted(z, r)
    BY <2>1 DEF BatchCounted, Ids
  <2>5. r.id \in Events
    <3>1. z.batch \in Batches
      BY <1>13 DEF WorkerType
    <3>. QED  BY <3>1, BatchRecords
  <2>6. posts'[r.id] = posts[r.id]
    BY <1>5, <2>3, <2>4, <2>5
  <2>7. RecordCounted(z, r)'
    BY <1>6, <1>7, <2>4, <2>6 DEF RecordCounted
  <2>. QED  BY <2>7
<1>. QED  BY <1>4, <1>10, <1>11, <1>12, <1>13, CountOne

(* The rest of the process tries nothing.                                  *)
LEMMA CountRest ==
  ASSUME Counting, NEW p \in Procs,
         \/ QueueStep(p) \/ QueueFault(p) \/ OtherReturns(p)
         \/ Start(p) \/ Capture(p) \/ CallPrune(p) \/ Stop(p)
  PROVE  CountInv'
<1>0. /\ wk \in [Procs -> [Workers -> WorkerType]] /\ TypeOK /\ \A q \in Procs : q = p
      /\ op \in [Procs -> OpType] /\ op[p] \in OpType
  BY DEF Counting, HandsInv, LoopInv, SoleProcess, TypeOK
<1>1. posts' = posts /\ refused' = refused
  BY DEF QueueStep, QueueFault, OtherReturns, Start, Capture, CallPrune, Stop, world
<1>2. ASSUME CountStep(p), \A e \in Events : EventCounted(e)', OpCounted(p)',
             HandKept(p), wk' = wk
      PROVE  CountInv'
  <2>1. ASSUME NEW v \in Workers
        PROVE  BatchCounted(wk[p][v])'
    <3>1. PICK x : x = wk[p][v]
      OBVIOUS
    <3>2. BatchCounted(x)'
      BY <1>0, <1>2, <3>1, CountHands
    <3>. QED  BY <1>2, <3>1, <3>2 DEF BatchCounted, RecordCounted
  <2>. QED  BY <1>0, <1>2, <2>1 DEF CountInv
<1>3. CASE QueueStep(p) \/ QueueFault(p)
  <2>1. (Step(p) \/ Fault(p)) /\ wk' = wk
    BY <1>3 DEF QueueStep, QueueFault, Step
  <2>2. CountStep(p)
    BY <1>1, <2>1, CountStepIs
  <2>3. (\A e \in Events : EventCounted(e)') /\ OpCounted(p)' /\ HandKept(p)
    BY <2>1, <2>2, RenameCounts, StepCounts
  <2>. QED  BY <1>2, <2>1, <2>2, <2>3
<1>4. CASE OtherReturns(p) \/ Start(p) \/ Capture(p) \/ CallPrune(p)
  <2>1. wk' = wk /\ (Return(p) \/ AnyCall(p))
    BY <1>4 DEF OtherReturns, Start, Capture, CallPrune, AnyCall
  <2>2. op'[p].kind \notin {"retry", "bury"}
    <3>1. CASE OtherReturns(p)
      BY <1>0, <3>1, BeginFields DEF OtherReturns, Return, Idle
    <3>2. CASE Start(p)
      BY <1>0, <3>2, BeginFields DEF Start, Open
    <3>3. CASE CallPrune(p)
      BY <1>0, <3>3, BeginFields DEF CallPrune, Prune
    <3>4. CASE Capture(p)
      <4>1. PICK e \in Events : Enqueue(p, e)
        BY <3>4 DEF Capture
      <4>2. /\ op[p].kind = "idle"
            /\ \/ op' = op
               \/ op' = [op EXCEPT ![p] = Begin("evict", Listed("pending"), e, TotalBytes)]
               \/ op' = [op EXCEPT ![p] = Begin("enqueue", {e}, e, TotalBytes)]
        BY <4>1 DEF Enqueue, Free
      <4>. QED  BY <1>0, <4>2, BeginFields
    <3>. QED  BY <1>4, <3>1, <3>2, <3>3, <3>4
  <2>3. CountStep(p)
    BY <1>1, <2>1, CountStepIs
  <2>4. (\A e \in Events : EventCounted(e)') /\ OpCounted(p)' /\ HandKept(p)
    BY <1>0, <2>1, <2>2, <2>3, SettleShows, CallCounts
  <2>. QED  BY <1>2, <2>1, <2>3, <2>4
<1>5. CASE Stop(p)
  <2>1. End(p) /\ wk' = [wk EXCEPT ![p] = [w \in Workers |-> IdleWorker]]
    BY <1>5 DEF Stop
  <2>2. CountStep(p)
    BY <1>1, <2>1, CountStepIs
  <2>3. op'[p].kind = "idle"
    BY <1>0, <2>1, BeginFields DEF End, Idle
  <2>4. (\A e \in Events : EventCounted(e)') /\ OpCounted(p)'
    BY <1>0, <2>1, <2>2, <2>3, SettleShows, CallCounts
  <2>5. \A w \in Workers : wk'[p][w].batch = <<>>
    BY <1>0, <2>1 DEF IdleWorker
  <2>6. \A w \in Workers : BatchCounted(wk[p][w])'
    BY <2>5 DEF BatchCounted
  <2>. QED  BY <1>0, <2>4, <2>6 DEF CountInv
<1>. QED  BY <1>3, <1>4, <1>5

(* Time passes over every record alike.                                    *)
LEMMA CountWait ==
  ASSUME Counting, NEW e \in Events, Wait(e)
  PROVE  CountInv'
<1>1. /\ file' = [file EXCEPT !["pending"][e].due = TRUE] /\ file["pending"][e] # None
      /\ UNCHANGED <<tmp, op, accepted, crashes, up, wk, posts, refused>>
  BY DEF Wait, Elapse, history, world
<1>2. TypeOK /\ TypeOK' /\ CountInv
  BY DEF Counting, HandsInv
<1>3. Opens' = Opens
  BY <1>1 DEF Opens
<1>4. /\ \A x \in Events, d \in Dir : x # e \/ d # "pending" => file'[d][x] = file[d][x]
      /\ file'["pending"][e] = [file["pending"][e] EXCEPT !.due = TRUE]
  BY <1>1, <1>2 DEF TypeOK, Dir
<1>5. file'["pending"][e].attempts = file["pending"][e].attempts
  <2>1. file["pending"][e] \in Record
    BY <1>1, <1>2 DEF TypeOK, RecordOrNone, Dir
  <2>. QED  BY <1>4, <2>1 DEF Record
<1>6. \A x \in Events, d \in {"pending", "inflight", "dead"} :
         /\ file'[d][x] # None => file[d][x] # None
         /\ file'[d][x].attempts = file[d][x].attempts
  BY <1>1, <1>4, <1>5 DEF Dir
<1>7. ASSUME NEW x \in Events
      PROVE  EventCounted(x)'
  <2>1. EventCounted(x)
    BY <1>2 DEF CountInv
  <2>. QED  BY <1>1, <1>3, <1>6, <2>1 DEF EventCounted, Spent
<1>8. ASSUME NEW p \in Procs
      PROVE  OpCounted(p)'
  <2>1. /\ OpCounted(p) /\ op[p].todo \subseteq Events
        /\ op[p].stage # "pick" => op[p].cur \in Events
    BY <1>2 DEF CountInv, TypeOK, OpOK, OpType
  <2>2. \A x \in Events : Again(x) => Again(x)'
    BY <1>1, <1>6 DEF Again
  <2>3. op[p].kind = "retry" => \A x \in op[p].todo : Again(x)'
    BY <2>1, <2>2 DEF OpCounted
  <2>4. /\ \A x \in Events : file'["inflight"][x] = file["inflight"][x]
        /\ \A x \in Events : file'["pending"][x].attempts = file["pending"][x].attempts
        /\ \A x \in Events : file'["pending"][x] # None => file["pending"][x] # None
    BY <1>4, <1>6 DEF Dir
  <2>. QED  BY <1>1, <1>3, <2>1, <2>3, <2>4 DEF OpCounted, Spent
<1>9. ASSUME NEW p \in Procs, NEW w \in Workers
      PROVE  BatchCounted(wk[p][w])'
  <2>1. PICK x : x = wk[p][w]
    OBVIOUS
  <2>2. BatchCounted(x) /\ x.batch \in Batches
    BY <1>2, <2>1 DEF CountInv, Counting, HandsInv, LoopInv, WorkerType
  <2>3. \A i \in DOMAIN x.batch : x.batch[i].id \in Events
    BY <2>2, BatchRecords
  <2>4. BatchCounted(x)'
    BY <1>1, <1>3, <1>6, <2>2, <2>3 DEF BatchCounted, RecordCounted
  <2>. QED  BY <1>1, <2>1, <2>4 DEF BatchCounted, RecordCounted
<1>. QED  BY <1>7, <1>8, <1>9 DEF CountInv

(* CountInv holds at the start, and every step keeps it.                   *)
LEMMA CountInvariant ==
  ASSUME SoleProcess
  PROVE  DSpec => [](CountInv /\ HandsInv)
<1>1. DInit => HandsInv /\ LossInv /\ PlaceInv /\ CountInv
  <2>. SUFFICES ASSUME DInit
                PROVE  HandsInv /\ LossInv /\ PlaceInv /\ CountInv
    OBVIOUS
  <2>1. HandsInv /\ LossInv /\ PlaceInv
    BY HandInit, LossInit, PlaceInit DEF DInit
  <2>2. \A e \in Events : EventCounted(e)
    BY DEF DInit, Init, EventCounted, Dir
  <2>3. \A p \in Procs : op[p].kind = "idle"
    BY BeginFields DEF DInit, Init, Idle
  <2>4. \A p \in Procs : OpCounted(p)
    BY <2>3 DEF OpCounted
  <2>5. \A p \in Procs, w \in Workers : wk[p][w].batch = <<>>
    BY DEF DInit, IdleWorker
  <2>6. \A p \in Procs, w \in Workers : BatchCounted(wk[p][w])
    BY <2>5 DEF BatchCounted
  <2>. QED  BY <2>1, <2>2, <2>4, <2>6 DEF CountInv
<1>2. HandsInv /\ LossInv /\ PlaceInv /\ CountInv /\ [DNext]_dvars => (HandsInv /\ LossInv /\ PlaceInv /\ CountInv)'
  <2>. SUFFICES ASSUME HandsInv, LossInv, PlaceInv, CountInv, [DNext]_dvars
                PROVE  HandsInv' /\ LossInv' /\ PlaceInv' /\ CountInv'
    OBVIOUS
  <2>1. HandsInv' /\ LossInv' /\ PlaceInv'
    <3>1. AnyNext \/ UNCHANGED vars
      BY DispatcherIsClient DEF dvars, HandsInv
    <3>. QED  BY <3>1, HandStep, LossStep, PlaceStep DEF HandsInv
  <2>2. Counting
    BY <2>1 DEF Counting
  <2>3. CASE UNCHANGED dvars
    <3>1. UNCHANGED <<file, tmp, op, accepted, posts, refused, wk, Opens>>
      BY <2>3 DEF dvars, vars, world, Opens
    <3>2. \A e \in Events : EventCounted(e)'
      BY <3>1 DEF CountInv, EventCounted, Spent
    <3>3. \A p \in Procs : OpCounted(p)'
      BY <3>1 DEF CountInv, OpCounted, Spent, Again
    <3>4. \A p \in Procs, w \in Workers : BatchCounted(wk[p][w])'
      BY <3>1 DEF CountInv, BatchCounted, RecordCounted
    <3>. QED  BY <2>1, <3>2, <3>3, <3>4 DEF CountInv
  <2>. QED  BY <2>1, <2>2, <2>3, CountWorker, CountSend, CountRest, CountWait DEF DNext
<1>. QED  BY <1>1, <1>2, PTL DEF DSpec

(* Duplicates are bounded, for any adapters, retries, crashes and faults,  *)
(* if one process at a time has the directory: an event is tried           *)
(* MaxRetries times at most and once more for every later Open.            *)
THEOREM TriesBoundedTheorem ==
  ASSUME SoleProcess
  PROVE  DSpec => []TriesBounded
<1>1. CountInv /\ HandsInv => TriesBounded
  BY DEF CountInv, EventCounted, TriesBounded
<1>. QED  BY <1>1, CountInvariant, PTL

(* And where one POST tries the whole batch, as the http adapter's does,   *)
(* nothing is given up early: what is in dead was refused or tried         *)
(* MaxRetries times, whatever was undone, copied twice or lost.            *)
THEOREM TriesCountedTheorem ==
  ASSUME SoleProcess, AllHttp
  PROVE  DSpec => []TriesCounted
<1>1. CountInv /\ HandsInv => TriesCounted
  BY DEF CountInv, EventCounted, TriesCounted, TriesBounded, Spent, Listed
<1>. QED  BY <1>1, CountInvariant, PTL
=============================================================================
