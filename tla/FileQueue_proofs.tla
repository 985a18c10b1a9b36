-------------------------- MODULE FileQueue_proofs --------------------------
(***************************************************************************)
(* Proofs about FileQueue: type correctness for any number of processes,   *)
(* and, for a directory that one process at a time uses, that no accepted  *)
(* event is lost, that a claim returns no event which is already in a      *)
(* client's hands, that what is in inflight is in somebody's hands, where  *)
(* the record of an event is, for the dispatcher's refinement of           *)
(* AtLeastOnce, and what evictIfFull brings about.                         *)
(***************************************************************************)
EXTENDS FileQueue, FiniteSetTheorems, TLAPS

\* What a client may call that settles only what it holds: Call, without the
\* bounds that are there for TLC.  The proofs are about any such client.
AnyCall(p) ==
  \/ Open(p)
  \/ \E e \in Events : Enqueue(p, e)
  \/ \E d, n : Claim(p, d, n)
  \/ \E e \in held[p] : Ack(p, e) \/ AckFault(p, e)
  \/ \E e \in held[p], k \in {"retry", "bury"} : Settle(p, e, k)
  \/ \E c : Prune(p, c)

AnyNext ==
  \/ \E p \in Procs : Step(p) \/ Return(p) \/ Fault(p) \/ AnyCall(p) \/ End(p)
  \/ \E e \in Events : Elapse(e)

(* The client of FileQueue is one of them. *)
LEMMA NextIsAny == Next => AnyNext
BY DEF Next, AnyNext, Call, AnyCall

(* A move never removes the file it has just put in place. *)
LEMMA SrcIsNotDst ==
  ASSUME NEW k \in MoveKinds
  PROVE  Src(k) \in Dir /\ Dst(k) \in Dir /\ Src(k) # Dst(k)
BY DEF MoveKinds, Src, Dst, Dir

(* Every operation that writes a record writes it into one of the four       *)
(* directories.                                                              *)
LEMMA DstInDir ==
  ASSUME NEW k
  PROVE  Dst(k) \in Dir
BY DEF Dst, Dir

(* moveRecord rewrites a header into a header. *)
LEMMA RevisedType ==
  ASSUME NEW k, NEW r \in Record
  PROVE  Revised(k, r) \in Record
BY DEF Revised, Record

(* The byte count that evictIfFull works with is a number. *)
LEMMA TotalBytesType ==
  ASSUME TypeOK
  PROVE  TotalBytes \in Nat
<1>1. \A d \in Dir : Listed(d) \in SUBSET Events
  BY DEF Listed
<1>2. \A d \in Dir : {e \in Events : tmp[d][e] # None} \in SUBSET Events
  OBVIOUS
<1>. QED  BY <1>1, <1>2, ConstantsOK DEF TotalBytes, Dir

(* Only one process's operation changes in a step, so it is enough to look *)
(* at that one.                                                            *)
LEMMA OpUpdate ==
  ASSUME TypeOK, NEW p \in Procs, NEW o, OpOK(o), op' = [op EXCEPT ![p] = o]
  PROVE  op' \in [Procs -> OpType] /\ \A q \in Procs : OpOK(op'[q])
BY DEF TypeOK, OpOK

(* No operation in progress is a well-formed operation.                      *)
LEMMA IdleOK == OpOK(Idle)
BY DEF OpOK, OpType, Idle, Begin, Kinds, MoveKinds

(* The rank that a new record gets as its enqueue time is a number.          *)
LEMMA AskedIsFinite ==
  ASSUME TypeOK
  PROVE  Cardinality(asked) \in Nat
BY ConstantsOK, FS_Subset, FS_CardinalityType DEF TypeOK

(* Enqueue starts a well-formed eviction or store, about the new event.      *)
LEMMA BeginOK ==
  ASSUME NEW k \in {"evict", "enqueue"}, NEW S \in SUBSET Events,
         NEW e \in Events, NEW n \in Nat
  PROVE  OpOK(Begin(k, S, e, n))
<1>1. Begin(k, S, e, n) \in OpType
  BY DEF OpType, Begin, Kinds, MoveKinds
<1>2. Begin(k, S, e, n).stage = "pick" /\ Begin(k, S, e, n).new = e
  BY DEF Begin
<1>. QED  BY <1>1, <1>2 DEF OpOK

(* Dropping the current record, and visiting one id less, keep an operation *)
(* well formed.                                                             *)
LEMMA DoneType ==
  ASSUME NEW o \in OpType
  PROVE  /\ Done(o) \in OpType
         /\ Done(o).stage = "pick" /\ Done(o).kind = o.kind /\ Done(o).new = o.new
BY DEF Done, OpType

(* A completed move keeps an operation well formed.                          *)
LEMMA MovedType ==
  ASSUME NEW o \in OpType, o.cur \in Events
  PROVE  /\ Moved(o) \in OpType
         /\ Moved(o).stage = "pick" /\ Moved(o).kind = o.kind /\ Moved(o).new = o.new
<1>. DEFINE d == Done(o)
            claimed == IF o.kind = "claim" THEN d.out \cup {o.cur} ELSE d.out
            bytes == IF o.kind = "evict" THEN d.freed + Payload[o.cur] ELSE d.freed
<1>1. d \in OpType /\ d.stage = "pick" /\ d.kind = o.kind /\ d.new = o.new
  BY DoneType
<1>2. claimed \in SUBSET Events
  BY <1>1 DEF OpType
<1>3. Payload[o.cur] \in Nat
  BY ConstantsOK
<1>4. bytes \in Nat
  BY <1>1, <1>3 DEF OpType
<1>5. Moved(o) = [d EXCEPT !.out = claimed, !.freed = bytes]
  BY DEF Moved
<1>. HIDE DEF d, claimed, bytes
<1>. QED  BY <1>1, <1>2, <1>4, <1>5 DEF OpType

(* Giving up on a record, the end of every failed move, keeps the types.     *)
LEMMA SkipOK ==
  ASSUME TypeOK, NEW p \in Procs, Skip(p)
  PROVE  op' \in [Procs -> OpType] /\ \A q \in Procs : OpOK(op'[q])
<1>1. op[p] \in OpType /\ OpOK(op[p])
  BY DEF TypeOK
<1>2. OpOK(Done(op[p]))
  BY <1>1, DoneType DEF OpOK
<1>3. op' = [op EXCEPT ![p] = Done(op[p])]
  BY DEF Skip
<1>. QED  BY <1>2, <1>3, OpUpdate

(* So does passing over an id whose file is gone, or that Prune removed.     *)
LEMMA ShrinkOK ==
  ASSUME TypeOK, NEW p \in Procs, NEW e, op[p].stage = "pick",
         op' = [op EXCEPT ![p].todo = @ \ {e}]
  PROVE  op' \in [Procs -> OpType] /\ \A q \in Procs : OpOK(op'[q])
<1>. DEFINE o == [op[p] EXCEPT !.todo = @ \ {e}]
<1>1. op[p] \in OpType /\ OpOK(op[p])
  BY DEF TypeOK
<1>2. o \in OpType /\ o.stage = "pick" /\ o.kind = op[p].kind /\ o.new = op[p].new
  BY <1>1 DEF OpType
<1>3. OpOK(o)
  BY <1>1, <1>2 DEF OpOK
<1>4. op' = [op EXCEPT ![p] = o]
  OBVIOUS
<1>. HIDE DEF o
<1>. QED  BY <1>3, <1>4, OpUpdate

(* Every other operation starts well formed, with no event to store.         *)
LEMMA StartOK ==
  ASSUME TypeOK, NEW p \in Procs, NEW k \in Kinds \ {"evict", "enqueue"},
         NEW S \in SUBSET Events,
         op' = [op EXCEPT ![p] = Begin(k, S, None, 0)]
  PROVE  op' \in [Procs -> OpType] /\ \A q \in Procs : OpOK(op'[q])
<1>. DEFINE o == Begin(k, S, None, 0)
<1>1. o \in OpType /\ o.stage = "pick" /\ o.kind = k
  BY DEF OpType, Begin
<1>2. OpOK(o)
  BY <1>1 DEF OpOK
<1>. HIDE DEF o
<1>. QED  BY <1>2, OpUpdate DEF o

-----------------------------------------------------------------------------
(* Type correctness                                                        *)

(* An empty queue directory with no process is well typed.                   *)
LEMMA InitType == Init => TypeOK
<1>. SUFFICES ASSUME Init PROVE TypeOK
  OBVIOUS
<1>1. OpOK(Idle) /\ Idle \in OpType
  BY IdleOK DEF OpOK
<1>2. file \in [Dir -> [Events -> RecordOrNone]] /\ tmp \in [Dir -> [Events -> RecordOrNone]]
  BY DEF Init, RecordOrNone
<1>. QED  BY <1>1, <1>2 DEF Init, TypeOK

(* The steps of moveRecord. *)
LEMMA MoveType ==
  ASSUME TypeOK, NEW p \in Procs,
         \/ MoveMissing(p) \/ MoveWrite(p) \/ MoveRename(p) \/ RenameMissing(p)
         \/ MoveRemove(p) \/ RemoveMissing(p) \/ WriteFault(p) \/ RemoveFault(p)
  PROVE  TypeOK'
<1>0. op[p] \in OpType /\ OpOK(op[p])
  BY DEF TypeOK
<1>1. CASE MoveMissing(p)
  <2>1. op' \in [Procs -> OpType] /\ \A q \in Procs : OpOK(op'[q])
    BY <1>1, ShrinkOK DEF MoveMissing
  <2>. QED  BY <1>1, <2>1 DEF MoveMissing, TypeOK, disk, history
<1>2. CASE MoveWrite(p)
  <2>. DEFINE k == op[p].kind
  <2>1. PICK e \in op[p].todo :
          /\ file[Src(k)][e] # None
          /\ tmp' = [tmp EXCEPT ![Dst(k)][e] = Revised(k, file[Src(k)][e])]
          /\ op' = [op EXCEPT ![p].stage = "rename", ![p].cur = e]
    BY <1>2 DEF MoveWrite
  <2>2. e \in Events /\ k \in MoveKinds
    BY <1>0, <1>2, <2>1 DEF MoveWrite, OpType
  <2>3. file[Src(k)][e] \in Record
    BY <2>1, <2>2, SrcIsNotDst DEF TypeOK, RecordOrNone
  <2>4. tmp' \in [Dir -> [Events -> RecordOrNone]]
    BY <2>1, <2>2, <2>3, RevisedType, SrcIsNotDst DEF TypeOK, RecordOrNone
  <2>. DEFINE o == [op[p] EXCEPT !.stage = "rename", !.cur = e]
  <2>5. o \in OpType /\ o.cur = e /\ o.kind = k /\ o.stage = "rename" /\ o.new = op[p].new
    BY <1>0, <2>2 DEF OpType
  <2>6. OpOK(o)
    BY <1>0, <2>2, <2>5 DEF OpOK
  <2>7. op' = [op EXCEPT ![p] = o]
    BY <2>1
  <2>8. op' \in [Procs -> OpType] /\ \A q \in Procs : OpOK(op'[q])
    <3>. HIDE DEF o
    <3>. QED  BY <2>6, <2>7, OpUpdate
  <2>. QED  BY <1>2, <2>4, <2>8 DEF MoveWrite, TypeOK, history
<1>3. CASE MoveRename(p)
  <2>. DEFINE k == op[p].kind
              e == op[p].cur
  <2>1. e \in Events /\ k \in MoveKinds
    BY <1>0, <1>3 DEF MoveRename, OpOK
  <2>2. file' \in [Dir -> [Events -> RecordOrNone]] /\ tmp' \in [Dir -> [Events -> RecordOrNone]]
    BY <1>3, <2>1, SrcIsNotDst DEF MoveRename, TypeOK, RecordOrNone
  <2>. DEFINE o == [op[p] EXCEPT !.stage = "remove"]
  <2>3. o \in OpType /\ o.cur = e /\ o.kind = k /\ o.stage = "remove" /\ o.new = op[p].new
    BY <1>0 DEF OpType
  <2>4. OpOK(o)
    BY <1>0, <2>1, <2>3 DEF OpOK
  <2>5. op' = [op EXCEPT ![p] = o]
    BY <1>3 DEF MoveRename
  <2>6. op' \in [Procs -> OpType] /\ \A q \in Procs : OpOK(op'[q])
    <3>. HIDE DEF o
    <3>. QED  BY <2>4, <2>5, OpUpdate
  <2>. QED  BY <1>3, <2>2, <2>6 DEF MoveRename, TypeOK, history
<1>4. CASE RenameMissing(p) \/ RemoveMissing(p)
  <2>1. op' \in [Procs -> OpType] /\ \A q \in Procs : OpOK(op'[q])
    BY <1>4, SkipOK DEF RenameMissing, RemoveMissing
  <2>. QED  BY <1>4, <2>1 DEF RenameMissing, RemoveMissing, TypeOK, disk, history
<1>5. CASE MoveRemove(p)
  <2>. DEFINE k == op[p].kind
              e == op[p].cur
  <2>1. e \in Events /\ k \in MoveKinds
    BY <1>0, <1>5 DEF MoveRemove, OpOK
  <2>2. file' \in [Dir -> [Events -> RecordOrNone]]
    BY <1>5, <2>1, SrcIsNotDst DEF MoveRemove, TypeOK, RecordOrNone
  <2>3. OpOK(Moved(op[p]))
    BY <1>0, <2>1, MovedType DEF OpOK
  <2>4. op' = [op EXCEPT ![p] = Moved(op[p])]
    BY <1>5 DEF MoveRemove
  <2>7. op' \in [Procs -> OpType] /\ \A q \in Procs : OpOK(op'[q])
    BY <2>3, <2>4, OpUpdate
  <2>. QED  BY <1>5, <2>2, <2>7 DEF MoveRemove, TypeOK, history
<1>6. CASE WriteFault(p)
  <2>. DEFINE k == op[p].kind
              e == op[p].cur
  <2>1. e \in Events
    BY <1>0, <1>6 DEF WriteFault, OpOK
  <2>2. tmp' \in [Dir -> [Events -> RecordOrNone]]
    BY <1>6, <2>1, DstInDir DEF WriteFault, TypeOK, RecordOrNone
  <2>3. op' \in [Procs -> OpType] /\ \A q \in Procs : OpOK(op'[q])
    BY <1>6, SkipOK DEF WriteFault
  <2>. QED  BY <1>6, <2>2, <2>3 DEF WriteFault, TypeOK, history
<1>7. CASE RemoveFault(p)
  <2>1. op' \in [Procs -> OpType] /\ \A q \in Procs : OpOK(op'[q])
    BY <1>7, SkipOK DEF RemoveFault
  <2>. QED  BY <1>7, <2>1 DEF RemoveFault, TypeOK, disk, history
<1>. QED  BY <1>1, <1>2, <1>3, <1>4, <1>5, <1>6, <1>7

(* Enqueue, with the eviction before it. *)
LEMMA EnqueueType ==
  ASSUME TypeOK, NEW p \in Procs,
         \/ \E e \in Events : Enqueue(p, e)
         \/ Evicted(p) \/ EnqueueWrite(p) \/ EnqueueRename(p)
  PROVE  TypeOK'
<1>0. op[p] \in OpType /\ OpOK(op[p])
  BY DEF TypeOK
<1>1. CASE \E e \in Events : Enqueue(p, e)
  <2>1. PICK e \in Events : Enqueue(p, e)
    BY <1>1
  <2>. DEFINE o(k, S) == Begin(k, S, e, TotalBytes)
  <2>2. ASSUME NEW k \in {"evict", "enqueue"}, NEW S \in SUBSET Events
        PROVE  OpOK(o(k, S))
    <3>1. TotalBytes \in Nat
      BY TotalBytesType
    <3>. QED  BY <2>1, <3>1, BeginOK
  <2>3. \/ UNCHANGED op
        \/ op' = [op EXCEPT ![p] = o("evict", Listed("pending"))]
        \/ op' = [op EXCEPT ![p] = o("enqueue", {e})]
    BY <2>1 DEF Enqueue
  <2>4. Listed("pending") \in SUBSET Events /\ {e} \in SUBSET Events
    BY DEF Listed
  <2>5. op' \in [Procs -> OpType] /\ \A q \in Procs : OpOK(op'[q])
    <3>1. OpOK(o("evict", Listed("pending"))) /\ OpOK(o("enqueue", {e}))
      BY <2>2, <2>4
    <3>2. CASE UNCHANGED op
      BY <3>2 DEF TypeOK, OpOK
    <3>3. CASE \/ op' = [op EXCEPT ![p] = o("evict", Listed("pending"))]
               \/ op' = [op EXCEPT ![p] = o("enqueue", {e})]
      <4>. HIDE DEF o
      <4>. QED  BY <3>1, <3>3, OpUpdate
    <3>. QED  BY <2>3, <3>2, <3>3
  <2>6. asked' \in SUBSET Events
    BY <2>1 DEF Enqueue, TypeOK
  <2>. QED  BY <2>1, <2>5, <2>6 DEF Enqueue, TypeOK, disk
<1>2. CASE Evicted(p)
  <2>. DEFINE o == [op[p] EXCEPT !.kind = "enqueue", !.todo = {op[p].new}]
  <2>1. op[p].new \in Events
    BY <1>0, <1>2 DEF Evicted, OpOK
  <2>2. o \in OpType /\ o.stage = "pick" /\ o.new = op[p].new
    BY <1>0, <1>2, <2>1 DEF Evicted, OpType, Kinds
  <2>3. OpOK(o)
    BY <2>1, <2>2 DEF OpOK
  <2>4. op' = [op EXCEPT ![p] = o]
    BY <1>2 DEF Evicted
  <2>5. op' \in [Procs -> OpType] /\ \A q \in Procs : OpOK(op'[q])
    <3>. HIDE DEF o
    <3>. QED  BY <2>3, <2>4, OpUpdate
  <2>. QED  BY <1>2, <2>5 DEF Evicted, TypeOK, disk, history
<1>3. CASE EnqueueWrite(p)
  <2>. DEFINE e == op[p].new
              o == [op[p] EXCEPT !.stage = "rename", !.cur = e]
  <2>1. e \in Events /\ op[p].kind = "enqueue"
    BY <1>0, <1>3 DEF EnqueueWrite, OpOK
  <2>2. [attempts |-> 0, at |-> Cardinality(asked), due |-> TRUE] \in RecordOrNone
    BY AskedIsFinite DEF RecordOrNone, Record
  <2>3. tmp' \in [Dir -> [Events -> RecordOrNone]]
    BY <1>3, <2>1, <2>2 DEF EnqueueWrite, TypeOK
  <2>4. o \in OpType /\ o.stage = "rename" /\ o.cur = e /\ o.kind = "enqueue" /\ o.new = e
    BY <1>0, <2>1 DEF OpType
  <2>5. OpOK(o)
    BY <2>1, <2>4 DEF OpOK
  <2>6. op' = [op EXCEPT ![p] = o]
    BY <1>3 DEF EnqueueWrite
  <2>7. op' \in [Procs -> OpType] /\ \A q \in Procs : OpOK(op'[q])
    <3>. HIDE DEF o
    <3>. QED  BY <2>5, <2>6, OpUpdate
  <2>. QED  BY <1>3, <2>3, <2>7 DEF EnqueueWrite, TypeOK, history
<1>4. CASE EnqueueRename(p)
  <2>1. op[p].cur \in Events
    BY <1>0, <1>4 DEF EnqueueRename, OpOK
  <2>2. file' \in [Dir -> [Events -> RecordOrNone]] /\ tmp' \in [Dir -> [Events -> RecordOrNone]]
    BY <1>4, <2>1 DEF EnqueueRename, TypeOK, Dir, RecordOrNone
  <2>3. op' \in [Procs -> OpType] /\ \A q \in Procs : OpOK(op'[q])
    BY <1>4, SkipOK DEF EnqueueRename
  <2>. QED  BY <1>4, <2>1, <2>2, <2>3 DEF EnqueueRename, TypeOK
<1>. QED  BY <1>1, <1>2, <1>3, <1>4

(* The steps of the process's life and the client's other calls. *)
LEMMA CallType ==
  ASSUME TypeOK, NEW p \in Procs,
         \/ Return(p) \/ Open(p) \/ PruneRemove(p) \/ End(p)
         \/ \E d, n : Claim(p, d, n)
         \/ \E e \in held[p] : Ack(p, e) \/ AckFault(p, e)
         \/ \E e \in held[p], k \in {"retry", "bury"} : Settle(p, e, k)
         \/ \E c : Prune(p, c)
  PROVE  TypeOK'
<1>0. op[p] \in OpType /\ OpOK(op[p]) /\ held[p] \in SUBSET Events
  BY DEF TypeOK
<1>. DEFINE OpsOK == op' \in [Procs -> OpType] /\ \A q \in Procs : OpOK(op'[q])
<1>1. CASE Return(p)
  <2>1. OpsOK
    BY <1>1, IdleOK, OpUpdate DEF Return
  <2>2. held' \in [Procs -> SUBSET Events]
    BY <1>0, <1>1 DEF Return, TypeOK, OpType
  <2>. QED  BY <1>1, <2>1, <2>2 DEF Return, TypeOK, disk, history
<1>2. CASE Open(p)
  <2>1. Listed("inflight") \in SUBSET Events
    BY DEF Listed
  <2>2. OpsOK
    BY <1>2, <2>1, StartOK DEF Open, Kinds, MoveKinds
  <2>. QED  BY <1>2, <2>2 DEF Open, TypeOK, disk, history
<1>3. CASE PruneRemove(p)
  <2>1. PICK e \in op[p].todo :
          /\ file' = [file EXCEPT !["dead"][e] = None, !["dead_overflow"][e] = None]
          /\ pruned' = pruned \cup {e}
          /\ op' = [op EXCEPT ![p].todo = @ \ {e}]
    BY <1>3 DEF PruneRemove
  <2>2. e \in Events /\ op[p].stage = "pick"
    BY <1>0, <1>3 DEF PruneRemove, OpType, OpOK, MoveKinds
  <2>3. OpsOK
    BY <2>1, <2>2, ShrinkOK
  <2>4. file' \in [Dir -> [Events -> RecordOrNone]]
    BY <2>1, <2>2 DEF TypeOK, RecordOrNone, Dir
  <2>. QED  BY <1>3, <2>1, <2>2, <2>3, <2>4 DEF PruneRemove, TypeOK
<1>4. CASE End(p)
  <2>1. OpsOK
    BY <1>4, IdleOK, OpUpdate DEF End
  <2>. QED  BY <1>4, <2>1 DEF End, TypeOK, disk, history
<1>5. CASE \E d, n : Claim(p, d, n)
  <2>1. PICK d, n : Claim(p, d, n)
    BY <1>5
  <2>2. \E S \in SUBSET Events : op' = [op EXCEPT ![p] = Begin("claim", S, None, 0)]
    BY <2>1 DEF Claim, Listed
  <2>3. OpsOK
    BY <2>2, StartOK DEF Kinds, MoveKinds
  <2>. QED  BY <2>1, <2>3 DEF Claim, TypeOK, disk, history
<1>6. CASE \E e \in held[p] : Ack(p, e) \/ AckFault(p, e)
  <2>1. PICK e \in held[p] : Ack(p, e) \/ AckFault(p, e)
    BY <1>6
  <2>2. e \in Events
    BY <1>0
  <2>3. file' \in [Dir -> [Events -> RecordOrNone]]
    BY <2>1, <2>2 DEF Ack, AckFault, TypeOK, RecordOrNone, Dir, disk
  <2>4. held' \in [Procs -> SUBSET Events] /\ acked' \in SUBSET Events
    BY <2>1, <2>2 DEF Ack, AckFault, TypeOK
  <2>5. OpsOK
    BY <2>1 DEF Ack, AckFault, TypeOK, OpOK
  <2>. QED  BY <2>1, <2>3, <2>4, <2>5 DEF Ack, AckFault, TypeOK, disk
<1>7. CASE \E e \in held[p], k \in {"retry", "bury"} : Settle(p, e, k)
  <2>1. PICK e \in held[p], k \in {"retry", "bury"} : Settle(p, e, k)
    BY <1>7
  <2>2. {e} \in SUBSET Events /\ k \in Kinds \ {"evict", "enqueue"}
    BY <1>0 DEF Kinds, MoveKinds
  <2>3. op' = [op EXCEPT ![p] = Begin(k, {e}, None, 0)]
    BY <2>1 DEF Settle
  <2>4. OpsOK
    BY <2>2, <2>3, StartOK
  <2>. QED  BY <2>1, <2>4 DEF Settle, TypeOK, disk, history
<1>8. CASE \E c : Prune(p, c)
  <2>1. PICK c : Prune(p, c)
    BY <1>8
  <2>2. \E S \in SUBSET Events : op' = [op EXCEPT ![p] = Begin("prune", S, None, 0)]
    BY <2>1 DEF Prune, Listed
  <2>3. OpsOK
    BY <2>2, StartOK DEF Kinds, MoveKinds
  <2>. QED  BY <2>1, <2>3 DEF Prune, TypeOK, disk, history
<1>. QED  BY <1>1, <1>2, <1>3, <1>4, <1>5, <1>6, <1>7, <1>8

(* A delay that runs out changes one header. *)
LEMMA ElapseType ==
  ASSUME TypeOK, NEW e \in Events, Elapse(e)
  PROVE  TypeOK'
<1>1. file["pending"][e] \in Record
  BY DEF Elapse, TypeOK, RecordOrNone, Dir
<1>2. [file["pending"][e] EXCEPT !.due = TRUE] \in Record
  BY <1>1 DEF Record
<1>3. file' \in [Dir -> [Events -> RecordOrNone]]
  BY <1>2 DEF Elapse, TypeOK, RecordOrNone, Dir
<1>. QED  BY <1>3 DEF Elapse, TypeOK, history

(* The steps of Next, one actor's step at a time. *)
LEMMA NextType ==
  ASSUME TypeOK, AnyNext
  PROVE  TypeOK'
<1>1. CASE \E e \in Events : Elapse(e)
  BY <1>1, ElapseType
<1>2. ASSUME NEW p \in Procs, Step(p) \/ Return(p) \/ Fault(p) \/ AnyCall(p) \/ End(p)
      PROVE  TypeOK'
  <2>1. CASE Step(p)
    BY <2>1, MoveType, EnqueueType, CallType DEF Step
  <2>2. CASE Return(p) \/ End(p)
    BY <2>2, CallType
  <2>3. CASE Fault(p)
    BY <2>3, MoveType DEF Fault
  <2>4. CASE AnyCall(p)
    BY <2>4, EnqueueType, CallType DEF AnyCall
  <2>. QED  BY <1>2, <2>1, <2>2, <2>3, <2>4
<1>. QED  BY <1>1, <1>2 DEF AnyNext

(* Type correctness: whatever the processes do, every file, operation and   *)
(* history stays in its type, and an operation has the record that its      *)
(* stage of moveRecord needs.                                               *)
THEOREM TypeCorrect == Spec => []TypeOK
<1>1. TypeOK /\ UNCHANGED vars => TypeOK'
  BY DEF TypeOK, OpOK, vars
<1>. QED  BY <1>1, InitType, NextType, NextIsAny, PTL DEF Spec

-----------------------------------------------------------------------------
(* No accepted event is lost                                               *)
(*                                                                         *)
(* NoLoss is not inductive: os.Remove of a source is safe only because the *)
(* copy is in place by then.  MoveSafe says so, and it needs that nobody   *)
(* takes the copy away in between - which holds as long as one process at  *)
(* a time uses the directory, and fails with two (run two_loss).           *)

SoleProcess == \A p, q \in Procs : p = q

MoveSafe ==
  \A p \in Procs :
    op[p].stage = "remove" => file[Dst(op[p].kind)][op[p].cur] # None

(* The steps of moveRecord: the copy appears before the source goes. *)
LEMMA MoveKeeps ==
  ASSUME TypeOK, NoLoss, MoveSafe, SoleProcess, NEW p \in Procs,
         \/ MoveMissing(p) \/ MoveWrite(p) \/ MoveRename(p) \/ RenameMissing(p)
         \/ MoveRemove(p) \/ RemoveMissing(p) \/ WriteFault(p) \/ RemoveFault(p)
  PROVE  NoLoss' /\ MoveSafe'
<1>0. op[p] \in OpType /\ OpOK(op[p]) /\ Procs = {p}
  BY DEF TypeOK, SoleProcess
<1>. DEFINE k == op[p].kind
            e == op[p].cur
<1>1. CASE MoveMissing(p) \/ MoveWrite(p)
  <2>1. op'[p].stage \in {"pick", "rename"}
    BY <1>0, <1>1 DEF MoveMissing, MoveWrite, TypeOK, OpType
  <2>2. MoveSafe'
    BY <1>0, <2>1 DEF MoveSafe
  <2>3. NoLoss'
    BY <1>1 DEF MoveMissing, MoveWrite, NoLoss, OnDisk, history, disk
  <2>. QED  BY <2>2, <2>3
<1>2. CASE \/ RenameMissing(p) \/ RemoveMissing(p) \/ WriteFault(p) \/ RemoveFault(p)
  <2>1. op'[p].stage = "pick"
    BY <1>0, <1>2, DoneType
    DEF RenameMissing, RemoveMissing, WriteFault, RemoveFault, Skip, TypeOK
  <2>2. MoveSafe'
    BY <1>0, <2>1 DEF MoveSafe
  <2>3. NoLoss'
    BY <1>2
    DEF RenameMissing, RemoveMissing, WriteFault, RemoveFault, NoLoss, OnDisk, history, disk
  <2>. QED  BY <2>2, <2>3
<1>3. CASE MoveRename(p)
  <2>1. e \in Events /\ k \in MoveKinds /\ Dst(k) \in Dir
    BY <1>0, <1>3, SrcIsNotDst DEF MoveRename, OpOK
  <2>2. file' = [file EXCEPT ![Dst(k)][e] = tmp[Dst(k)][e]] /\ tmp[Dst(k)][e] # None
    BY <1>3 DEF MoveRename
  <2>3. op'[p].cur = e /\ op'[p].kind = k
    BY <1>0, <1>3 DEF MoveRename, TypeOK, OpType
  <2>4. file'[Dst(k)][e] # None
    BY <2>1, <2>2 DEF TypeOK
  <2>5. MoveSafe'
    BY <1>0, <2>3, <2>4 DEF MoveSafe
  <2>6. \A x \in Events, d \in Dir : file[d][x] # None => file'[d][x] # None
    BY <2>1, <2>2 DEF TypeOK
  <2>7. NoLoss'
    BY <1>3, <2>6 DEF MoveRename, NoLoss, OnDisk, history, TypeOK
  <2>. QED  BY <2>5, <2>7
<1>4. CASE MoveRemove(p)
  <2>1. e \in Events /\ k \in MoveKinds
    BY <1>0, <1>4 DEF MoveRemove, OpOK
  <2>2. Src(k) \in Dir /\ Dst(k) \in Dir /\ Src(k) # Dst(k)
    BY <2>1, SrcIsNotDst
  <2>3. file[Dst(k)][e] # None
    BY <1>4 DEF MoveRemove, MoveSafe
  <2>4. file' = [file EXCEPT ![Src(k)][e] = None]
    BY <1>4 DEF MoveRemove
  <2>5. file'[Dst(k)][e] # None
    BY <2>1, <2>2, <2>3, <2>4 DEF TypeOK
  <2>6. \A x \in Events \ {e}, d \in Dir : file'[d][x] = file[d][x]
    BY <2>1, <2>2, <2>4 DEF TypeOK
  <2>7. \A x \in Events : OnDisk(x) => OnDisk(x)'
    BY <2>1, <2>2, <2>5, <2>6 DEF OnDisk
  <2>8. NoLoss'
    BY <1>4, <2>7 DEF MoveRemove, NoLoss, history, TypeOK
  <2>9. op'[p].stage = "pick"
    BY <1>0, <1>4, <2>1, MovedType DEF MoveRemove, TypeOK
  <2>. QED  BY <1>0, <2>8, <2>9 DEF MoveSafe
<1>. QED  BY <1>1, <1>2, <1>3, <1>4

(* Every other step either leaves the files alone, or stores a fresh event, *)
(* or removes the file of an event it records as acknowledged or pruned.    *)
LEMMA CallKeeps ==
  ASSUME TypeOK, NoLoss, MoveSafe, SoleProcess, NEW p \in Procs,
         \/ Return(p) \/ Open(p) \/ PruneRemove(p) \/ End(p)
         \/ Evicted(p) \/ EnqueueWrite(p) \/ EnqueueRename(p)
         \/ \E e \in Events : Enqueue(p, e)
         \/ \E d, n : Claim(p, d, n)
         \/ \E e \in held[p] : Ack(p, e) \/ AckFault(p, e)
         \/ \E e \in held[p], k \in {"retry", "bury"} : Settle(p, e, k)
         \/ \E c : Prune(p, c)
  PROVE  NoLoss' /\ MoveSafe'
<1>0. op[p] \in OpType /\ OpOK(op[p]) /\ held[p] \in SUBSET Events /\ Procs = {p}
  BY DEF TypeOK, SoleProcess
<1>1. op[p].kind \notin MoveKinds => op[p].stage # "remove"
  BY <1>0 DEF OpOK
<1>2. CASE \/ Return(p) \/ Open(p) \/ End(p) \/ Evicted(p) \/ EnqueueWrite(p)
           \/ \E e \in Events : Enqueue(p, e)
           \/ \E d, n : Claim(p, d, n)
           \/ \E e \in held[p], k \in {"retry", "bury"} : Settle(p, e, k)
           \/ \E c : Prune(p, c)
  <2>1. op'[p].stage \in {"pick", "rename"} \/ op' = op
    <3>1. \A k, S, e, n : Begin(k, S, e, n).stage = "pick"
      BY DEF Begin
    <3>2. CASE Evicted(p) \/ EnqueueWrite(p)
      BY <1>0, <3>2 DEF Evicted, EnqueueWrite, TypeOK, OpType
    <3>3. CASE \E o : o.stage = "pick" /\ op' = [op EXCEPT ![p] = o]
      BY <3>3 DEF TypeOK
    <3>4. CASE Return(p) \/ Open(p) \/ End(p)
      BY <3>1, <3>3, <3>4 DEF Return, Open, End, Idle
    <3>5. CASE \E e \in Events : Enqueue(p, e)
      BY <3>1, <3>5 DEF Enqueue, TypeOK
    <3>6. CASE \E d, n : Claim(p, d, n)
      <4>1. PICK S \in SUBSET Events : op' = [op EXCEPT ![p] = Begin("claim", S, None, 0)]
        BY <3>6 DEF Claim, Listed
      <4>. QED  BY <3>1, <3>3, <4>1
    <3>7. CASE \E e \in held[p], k \in {"retry", "bury"} : Settle(p, e, k)
      <4>1. PICK e \in held[p], k \in {"retry", "bury"} :
              op' = [op EXCEPT ![p] = Begin(k, {e}, None, 0)]
        BY <3>7 DEF Settle
      <4>. QED  BY <3>1, <3>3, <4>1
    <3>8. CASE \E c : Prune(p, c)
      <4>1. PICK S \in SUBSET Events : op' = [op EXCEPT ![p] = Begin("prune", S, None, 0)]
        BY <3>8 DEF Prune, Listed
      <4>. QED  BY <3>1, <3>3, <4>1
    <3>. QED  BY <1>2, <3>2, <3>4, <3>5, <3>6, <3>7, <3>8
  <2>2. UNCHANGED <<file, accepted, acked, pruned>>
    BY <1>2
    DEF Return, Open, End, Evicted, EnqueueWrite, Enqueue, Claim, Settle, Prune,
        disk, history
  <2>. QED  BY <1>0, <2>1, <2>2 DEF NoLoss, OnDisk, MoveSafe
<1>3. CASE PruneRemove(p)
  <2>1. PICK e \in op[p].todo :
          /\ file' = [file EXCEPT !["dead"][e] = None, !["dead_overflow"][e] = None]
          /\ pruned' = pruned \cup {e}
          /\ op' = [op EXCEPT ![p].todo = @ \ {e}]
    BY <1>3 DEF PruneRemove
  <2>2. e \in Events
    BY <1>0 DEF OpType
  <2>3. \A x \in Events \ {e}, d \in Dir : file'[d][x] = file[d][x]
    BY <2>1, <2>2 DEF TypeOK, Dir
  <2>4. NoLoss'
    BY <1>3, <2>1, <2>3 DEF PruneRemove, NoLoss, OnDisk, TypeOK
  <2>5. op'[p].stage # "remove"
    BY <1>0, <1>1, <1>3, <2>1 DEF PruneRemove, MoveKinds, TypeOK, OpType
  <2>. QED  BY <1>0, <2>4, <2>5 DEF MoveSafe
<1>4. CASE EnqueueRename(p)
  <2>1. PICK e \in Events : e = op[p].cur
    BY <1>0, <1>4 DEF EnqueueRename, OpOK
  <2>2. /\ file' = [file EXCEPT !["pending"][e] = tmp["pending"][e]]
        /\ tmp["pending"][e] # None
        /\ accepted' = accepted \cup {e}
    BY <1>4, <2>1 DEF EnqueueRename
  <2>3. OnDisk(e)'
    BY <2>1, <2>2 DEF OnDisk, TypeOK, Dir
  <2>4. \A x \in Events : OnDisk(x) => OnDisk(x)'
    BY <2>1, <2>2 DEF OnDisk, TypeOK, Dir
  <2>5. NoLoss'
    BY <1>4, <2>2, <2>3, <2>4 DEF EnqueueRename, NoLoss, TypeOK
  <2>6. op'[p].stage = "pick"
    BY <1>0, <1>4, DoneType DEF EnqueueRename, Skip, TypeOK
  <2>. QED  BY <1>0, <2>5, <2>6 DEF MoveSafe
<1>5. CASE \E e \in held[p] : Ack(p, e) \/ AckFault(p, e)
  <2>1. PICK e \in held[p] : Ack(p, e) \/ AckFault(p, e)
    BY <1>5
  <2>2. acked' = acked \cup {e} /\ UNCHANGED <<op, accepted, pruned>> /\ op[p].kind = "idle"
    BY <2>1 DEF Ack, AckFault, Free
  <2>3. \A x \in Events \ {e}, d \in Dir : file'[d][x] = file[d][x]
    BY <1>0, <2>1 DEF Ack, AckFault, TypeOK, disk, Dir
  <2>4. NoLoss'
    BY <2>2, <2>3 DEF NoLoss, OnDisk, TypeOK
  <2>5. op'[p].stage # "remove"
    BY <1>1, <2>2 DEF MoveKinds
  <2>. QED  BY <1>0, <2>4, <2>5 DEF MoveSafe
<1>. QED  BY <1>2, <1>3, <1>4, <1>5

(* Time alone removes nothing. *)
LEMMA ElapseKeeps ==
  ASSUME TypeOK, NoLoss, MoveSafe, NEW e \in Events, Elapse(e)
  PROVE  NoLoss' /\ MoveSafe'
<1>1. file["pending"][e] \in Record
  BY DEF Elapse, TypeOK, RecordOrNone, Dir
<1>2. [file["pending"][e] EXCEPT !.due = TRUE] \in Record
  BY <1>1 DEF Record
<1>3. [file["pending"][e] EXCEPT !.due = TRUE] # None
  BY <1>2, NoneIsNothing
<1>4. \A x \in Events, d \in Dir : file[d][x] # None => file'[d][x] # None
  BY <1>3 DEF Elapse, TypeOK, Dir
<1>5. NoLoss'
  BY <1>4 DEF Elapse, NoLoss, OnDisk, history, TypeOK
<1>6. \A p \in Procs : op[p].stage = "remove" => op[p].cur \in Events /\ Dst(op[p].kind) \in Dir
  BY DstInDir DEF TypeOK, OpOK
<1>7. MoveSafe'
  BY <1>4, <1>6 DEF Elapse, MoveSafe
<1>. QED  BY <1>5, <1>7

LossInv == TypeOK /\ NoLoss /\ MoveSafe

(* At the start there is nothing to lose. *)
LEMMA LossInit == Init => LossInv
<1>1. Init => NoLoss /\ MoveSafe
  BY DEF Init, NoLoss, MoveSafe, Idle, Begin
<1>. QED  BY <1>1, InitType DEF LossInv

(* LossInv is inductive, whatever client calls. *)
LEMMA LossStep ==
  ASSUME SoleProcess, LossInv, AnyNext \/ UNCHANGED vars
  PROVE  LossInv'
<1>0. TypeOK /\ NoLoss /\ MoveSafe
  BY DEF LossInv
<1>1. CASE UNCHANGED vars
  BY <1>0, <1>1 DEF vars, LossInv, TypeOK, OpOK, NoLoss, MoveSafe, OnDisk
<1>2. CASE \E e \in Events : Elapse(e)
  BY <1>0, <1>2, ElapseKeeps, ElapseType DEF LossInv
<1>3. ASSUME NEW p \in Procs, Step(p) \/ Return(p) \/ Fault(p) \/ AnyCall(p) \/ End(p)
      PROVE  LossInv'
  <2>1. CASE Step(p)
    BY <1>0, <2>1, MoveKeeps, CallKeeps, NextType DEF Step, AnyNext, LossInv
  <2>2. CASE Return(p) \/ End(p)
    BY <1>0, <2>2, CallKeeps, NextType DEF AnyNext, LossInv
  <2>3. CASE Fault(p)
    BY <1>0, <2>3, MoveKeeps, NextType DEF Fault, AnyNext, LossInv
  <2>4. CASE AnyCall(p)
    BY <1>0, <2>4, CallKeeps, NextType DEF AnyCall, AnyNext, LossInv
  <2>. QED  BY <1>3, <2>1, <2>2, <2>3, <2>4
<1>. QED  BY <1>1, <1>2, <1>3 DEF AnyNext

(* Durable at-least-once, for every number of events and every client: if   *)
(* one process at a time uses the directory, an event that Enqueue put in   *)
(* place is in some directory until it is acknowledged or pruned, through   *)
(* any number of crashes, restarts and I/O errors.                          *)
THEOREM NoLossTheorem ==
  ASSUME SoleProcess
  PROVE  Spec => []NoLoss
<1>1. LossInv /\ [Next]_vars => LossInv'
  BY LossStep, NextIsAny
<1>2. LossInv => NoLoss
  BY DEF LossInv
<1>. QED  BY <1>1, <1>2, LossInit, PTL DEF Spec

-----------------------------------------------------------------------------
(* Who has an event: what a claim takes and what is in inflight.  What     *)
(* makes ExclusiveClaim true is spread over the module: a held event has   *)
(* no file in pending for ClaimPending to find (HeldIsNotPending), because *)
(* the only operations that put a file there work on an event that was     *)
(* given back first, on a fresh one, or run while nothing is held.         *)

\* Ids are fresh: what Enqueue was not called with has left no file.
OnlyAsked ==
  \A d \in Dir, e \in Events : file[d][e] # None \/ tmp[d][e] # None => e \in asked

\* What holds of a process with the operation o and the events H in hand.
InHandOK(p, o, H) ==
  /\ o.out \cap H = {}
  /\ o.out # {} => o.kind = "claim"
  /\ p \notin up => o.kind = "idle"
  /\ p \notin up \/ o.kind = "open" => H = {}
  /\ o.kind = "retry" => o.todo \cap H = {}
  /\ o.kind \in {"retry", "enqueue"} /\ o.stage = "rename" => o.cur \notin H
  /\ o.kind \in {"evict", "enqueue"} => o.new \in asked \ H

HeldIsNotPending ==
  \A p \in Procs : \A e \in held[p] \cup op[p].out :
    file["pending"][e] = None /\ e \in asked

ClaimInv ==
  /\ TypeOK /\ OnlyAsked /\ HeldIsNotPending
  /\ \A p \in Procs : InHandOK(p, op[p], held[p])

-----------------------------------------------------------------------------
(* What the operators on operations do to their fields                     *)

(* An operation starts at its first record, with nothing claimed. *)
LEMMA BeginFields ==
  ASSUME NEW k, NEW S, NEW e, NEW n
  PROVE  /\ Begin(k, S, e, n).kind = k /\ Begin(k, S, e, n).stage = "pick"
         /\ Begin(k, S, e, n).todo = S /\ Begin(k, S, e, n).out = {}
         /\ Begin(k, S, e, n).new = e
BY DEF Begin

(* Dropping a record changes no claim, and only a claim's move adds one. *)
LEMMA DoneFields ==
  ASSUME NEW o \in OpType
  PROVE  /\ Done(o).kind = o.kind /\ Done(o).stage = "pick" /\ Done(o).new = o.new
         /\ Done(o).todo \subseteq o.todo /\ Done(o).out = o.out
BY DEF Done, OpType

(* A completed move changes the claim only when the operation is one. *)
LEMMA MovedFields ==
  ASSUME NEW o \in OpType
  PROVE  /\ Moved(o).kind = o.kind /\ Moved(o).stage = "pick" /\ Moved(o).new = o.new
         /\ Moved(o).todo \subseteq o.todo
         /\ Moved(o).out = IF o.kind = "claim" THEN o.out \cup {o.cur} ELSE o.out
<1>. DEFINE d == Done(o)
            claimed == IF o.kind = "claim" THEN d.out \cup {o.cur} ELSE d.out
            bytes == IF o.kind = "evict" THEN d.freed + Payload[o.cur] ELSE d.freed
<1>1. d \in OpType
  BY DoneType
<1>2. Moved(o) = [d EXCEPT !.out = claimed, !.freed = bytes]
  BY DEF Moved
<1>3. d.kind = o.kind /\ d.stage = "pick" /\ d.new = o.new
      /\ d.todo \subseteq o.todo /\ d.out = o.out
  BY DoneFields
<1>4. claimed = IF o.kind = "claim" THEN o.out \cup {o.cur} ELSE o.out
  BY <1>3
<1>. HIDE DEF d, claimed, bytes
<1>. QED  BY <1>1, <1>2, <1>3, <1>4 DEF OpType

-----------------------------------------------------------------------------
(* The files                                                               *)

(* Only an event that Enqueue was called with ever gets a file, even under *)
(* a temporary name.                                                       *)
LEMMA OnlyAskedKept ==
  ASSUME ClaimInv, NEW p \in Procs,
         Step(p) \/ Return(p) \/ Fault(p) \/ AnyCall(p) \/ End(p)
  PROVE  OnlyAsked'
<1>0. /\ TypeOK /\ OnlyAsked /\ op[p] \in OpType /\ OpOK(op[p])
      /\ InHandOK(p, op[p], held[p]) /\ held[p] \subseteq Events
  BY DEF ClaimInv, TypeOK
<1>1. asked \subseteq asked'
  BY DEF Step, Return, Fault, AnyCall, End, MoveMissing, MoveWrite, MoveRename,
         RenameMissing, MoveRemove, RemoveMissing, Evicted, EnqueueWrite,
         EnqueueRename, PruneRemove, WriteFault, RemoveFault, Open, Enqueue,
         Claim, Ack, AckFault, Settle, Prune, history
<1>2. CASE UNCHANGED disk
  BY <1>0, <1>1, <1>2 DEF OnlyAsked, disk
<1>3. CASE MoveWrite(p)
  <2>1. PICK e \in op[p].todo :
          /\ file[Src(op[p].kind)][e] # None
          /\ tmp' = [tmp EXCEPT ![Dst(op[p].kind)][e] =
                       Revised(op[p].kind, file[Src(op[p].kind)][e])]
    BY <1>3 DEF MoveWrite
  <2>2. e \in Events /\ op[p].kind \in MoveKinds
    BY <1>0, <1>3 DEF MoveWrite, OpType
  <2>3. e \in asked
    BY <1>0, <2>1, <2>2, SrcIsNotDst DEF OnlyAsked
  <2>4. \A d \in Dir, x \in Events \ {e} : tmp'[d][x] = tmp[d][x]
    BY <1>0, <2>1, <2>2, DstInDir DEF TypeOK
  <2>. QED  BY <1>0, <1>3, <2>3, <2>4 DEF MoveWrite, OnlyAsked, history
<1>4. CASE MoveRename(p) \/ EnqueueRename(p)
  <2>1. PICK d \in Dir, e \in Events :
          /\ tmp[d][e] # None
          /\ file' = [file EXCEPT ![d][e] = tmp[d][e]]
          /\ tmp' = [tmp EXCEPT ![d][e] = None]
    BY <1>0, <1>4, DstInDir DEF MoveRename, EnqueueRename, OpOK, Dir
  <2>2. e \in asked
    BY <1>0, <2>1 DEF OnlyAsked
  <2>3. \A c \in Dir, x \in Events \ {e} : tmp'[c][x] = tmp[c][x] /\ file'[c][x] = file[c][x]
    BY <1>0, <2>1 DEF TypeOK
  <2>. QED  BY <1>0, <1>1, <2>2, <2>3 DEF OnlyAsked
<1>5. CASE MoveRemove(p) \/ PruneRemove(p) \/ \E e \in held[p] : Ack(p, e)
  <2>1. tmp' = tmp
    BY <1>5 DEF MoveRemove, PruneRemove, Ack
  <2>2. \A d \in Dir, x \in Events : file'[d][x] = file[d][x] \/ file'[d][x] = None
    <3>1. CASE MoveRemove(p)
      <4>1. op[p].cur \in Events /\ op[p].kind \in MoveKinds
        BY <1>0, <3>1 DEF MoveRemove, OpOK
      <4>. QED  BY <1>0, <3>1, <4>1, SrcIsNotDst DEF MoveRemove, TypeOK
    <3>2. CASE PruneRemove(p)
      <4>1. PICK e \in Events :
              file' = [file EXCEPT !["dead"][e] = None, !["dead_overflow"][e] = None]
        BY <1>0, <3>2 DEF PruneRemove, OpType
      <4>. QED  BY <1>0, <4>1 DEF TypeOK, Dir
    <3>3. CASE \E e \in held[p] : Ack(p, e)
      BY <1>0, <3>3 DEF Ack, TypeOK, Dir
    <3>. QED  BY <1>5, <3>1, <3>2, <3>3
  <2>. QED  BY <1>0, <1>1, <2>1, <2>2 DEF OnlyAsked
<1>6. CASE WriteFault(p)
  <2>1. op[p].cur \in Events
    BY <1>0, <1>6 DEF WriteFault, OpOK
  <2>2. \A d \in Dir, x \in Events : tmp'[d][x] = tmp[d][x] \/ tmp'[d][x] = None
    BY <1>0, <1>6, <2>1, DstInDir DEF WriteFault, TypeOK
  <2>. QED  BY <1>0, <1>1, <1>6, <2>2 DEF WriteFault, OnlyAsked
<1>7. CASE EnqueueWrite(p)
  <2>1. op[p].new \in Events /\ op[p].new \in asked
    BY <1>0, <1>7 DEF EnqueueWrite, OpOK, InHandOK
  <2>2. \A d \in Dir, x \in Events \ {op[p].new} : tmp'[d][x] = tmp[d][x]
    BY <1>0, <1>7, <2>1 DEF EnqueueWrite, TypeOK, Dir
  <2>. QED  BY <1>0, <1>1, <1>7, <2>1, <2>2 DEF EnqueueWrite, OnlyAsked
<1>. QED
  <2>1. \/ UNCHANGED disk \/ MoveWrite(p) \/ MoveRename(p) \/ EnqueueRename(p)
        \/ MoveRemove(p) \/ PruneRemove(p) \/ WriteFault(p) \/ EnqueueWrite(p)
        \/ \E e \in held[p] : Ack(p, e)
    BY DEF Step, Return, Fault, AnyCall, End, MoveMissing, RenameMissing,
           RemoveMissing, Evicted, RemoveFault, Open, Enqueue,
           Claim, AckFault, Settle, Prune
  <2>. QED  BY <2>1, <1>2, <1>3, <1>4, <1>5, <1>6, <1>7

-----------------------------------------------------------------------------
(* The operation in progress                                               *)

(* An operation that stays the same kind, about the same new event, and    *)
(* only forgets records, stays consistent with what its process holds - if *)
(* the record it turns to is not in hand.                                  *)
LEMMA SameOperation ==
  ASSUME ClaimInv, NEW p \in Procs, UNCHANGED <<up, held, asked>>,
         op'[p].kind = op[p].kind, op'[p].new = op[p].new, op'[p].out = op[p].out,
         op'[p].todo \subseteq op[p].todo,
         op[p].kind \in {"retry", "enqueue"} /\ op'[p].stage = "rename" =>
           op'[p].cur \notin held[p]
  PROVE  InHandOK(p, op[p], held[p])'
BY DEF ClaimInv, InHandOK

(* Inside an operation, and when it ends or gives up.                      *)
LEMMA StepInHand ==
  ASSUME ClaimInv, NEW p \in Procs, Step(p) \/ Fault(p) \/ Return(p)
  PROVE  InHandOK(p, op[p], held[p])'
<1>0. /\ TypeOK /\ op[p] \in OpType /\ OpOK(op[p]) /\ InHandOK(p, op[p], held[p])
      /\ op \in [Procs -> OpType] /\ held \in [Procs -> SUBSET Events]
  BY DEF ClaimInv, TypeOK
<1>1. CASE MoveMissing(p) \/ PruneRemove(p)
  <2>1. PICK e \in op[p].todo : op' = [op EXCEPT ![p].todo = @ \ {e}]
    BY <1>1 DEF MoveMissing, PruneRemove
  <2>2. /\ op'[p].kind = op[p].kind /\ op'[p].new = op[p].new /\ op'[p].out = op[p].out
        /\ op'[p].todo \subseteq op[p].todo
        /\ op'[p].stage = op[p].stage /\ op'[p].cur = op[p].cur
    BY <1>0, <2>1 DEF OpType
  <2>3. UNCHANGED <<up, held, asked>>
    BY <1>1 DEF MoveMissing, PruneRemove, history
  <2>4. op[p].kind \in {"retry", "enqueue"} /\ op'[p].stage = "rename" =>
          op'[p].cur \notin held[p]
    BY <1>0, <2>2 DEF InHandOK
  <2>. QED  BY <2>2, <2>3, <2>4, SameOperation
<1>2. CASE MoveWrite(p)
  <2>1. PICK e \in op[p].todo :
          op' = [op EXCEPT ![p].stage = "rename", ![p].cur = e]
    BY <1>2 DEF MoveWrite
  <2>2. /\ op'[p].kind = op[p].kind /\ op'[p].new = op[p].new /\ op'[p].out = op[p].out
        /\ op'[p].todo = op[p].todo /\ op'[p].cur = e
    BY <1>0, <2>1 DEF OpType
  <2>3. UNCHANGED <<up, held, asked>> /\ op[p].kind # "enqueue"
    BY <1>2 DEF MoveWrite, MoveKinds, history
  <2>4. op[p].kind \in {"retry", "enqueue"} => op'[p].cur \notin held[p]
    BY <1>0, <2>1, <2>2, <2>3 DEF InHandOK
  <2>. QED  BY <2>2, <2>3, <2>4, SameOperation
<1>3. CASE MoveRename(p)
  <2>1. /\ op'[p].kind = op[p].kind /\ op'[p].new = op[p].new /\ op'[p].out = op[p].out
        /\ op'[p].todo = op[p].todo /\ op'[p].stage = "remove"
    BY <1>0, <1>3 DEF MoveRename, OpType
  <2>2. UNCHANGED <<up, held, asked>>
    BY <1>3 DEF MoveRename, history
  <2>. QED  BY <2>1, <2>2, SameOperation
<1>4. CASE \/ RenameMissing(p) \/ RemoveMissing(p) \/ WriteFault(p) \/ RemoveFault(p)
           \/ EnqueueRename(p)
  <2>1. op'[p] = Done(op[p])
    BY <1>0, <1>4 DEF RenameMissing, RemoveMissing, WriteFault, RemoveFault,
                      EnqueueRename, Skip
  <2>2. UNCHANGED <<up, held, asked>>
    BY <1>4 DEF RenameMissing, RemoveMissing, WriteFault, RemoveFault,
                EnqueueRename, history
  <2>3. op'[p].stage = "pick" /\ op'[p].kind = op[p].kind /\ op'[p].new = op[p].new
        /\ op'[p].out = op[p].out /\ op'[p].todo \subseteq op[p].todo
    BY <1>0, <2>1, DoneFields
  <2>. QED  BY <2>2, <2>3, SameOperation
<1>5. CASE MoveRemove(p)
  <2>1. op'[p] = Moved(op[p]) /\ file[Src(op[p].kind)][op[p].cur] # None
    BY <1>0, <1>5 DEF MoveRemove
  <2>2. /\ op'[p].kind = op[p].kind /\ op'[p].stage = "pick" /\ op'[p].new = op[p].new
        /\ op'[p].todo \subseteq op[p].todo
        /\ op'[p].out = IF op[p].kind = "claim" THEN op[p].out \cup {op[p].cur} ELSE op[p].out
    BY <1>0, <2>1, MovedFields
  <2>3. UNCHANGED <<up, held, asked>>
    BY <1>5 DEF MoveRemove, history
  <2>4. op[p].kind = "claim" => op[p].cur \notin held[p]
    BY <2>1 DEF Src, ClaimInv, HeldIsNotPending
  <2>. QED  BY <1>0, <2>2, <2>3, <2>4 DEF InHandOK
<1>6. CASE Evicted(p)
  <2>1. op[p].kind = "evict" /\ UNCHANGED <<up, held, asked>>
    BY <1>6 DEF Evicted, history
  <2>2. /\ op'[p].kind = "enqueue" /\ op'[p].new = op[p].new /\ op'[p].out = op[p].out
        /\ op'[p].stage = "pick"
    BY <1>0, <1>6 DEF Evicted, OpType
  <2>. QED  BY <1>0, <2>1, <2>2 DEF InHandOK
<1>7. CASE EnqueueWrite(p)
  <2>1. /\ op[p].kind = "enqueue" /\ UNCHANGED <<up, held, asked>>
        /\ op' = [op EXCEPT ![p].stage = "rename", ![p].cur = op[p].new]
    BY <1>7 DEF EnqueueWrite, history
  <2>2. /\ op'[p].kind = op[p].kind /\ op'[p].new = op[p].new /\ op'[p].out = op[p].out
        /\ op'[p].todo = op[p].todo /\ op'[p].cur = op[p].new
    BY <1>0, <2>1 DEF OpType
  <2>3. op'[p].cur \notin held[p]
    BY <1>0, <2>1, <2>2 DEF InHandOK
  <2>. QED  BY <2>1, <2>2, <2>3, SameOperation
<1>8. CASE Return(p)
  <2>1. op'[p] = Idle /\ op[p].kind # "idle" /\ UNCHANGED <<up, asked>>
    BY <1>0, <1>8 DEF Return, history
  <2>2. p \in up
    BY <1>0, <2>1 DEF InHandOK
  <2>3. op'[p].kind = "idle" /\ op'[p].out = {}
    BY <2>1, BeginFields DEF Idle
  <2>. QED  BY <2>1, <2>2, <2>3 DEF InHandOK
<1>. QED
  BY <1>1, <1>2, <1>3, <1>4, <1>5, <1>6, <1>7, <1>8 DEF Step, Fault

(* A new call starts with nothing claimed, gives back what it settles, and *)
(* stores only an id that nobody can hold; a process that ends holds       *)
(* nothing.                                                                *)
LEMMA CallInHand ==
  ASSUME ClaimInv, NEW p \in Procs, AnyCall(p) \/ End(p)
  PROVE  InHandOK(p, op[p], held[p])'
<1>0. /\ TypeOK /\ InHandOK(p, op[p], held[p])
      /\ op \in [Procs -> OpType] /\ held \in [Procs -> SUBSET Events]
  BY DEF ClaimInv, TypeOK
<1>1. CASE Open(p)
  <2>1. op'[p] = Begin("open", Listed("inflight"), None, 0) /\ held'[p] = {}
    BY <1>0, <1>1 DEF Open, InHandOK
  <2>2. op'[p].kind = "open" /\ op'[p].out = {} /\ p \in up'
    BY <1>1, <2>1, BeginFields DEF Open
  <2>. QED  BY <2>1, <2>2 DEF InHandOK
<1>2. CASE \E e \in Events : Enqueue(p, e)
  <2>1. PICK e \in Events : Enqueue(p, e)
    BY <1>2
  <2>2. /\ p \in up /\ up' = up /\ held' = held /\ e \in asked' /\ asked \subseteq asked'
        /\ e \notin held[p]
    BY <2>1 DEF Enqueue, Free, ClaimInv, HeldIsNotPending
  <2>3. CASE op' = op
    BY <1>0, <2>2, <2>3 DEF InHandOK
  <2>4. CASE \E k \in {"evict", "enqueue"} : \E S : op' = [op EXCEPT ![p] = Begin(k, S, e, TotalBytes)]
    <3>0. PICK k \in {"evict", "enqueue"} :
            \E S : op' = [op EXCEPT ![p] = Begin(k, S, e, TotalBytes)]
      BY <2>4
    <3>1. PICK S : op' = [op EXCEPT ![p] = Begin(k, S, e, TotalBytes)]
      BY <3>0
    <3>2. op'[p] = Begin(k, S, e, TotalBytes)
      BY <1>0, <3>1
    <3>3. op'[p].kind = k /\ op'[p].out = {} /\ op'[p].new = e /\ op'[p].stage = "pick"
      BY <3>2, BeginFields
    <3>. QED  BY <2>2, <3>3 DEF InHandOK
  <2>. QED  BY <2>1, <2>3, <2>4 DEF Enqueue
<1>3. CASE \/ \E d, n : Claim(p, d, n)
           \/ \E c : Prune(p, c)
  <2>1. \E k \in {"claim", "prune"} : \E S : op' = [op EXCEPT ![p] = Begin(k, S, None, 0)]
    BY <1>3 DEF Claim, Prune
  <2>2. PICK k \in {"claim", "prune"} : \E S : op' = [op EXCEPT ![p] = Begin(k, S, None, 0)]
    BY <2>1
  <2>2s. PICK S : op' = [op EXCEPT ![p] = Begin(k, S, None, 0)]
    BY <2>2
  <2>3. op'[p].kind = k /\ op'[p].out = {}
    BY <1>0, <2>2, <2>2s, BeginFields
  <2>4. p \in up /\ UNCHANGED <<up, held>>
    BY <1>3 DEF Claim, Prune, Free
  <2>. QED  BY <2>3, <2>4 DEF InHandOK
<1>4. CASE \E e \in held[p] : Ack(p, e) \/ AckFault(p, e)
  <2>1. /\ op' = op /\ up' = up /\ p \in up /\ op[p].kind = "idle"
        /\ held'[p] \subseteq held[p]
    BY <1>0, <1>4 DEF Ack, AckFault, Free
  <2>. QED  BY <1>0, <2>1 DEF InHandOK
<1>5. CASE \E e \in held[p], k \in {"bury", "retry"} : Settle(p, e, k)
  <2>1. PICK e \in held[p], k \in {"bury", "retry"} : Settle(p, e, k)
    BY <1>5
  <2>2. op'[p] = Begin(k, {e}, None, 0) /\ held'[p] = held[p] \ {e} /\ p \in up /\ up' = up
    BY <1>0, <2>1 DEF Settle, Free
  <2>3. op'[p].kind = k /\ op'[p].out = {} /\ op'[p].todo = {e} /\ op'[p].stage = "pick"
    BY <2>2, BeginFields
  <2>. QED  BY <2>2, <2>3 DEF InHandOK
<1>6. CASE End(p)
  <2>1. op'[p] = Idle /\ held'[p] = {}
    BY <1>0, <1>6 DEF End
  <2>2. op'[p].kind = "idle" /\ op'[p].out = {}
    BY <2>1, BeginFields DEF Idle
  <2>. QED  BY <2>1, <2>2 DEF InHandOK
<1>. QED  BY <1>1, <1>2, <1>3, <1>4, <1>5, <1>6 DEF AnyCall

-----------------------------------------------------------------------------
(* What a client holds is not in pending                                   *)

(* What is in hand or claimed grows only by the claim's own move, and what *)
(* has been asked for stays asked for.                                     *)
LEMMA InHandGrows ==
  ASSUME ClaimInv, NEW p \in Procs, ~MoveRemove(p),
         Step(p) \/ Return(p) \/ Fault(p) \/ AnyCall(p) \/ End(p)
  PROVE  held'[p] \cup op'[p].out \subseteq held[p] \cup op[p].out
<1>0. /\ op[p] \in OpType /\ op \in [Procs -> OpType] /\ held \in [Procs -> SUBSET Events]
  BY DEF ClaimInv, TypeOK
<1>1. CASE Step(p) \/ Fault(p)
  <2>1. held' = held
    BY <1>1 DEF Step, Fault, MoveMissing, MoveWrite, MoveRename, RenameMissing,
                MoveRemove, RemoveMissing, Evicted, EnqueueWrite, EnqueueRename,
                PruneRemove, WriteFault, RemoveFault
  <2>2. op'[p].out = op[p].out
    <3>1. CASE \/ RenameMissing(p) \/ RemoveMissing(p) \/ WriteFault(p) \/ RemoveFault(p)
               \/ EnqueueRename(p)
      BY <1>0, <3>1, DoneFields
      DEF RenameMissing, RemoveMissing, WriteFault, RemoveFault, EnqueueRename, Skip
    <3>2. CASE \/ MoveMissing(p) \/ MoveWrite(p) \/ MoveRename(p) \/ Evicted(p)
               \/ EnqueueWrite(p) \/ PruneRemove(p)
      BY <1>0, <3>2
      DEF MoveMissing, MoveWrite, MoveRename, Evicted, EnqueueWrite, PruneRemove, OpType
    <3>. QED  BY <1>1, <3>1, <3>2 DEF Step, Fault
  <2>. QED  BY <2>1, <2>2
<1>2. CASE Return(p) \/ End(p)
  BY <1>0, <1>2, BeginFields DEF Return, End, Idle
<1>3. CASE AnyCall(p)
  <2>1. held'[p] \subseteq held[p]
    BY <1>0, <1>3 DEF AnyCall, Open, Enqueue, Claim, Ack, AckFault, Settle, Prune
  <2>2. op' = op \/ \E k, S, e, n : op' = [op EXCEPT ![p] = Begin(k, S, e, n)]
    BY <1>3 DEF AnyCall, Open, Enqueue, Claim, Ack, AckFault, Settle, Prune
  <2>3. op'[p].out \subseteq op[p].out
    <3>1. CASE \E k, S, e, n : op' = [op EXCEPT ![p] = Begin(k, S, e, n)]
      <4>1. PICK k, S, e, n : op' = [op EXCEPT ![p] = Begin(k, S, e, n)]
        BY <3>1
      <4>2. op'[p] = Begin(k, S, e, n)
        BY <1>0, <4>1
      <4>. QED  BY <4>2, BeginFields
    <3>. QED  BY <2>2, <3>1
  <2>. QED  BY <2>1, <2>3
<1>. QED  BY <1>1, <1>2, <1>3

(* A file appears in pending only for an event that is in no one's hands.  *)
LEMMA PendingIsNotHeld ==
  ASSUME ClaimInv, NEW p \in Procs, NEW e \in held[p] \cup op[p].out,
         Step(p) \/ Return(p) \/ Fault(p) \/ AnyCall(p) \/ End(p)
  PROVE  file'["pending"][e] = None
<1>0. /\ TypeOK /\ op[p] \in OpType /\ OpOK(op[p]) /\ InHandOK(p, op[p], held[p])
      /\ e \in Events /\ file["pending"][e] = None
  BY DEF ClaimInv, TypeOK, OpType, HeldIsNotPending
<1>1. CASE file' = file
  BY <1>0, <1>1
<1>2. CASE MoveRename(p)
  <2>1. op[p].cur \in Events /\ op[p].kind \in MoveKinds /\ Dst(op[p].kind) \in Dir
    BY <1>0, <1>2, DstInDir DEF MoveRename, OpOK
  <2>2. file' = [file EXCEPT ![Dst(op[p].kind)][op[p].cur] = tmp[Dst(op[p].kind)][op[p].cur]]
    BY <1>2 DEF MoveRename
  <2>3. CASE op[p].kind \in {"open", "retry"}
    <3>1. e # op[p].cur
      BY <1>0, <1>2, <2>3 DEF InHandOK, MoveRename
    <3>. QED  BY <1>0, <2>1, <2>2, <3>1 DEF TypeOK
  <2>4. CASE op[p].kind \notin {"open", "retry"}
    <3>1. Dst(op[p].kind) # "pending"
      BY <2>1, <2>4 DEF Dst, MoveKinds
    <3>. QED  BY <1>0, <2>1, <2>2, <3>1 DEF TypeOK
  <2>. QED  BY <2>3, <2>4
<1>3. CASE EnqueueRename(p)
  <2>1. op[p].cur \in Events /\ e # op[p].cur
    BY <1>0, <1>3 DEF EnqueueRename, OpOK, InHandOK
  <2>. QED  BY <1>0, <1>3, <2>1 DEF EnqueueRename, TypeOK, Dir
<1>4. CASE MoveRemove(p)
  <2>1. op[p].cur \in Events /\ op[p].kind \in MoveKinds
    BY <1>0, <1>4 DEF MoveRemove, OpOK
  <2>. QED  BY <1>0, <1>4, <2>1, SrcIsNotDst DEF MoveRemove, TypeOK, Dir
<1>5. CASE PruneRemove(p)
  <2>1. PICK x \in Events :
          file' = [file EXCEPT !["dead"][x] = None, !["dead_overflow"][x] = None]
    BY <1>0, <1>5 DEF PruneRemove, OpType
  <2>. QED  BY <1>0, <2>1 DEF TypeOK, Dir
<1>6. CASE \E x \in held[p] : Ack(p, x)
  BY <1>0, <1>6 DEF Ack, TypeOK, Dir
<1>. QED
  <2>1. \/ file' = file \/ MoveRename(p) \/ EnqueueRename(p) \/ MoveRemove(p)
        \/ PruneRemove(p) \/ \E x \in held[p] : Ack(p, x)
    BY DEF Step, Return, Fault, AnyCall, End, MoveMissing, MoveWrite, RenameMissing,
           RemoveMissing, Evicted, EnqueueWrite, WriteFault, RemoveFault, Open,
           Enqueue, Claim, AckFault, Settle, Prune, disk
  <2>. QED  BY <1>1, <1>2, <1>3, <1>4, <1>5, <1>6, <2>1

(* What the claim's move adds has just left pending.                       *)
LEMMA HeldKept ==
  ASSUME ClaimInv, SoleProcess, NEW p \in Procs,
         Step(p) \/ Return(p) \/ Fault(p) \/ AnyCall(p) \/ End(p)
  PROVE  HeldIsNotPending'
<1>0. /\ TypeOK /\ op[p] \in OpType /\ OpOK(op[p]) /\ Procs = {p} /\ OnlyAsked
      /\ op \in [Procs -> OpType] /\ held[p] \subseteq Events
  BY DEF ClaimInv, TypeOK, SoleProcess
<1>1. asked \subseteq asked'
  BY DEF Step, Return, Fault, AnyCall, End, MoveMissing, MoveWrite, MoveRename,
         RenameMissing, MoveRemove, RemoveMissing, Evicted, EnqueueWrite,
         EnqueueRename, PruneRemove, WriteFault, RemoveFault, Open, Enqueue,
         Claim, Ack, AckFault, Settle, Prune, history
<1>2. \A e \in held[p] \cup op[p].out : file'["pending"][e] = None /\ e \in asked'
  BY <1>1, PendingIsNotHeld DEF ClaimInv, HeldIsNotPending
<1>3. CASE ~MoveRemove(p)
  BY <1>0, <1>2, <1>3, InHandGrows DEF HeldIsNotPending
<1>4. CASE MoveRemove(p)
  <2>1. held' = held /\ op'[p] = Moved(op[p])
    BY <1>0, <1>4 DEF MoveRemove
  <2>2. op'[p].out = IF op[p].kind = "claim" THEN op[p].out \cup {op[p].cur} ELSE op[p].out
    BY <1>0, <2>1, MovedFields
  <2>3. CASE op[p].kind # "claim"
    BY <1>0, <1>2, <2>1, <2>2, <2>3 DEF HeldIsNotPending
  <2>4. CASE op[p].kind = "claim"
    <3>1. /\ op[p].cur \in Events /\ file["pending"][op[p].cur] # None
          /\ file' = [file EXCEPT !["pending"][op[p].cur] = None]
      BY <1>0, <1>4, <2>4 DEF MoveRemove, Src, OpOK
    <3>2. file'["pending"][op[p].cur] = None /\ op[p].cur \in asked'
      BY <1>0, <1>1, <3>1 DEF TypeOK, OnlyAsked, Dir
    <3>. QED  BY <1>0, <1>2, <2>1, <2>2, <2>4, <3>2 DEF HeldIsNotPending
  <2>. QED  BY <2>3, <2>4
<1>. QED  BY <1>3, <1>4

-----------------------------------------------------------------------------

(* A delay that runs out puts no file in place.                            *)
LEMMA ElapseClaims ==
  ASSUME ClaimInv, NEW x \in Events, Elapse(x)
  PROVE  ClaimInv'
<1>1. TypeOK'
  BY ElapseType DEF ClaimInv
<1>2. \A d \in Dir, e \in Events : file'[d][e] # None => file[d][e] # None
  BY DEF Elapse, ClaimInv, TypeOK, Dir
<1>3. UNCHANGED <<tmp, up, op, held, asked>>
  BY DEF Elapse, history
<1>4. OnlyAsked'
  BY <1>2, <1>3 DEF ClaimInv, OnlyAsked
<1>5. \A p \in Procs : held[p] \cup op[p].out \subseteq Events
  BY DEF ClaimInv, TypeOK, OpType
<1>6. HeldIsNotPending'
  BY <1>2, <1>3, <1>5 DEF ClaimInv, HeldIsNotPending, Dir
<1>. QED  BY <1>1, <1>3, <1>4, <1>6 DEF ClaimInv, InHandOK

(* ClaimInv is inductive, whatever client calls.                           *)
LEMMA ClaimStep ==
  ASSUME SoleProcess, ClaimInv, AnyNext \/ UNCHANGED vars
  PROVE  ClaimInv'
<1>1. CASE UNCHANGED vars
  BY <1>1 DEF vars, ClaimInv, TypeOK, OpOK, OnlyAsked, HeldIsNotPending, InHandOK
<1>2. CASE \E e \in Events : Elapse(e)
  BY <1>2, ElapseClaims
<1>3. ASSUME NEW p \in Procs, Step(p) \/ Return(p) \/ Fault(p) \/ AnyCall(p) \/ End(p)
      PROVE  ClaimInv'
  <2>1. TypeOK'
    BY <1>3, NextType DEF ClaimInv, AnyNext
  <2>2. OnlyAsked' /\ HeldIsNotPending'
    BY <1>3, OnlyAskedKept, HeldKept
  <2>3. InHandOK(p, op[p], held[p])'
    BY <1>3, StepInHand, CallInHand
  <2>4. \A q \in Procs : InHandOK(q, op[q], held[q])'
    BY <2>3 DEF SoleProcess
  <2>. QED  BY <2>1, <2>2, <2>4 DEF ClaimInv
<1>. QED  BY <1>1, <1>2, <1>3 DEF AnyNext

(* At the start nothing is claimed.                                        *)
LEMMA ClaimInit == Init => ClaimInv
<1>. SUFFICES ASSUME Init PROVE ClaimInv
  OBVIOUS
<1>1. \A p \in Procs : op[p] = Idle /\ held[p] = {} /\ Idle.kind = "idle" /\ Idle.out = {}
  BY BeginFields DEF Init, Idle
<1>2. TypeOK
  BY InitType
<1>3. OnlyAsked
  BY DEF Init, OnlyAsked
<1>. QED  BY <1>1, <1>2, <1>3 DEF ClaimInv, HeldIsNotPending, InHandOK

(* ClaimInv is an invariant.                                               *)
LEMMA ClaimInvariant ==
  ASSUME SoleProcess
  PROVE  Spec => []ClaimInv
<1>1. ClaimInv /\ [Next]_vars => ClaimInv'
  BY ClaimStep, NextIsAny
<1>. QED  BY <1>1, ClaimInit, PTL DEF Spec

(* One claim at a time, for every number of events and every client: when  *)
(* one process at a time uses the directory, no id a running ClaimPending  *)
(* has taken is in the client's hands, through crashes, restarts and I/O   *)
(* errors.                                                                 *)
THEOREM ExclusiveClaimTheorem ==
  ASSUME SoleProcess
  PROVE  Spec => []ExclusiveClaim
<1>1. ClaimInv => ExclusiveClaim
  BY DEF ClaimInv, InHandOK, ExclusiveClaim, SoleProcess
<1>. QED  BY <1>1, ClaimInvariant, PTL

-----------------------------------------------------------------------------
(* What is in inflight                                                     *)

\* What an operation may find in inflight, or leave there, without a holder.
Underway(o) ==
  {e \in o.todo : o.kind \in {"open", "retry", "bury"}}
    \cup {e \in {o.cur} : o.kind = "claim" /\ o.stage = "remove"}

\* Without I/O errors, what lies in inflight is held or about to be, and an
\* operation finds the files that its earlier calls left.
Attended(p) ==
  /\ Listed("inflight") \subseteq held[p] \cup op[p].out \cup Underway(op[p])
  /\ op[p].stage = "rename" =>
       /\ tmp[Dst(op[p].kind)][op[p].cur] # None
       /\ op[p].kind \in MoveKinds => file[Src(op[p].kind)][op[p].cur] # None
  /\ op[p].stage = "remove" => file[Src(op[p].kind)][op[p].cur] # None

AllAttended == faults = 0 => \A p \in up : Attended(p)

(* moveRecord, and the loop around it.                                     *)
LEMMA AttendedMove ==
  ASSUME ClaimInv, NEW p \in Procs, Attended(p),
         \/ MoveMissing(p) \/ MoveWrite(p) \/ MoveRename(p) \/ RenameMissing(p)
         \/ MoveRemove(p) \/ RemoveMissing(p)
  PROVE  Attended(p)'
<1>. DEFINE o == op[p]
            k == o.kind
<1>0. /\ TypeOK /\ o \in OpType /\ OpOK(o) /\ op \in [Procs -> OpType]
      /\ \A d \in Dir : DOMAIN file[d] = Events /\ DOMAIN tmp[d] = Events
      /\ DOMAIN file = Dir /\ DOMAIN tmp = Dir /\ InHandOK(p, o, held[p])
  BY DEF ClaimInv, TypeOK
<1>1. CASE MoveMissing(p)
  <2>1. PICK e \in o.todo : file[Src(k)][e] = None /\ op' = [op EXCEPT ![p].todo = @ \ {e}]
    BY <1>1 DEF MoveMissing
  <2>2. /\ op'[p].kind = k /\ op'[p].stage = "pick" /\ op'[p].out = o.out
        /\ op'[p].todo = o.todo \ {e} /\ o.stage = "pick"
    BY <1>0, <1>1, <2>1 DEF OpType, MoveMissing
  <2>3. Listed("inflight")' = Listed("inflight") /\ held' = held
    BY <1>1 DEF MoveMissing, Listed, disk
  <2>4. k \in {"open", "retry", "bury"} => e \notin Listed("inflight")
    BY <2>1 DEF Src, Listed
  <2>. QED  BY <2>2, <2>3, <2>4 DEF Attended, Underway
<1>2. CASE MoveWrite(p)
  <2>1. PICK e \in o.todo :
          /\ file[Src(k)][e] # None
          /\ tmp' = [tmp EXCEPT ![Dst(k)][e] = Revised(k, file[Src(k)][e])]
          /\ op' = [op EXCEPT ![p].stage = "rename", ![p].cur = e]
    BY <1>2 DEF MoveWrite
  <2>2. /\ op'[p].kind = k /\ op'[p].stage = "rename" /\ op'[p].out = o.out
        /\ op'[p].todo = o.todo /\ op'[p].cur = e /\ o.stage = "pick" /\ e \in Events /\ k \in MoveKinds
    BY <1>0, <1>2, <2>1 DEF OpType, MoveWrite
  <2>3. file' = file /\ held' = held
    BY <1>2 DEF MoveWrite
  <2>4. tmp'[Dst(k)][e] # None
    <3>1. Src(k) \in Dir /\ Dst(k) \in Dir
      BY <2>2, SrcIsNotDst, DstInDir
    <3>2. file[Src(k)][e] \in Record
      BY <1>0, <2>1, <2>2, <3>1 DEF TypeOK, RecordOrNone
    <3>3. Revised(k, file[Src(k)][e]) # None
      BY <3>2, RevisedType, NoneIsNothing
    <3>. QED  BY <1>0, <2>1, <2>2, <3>1, <3>3
  <2>. QED  BY <2>1, <2>2, <2>3, <2>4 DEF Attended, Underway, Listed
<1>3. CASE MoveRename(p)
  <2>. DEFINE d == Dst(k)
              e == o.cur
  <2>1. /\ file' = [file EXCEPT ![d][e] = tmp[d][e]]
        /\ op' = [op EXCEPT ![p].stage = "remove"] /\ held' = held /\ o.stage = "rename" /\ k \in MoveKinds
    BY <1>3 DEF MoveRename
  <2>2. /\ op'[p].kind = k /\ op'[p].stage = "remove" /\ op'[p].out = o.out
        /\ op'[p].todo = o.todo /\ op'[p].cur = e /\ e \in Events
    BY <1>0, <2>1 DEF OpType, OpOK
  <2>3. Src(k) \in Dir /\ d \in Dir /\ Src(k) # d
    BY <2>1, SrcIsNotDst, DstInDir
  <2>4. file'[Src(k)] = file[Src(k)]
    BY <1>0, <2>1, <2>3
  <2>5. CASE d # "inflight"
    <3>1. file'["inflight"] = file["inflight"]
      BY <1>0, <2>1, <2>3, <2>5 DEF Dir
    <3>. QED  BY <2>1, <2>2, <2>4, <3>1 DEF Attended, Underway, Listed
  <2>6. CASE d = "inflight"
    <3>1. k = "claim"
      BY <2>1, <2>6 DEF Dst, MoveKinds
    <3>2. Listed("inflight")' \subseteq Listed("inflight") \cup {e}
      BY <1>0, <2>1, <2>2, <2>3, <2>6 DEF Listed
    <3>. QED  BY <2>1, <2>2, <2>4, <3>1, <3>2 DEF Attended, Underway
  <2>. QED  BY <2>5, <2>6
<1>4. CASE RenameMissing(p) \/ RemoveMissing(p)
  BY <1>4 DEF RenameMissing, RemoveMissing, Attended
<1>5. CASE MoveRemove(p)
  <2>. DEFINE e == o.cur
  <2>1. /\ file' = [file EXCEPT ![Src(k)][e] = None] /\ op'[p] = Moved(o)
        /\ held' = held /\ o.stage = "remove" /\ k \in MoveKinds /\ e \in Events /\ Src(k) \in Dir
    BY <1>0, <1>5, SrcIsNotDst DEF MoveRemove, OpOK
  <2>2. /\ op'[p].kind = k /\ op'[p].stage = "pick"
        /\ op'[p].out = IF k = "claim" THEN o.out \cup {e} ELSE o.out
    BY <1>0, <2>1, MovedFields
  <2>3. op'[p].todo = o.todo \ {e}
    <3>1. Done(o).todo = o.todo \ {e} /\ Done(o) \in OpType
      BY <1>0, DoneType DEF Done, OpType
    <3>. QED  BY <2>1, <3>1 DEF Moved, OpType
  <2>4. CASE k \in {"claim", "evict"}
    <3>1. file'["inflight"] = file["inflight"]
      BY <1>0, <2>1, <2>4 DEF Src, Dir
    <3>. QED  BY <2>1, <2>2, <2>4, <3>1 DEF Attended, Underway, Listed
  <2>5. CASE k \in {"open", "retry", "bury"}
    <3>1. Listed("inflight")' = Listed("inflight") \ {e}
      BY <1>0, <2>1, <2>5 DEF Src, Listed, Dir
    <3>. QED  BY <2>1, <2>2, <2>3, <2>5, <3>1 DEF Attended, Underway
  <2>. QED  BY <2>1, <2>4, <2>5 DEF MoveKinds
<1>. QED  BY <1>1, <1>2, <1>3, <1>4, <1>5

(* Enqueue and Prune leave inflight alone, and what a claim took is held    *)
(* when it returns.                                                        *)
LEMMA AttendedRest ==
  ASSUME ClaimInv, NEW p \in Procs, Attended(p),
         Evicted(p) \/ EnqueueWrite(p) \/ EnqueueRename(p) \/ PruneRemove(p) \/ Return(p)
  PROVE  Attended(p)'
<1>. DEFINE o == op[p]
<1>0. /\ TypeOK /\ o \in OpType /\ OpOK(o) /\ op \in [Procs -> OpType] /\ held \in [Procs -> SUBSET Events]
      /\ DOMAIN file = Dir /\ DOMAIN tmp = Dir /\ DOMAIN tmp["pending"] = Events
  BY DEF ClaimInv, TypeOK, Dir
<1>1. Listed("inflight")' = Listed("inflight")
  <2>1. file'["inflight"] = file["inflight"]
    BY <1>0 DEF Evicted, EnqueueWrite, EnqueueRename, PruneRemove, Return, disk, Dir
  <2>. QED  BY <2>1 DEF Listed
<1>2. CASE Evicted(p)
  <2>1. op'[p].kind = "enqueue" /\ op'[p].stage = "pick" /\ op'[p].out = o.out
        /\ held' = held /\ o.kind = "evict"
    BY <1>0, <1>2 DEF Evicted, OpType
  <2>. QED  BY <1>1, <2>1 DEF Attended, Underway
<1>3. CASE EnqueueWrite(p)
  <2>1. /\ op'[p].kind = "enqueue" /\ op'[p].stage = "rename" /\ op'[p].out = o.out
        /\ op'[p].cur = o.new /\ held' = held /\ o.kind = "enqueue" /\ o.new \in Events
    BY <1>0, <1>3 DEF EnqueueWrite, OpType, OpOK
  <2>2. tmp'["pending"][o.new] = [attempts |-> 0, at |-> Cardinality(asked), due |-> TRUE]
    BY <1>0, <1>3, <2>1 DEF EnqueueWrite, Dir
  <2>3. [attempts |-> 0, at |-> Cardinality(asked), due |-> TRUE] \in Record
    BY <1>0, AskedIsFinite, FS_CardinalityType DEF Record
  <2>4. tmp'["pending"][o.new] # None
    BY <2>2, <2>3, NoneIsNothing
  <2>. QED  BY <1>1, <2>1, <2>4 DEF Attended, Underway, Dst, MoveKinds
<1>4. CASE EnqueueRename(p)
  <2>1. op'[p] = Done(o) /\ held' = held /\ o.kind = "enqueue"
    BY <1>0, <1>4 DEF EnqueueRename, Skip
  <2>. QED  BY <1>0, <1>1, <2>1, DoneFields DEF Attended, Underway
<1>5. CASE PruneRemove(p)
  <2>1. o.kind = "prune" /\ o.stage = "pick" /\ held' = held
    BY <1>0, <1>5 DEF PruneRemove, OpOK, MoveKinds, OpType
  <2>2. op'[p].kind = "prune" /\ op'[p].stage = "pick" /\ op'[p].out = o.out
    BY <1>0, <1>5, <2>1 DEF PruneRemove, OpType
  <2>. QED  BY <1>1, <2>1, <2>2 DEF Attended, Underway
<1>6. CASE Return(p)
  <2>1. /\ op'[p] = Idle /\ held'[p] = held[p] \cup o.out
        /\ o.stage = "pick" /\ o.todo = {}
    BY <1>0, <1>6 DEF Return
  <2>2. Idle.kind = "idle" /\ Idle.stage = "pick"
    BY BeginFields DEF Idle
  <2>. QED  BY <1>1, <2>1, <2>2 DEF Attended, Underway
<1>. QED  BY <1>2, <1>3, <1>4, <1>5, <1>6

(* A call begins with what it will settle, and Open with all of inflight.  *)
LEMMA AttendedCall ==
  ASSUME ClaimInv, NEW p \in Procs, p \in up => Attended(p), faults' = 0, AnyCall(p)
  PROVE  Attended(p)'
<1>0. /\ TypeOK /\ op \in [Procs -> OpType] /\ held \in [Procs -> SUBSET Events]
      /\ DOMAIN file = Dir /\ DOMAIN file["inflight"] = Events /\ InHandOK(p, op[p], held[p])
      /\ held[p] \subseteq Events
  BY DEF ClaimInv, TypeOK, Dir
<1>1. CASE Open(p)
  <2>1. op'[p] = Begin("open", Listed("inflight"), None, 0) /\ Listed("inflight")' = Listed("inflight")
    BY <1>0, <1>1 DEF Open, disk, Listed
  <2>2. op'[p].kind = "open" /\ op'[p].stage = "pick" /\ op'[p].todo = Listed("inflight")'
    BY <2>1, BeginFields
  <2>. QED  BY <2>2 DEF Attended, Underway
<1>2. ASSUME p \in up, op[p].kind = "idle", UNCHANGED held, file'["inflight"] = file["inflight"],
             op' = op \/ \E k \in Kinds : \E S, e, n : op' = [op EXCEPT ![p] = Begin(k, S, e, n)]
      PROVE  Attended(p)'
  <2>1. op[p].out = {} /\ op[p].stage # "rename" /\ op[p].stage # "remove"
    BY <1>0, <1>2 DEF InHandOK, ClaimInv, TypeOK, OpOK, MoveKinds
  <2>2. Listed("inflight")' \subseteq held'[p]
    BY <1>2, <2>1 DEF Attended, Underway, Listed
  <2>3. op'[p].stage # "rename" /\ op'[p].stage # "remove"
    <3>1. CASE op' = op
      BY <2>1, <3>1
    <3>2. CASE \E k \in Kinds : \E S, e, n : op' = [op EXCEPT ![p] = Begin(k, S, e, n)]
      <4>0. PICK k \in Kinds : \E S, e, n : op' = [op EXCEPT ![p] = Begin(k, S, e, n)]
        BY <3>2
      <4>1. PICK S, e, n : op' = [op EXCEPT ![p] = Begin(k, S, e, n)]
        BY <4>0
      <4>2. op'[p] = Begin(k, S, e, n)
        BY <1>0, <4>1
      <4>. QED  BY <4>2, BeginFields
    <3>. QED  BY <1>2, <3>1, <3>2
  <2>. QED  BY <2>2, <2>3 DEF Attended
<1>3. CASE \/ \E e \in Events : Enqueue(p, e)
           \/ \E d, n : Claim(p, d, n)
           \/ \E c : Prune(p, c)
  <2>1. p \in up /\ op[p].kind = "idle" /\ UNCHANGED held /\ file'["inflight"] = file["inflight"]
    BY <1>3 DEF Enqueue, Claim, Prune, Free, disk
  <2>2. op' = op \/ \E k \in Kinds : \E S, e, n : op' = [op EXCEPT ![p] = Begin(k, S, e, n)]
    <3>1. CASE \E e \in Events : Enqueue(p, e)
      BY <3>1 DEF Enqueue, Kinds, MoveKinds
    <3>2. CASE \E d, n : Claim(p, d, n)
      BY <3>2 DEF Claim, Kinds, MoveKinds
    <3>3. CASE \E c : Prune(p, c)
      BY <3>3 DEF Prune, Kinds, MoveKinds
    <3>. QED  BY <1>3, <3>1, <3>2, <3>3
  <2>. QED  BY <1>2, <2>1, <2>2
<1>4. ASSUME NEW e \in held[p], Ack(p, e)
      PROVE  Attended(p)'
  <2>0. /\ p \in up /\ op' = op /\ held' = [held EXCEPT ![p] = @ \ {e}]
        /\ file' = [file EXCEPT !["inflight"][e] = None] /\ e \in Events
    BY <1>0, <1>4 DEF Ack, Free
  <2>00. \A x \in Events : file'["inflight"][x] = IF x = e THEN None ELSE file["inflight"][x]
    BY <1>0, <2>0 DEF Dir
  <2>1. p \in up /\ op' = op /\ held'[p] = held[p] \ {e}
        /\ Listed("inflight")' = Listed("inflight") \ {e}
    BY <1>0, <2>0, <2>00 DEF Listed
  <2>2. op[p].kind = "idle" /\ op[p].stage # "rename" /\ op[p].stage # "remove"
    BY <1>4 DEF Ack, Free, ClaimInv, TypeOK, OpOK, MoveKinds
  <2>. QED  BY <2>1, <2>2 DEF Attended, Underway
<1>5. ASSUME NEW e \in held[p], AckFault(p, e)
      PROVE  Attended(p)'
  BY <1>0, <1>5 DEF AckFault, TypeOK
<1>6. ASSUME NEW e \in held[p], NEW k \in {"bury", "retry"}, Settle(p, e, k)
      PROVE  Attended(p)'
  <2>1. /\ p \in up /\ op'[p] = Begin(k, {e}, None, 0) /\ held'[p] = held[p] \ {e}
        /\ Listed("inflight")' = Listed("inflight") /\ op[p].kind = "idle"
    BY <1>0, <1>6 DEF Settle, Free, disk, Listed
  <2>2. op'[p].kind = k /\ op'[p].stage = "pick" /\ op'[p].todo = {e}
    BY <2>1, BeginFields
  <2>3. op[p].out = {}
    BY <1>0, <2>1 DEF InHandOK
  <2>. QED  BY <2>1, <2>2, <2>3 DEF Attended, Underway
<1>. QED  BY <1>1, <1>3, <1>4, <1>5, <1>6 DEF AnyCall

(* A delay that runs out changes where no record is.                       *)
LEMMA ElapsePlaces ==
  ASSUME TypeOK, NEW e \in Events, Elapse(e)
  PROVE  /\ \A d \in Dir, x \in Events : (file'[d][x] # None) <=> (file[d][x] # None)
         /\ UNCHANGED <<tmp, up, op, held, history, faults>>
<1>1. file["pending"][e] \in Record /\ file' = [file EXCEPT !["pending"][e].due = TRUE]
      /\ UNCHANGED <<tmp, up, op, held, history, faults>>
  BY DEF Elapse, TypeOK, RecordOrNone, Dir
<1>2. [file["pending"][e] EXCEPT !.due = TRUE] \in Record
  BY <1>1 DEF Record
<1>3. /\ file'["pending"][e] = [file["pending"][e] EXCEPT !.due = TRUE]
      /\ \A d \in Dir, x \in Events : (d # "pending" \/ x # e) => file'[d][x] = file[d][x]
  BY <1>1 DEF TypeOK, Dir
<1>. QED  BY <1>1, <1>2, <1>3, NoneIsNothing

(* The count of I/O errors tells whether one happened.                      *)
LEMMA NoFault ==
  ASSUME TypeOK, NEW q \in Procs, faults' = 0,
         Step(q) \/ Return(q) \/ Fault(q) \/ AnyCall(q) \/ End(q)
  PROVE  faults = 0 /\ ~Fault(q)
<1>0. faults \in Nat /\ faults + 1 # 0
  BY DEF TypeOK
<1>1. Fault(q) => faults' = faults + 1
  BY DEF Fault, WriteFault, RemoveFault
<1>2. AnyCall(q) => faults' = faults \/ faults' = faults + 1
  BY DEF AnyCall, Open, Enqueue, Claim, Ack, AckFault, Settle, Prune
<1>3. Step(q) \/ Return(q) \/ End(q) => faults' = faults
  BY DEF Step, Return, End, MoveMissing, MoveWrite, MoveRename, RenameMissing,
         MoveRemove, RemoveMissing, Evicted, EnqueueWrite, EnqueueRename, PruneRemove
<1>. QED  BY <1>0, <1>1, <1>2, <1>3

(* AllAttended is inductive, whatever client calls.                        *)
LEMMA AttendedStep ==
  ASSUME SoleProcess, ClaimInv, AllAttended, AnyNext \/ UNCHANGED vars
  PROVE  AllAttended'
<1>. SUFFICES ASSUME faults' = 0, NEW p \in up'
              PROVE  Attended(p)'
  BY DEF AllAttended
<1>0. TypeOK /\ up \subseteq Procs /\ faults \in Nat
  BY DEF ClaimInv, TypeOK
<1>1. CASE UNCHANGED vars
  BY <1>1 DEF vars, AllAttended, Attended, Listed
<1>2. ASSUME NEW e \in Events, Elapse(e)
      PROVE  Attended(p)'
  <2>1. /\ \A d \in Dir, x \in Events : (file'[d][x] # None) <=> (file[d][x] # None)
        /\ UNCHANGED <<tmp, up, op, held, faults>>
    BY <1>0, <1>2, ElapsePlaces
  <2>2. Attended(p) /\ p \in Procs /\ OpOK(op[p])
    BY <1>0, <2>1 DEF AllAttended, TypeOK
  <2>3. op[p].stage # "pick" /\ op[p].kind \in MoveKinds => Src(op[p].kind) \in Dir /\ op[p].cur \in Events
    BY <2>2, SrcIsNotDst DEF OpOK
  <2>. QED  BY <2>1, <2>2, <2>3 DEF Attended, Listed, Dir, OpOK
<1>3. ASSUME NEW q \in Procs, Step(q) \/ Return(q) \/ Fault(q) \/ AnyCall(q) \/ End(q)
      PROVE  Attended(p)'
  <2>1. faults = 0 /\ ~Fault(q)
    BY <1>0, <1>3, NoFault
  <2>2. p \in Procs /\ up' \subseteq Procs
    BY <1>3, NextType DEF ClaimInv, AnyNext, TypeOK
  <2>3. p = q
    BY <2>2 DEF SoleProcess
  <2>4. CASE End(q)
    BY <2>3, <2>4 DEF End
  <2>5. CASE AnyCall(q)
    BY <2>1, <2>3, <2>5, AttendedCall DEF AllAttended
  <2>6. CASE Step(q) \/ Return(q)
    <3>1. up' = up
      BY <2>6 DEF Step, Return, MoveMissing, MoveWrite, MoveRename,
       RenameMissing, MoveRemove, RemoveMissing, Evicted, EnqueueWrite, EnqueueRename, PruneRemove
    <3>. QED  BY <2>1, <2>3, <2>6, <3>1, AttendedMove, AttendedRest DEF Step, AllAttended
  <2>. QED  BY <1>3, <2>1, <2>4, <2>5, <2>6
<1>. QED  BY <1>1, <1>2, <1>3 DEF AnyNext

(* No event is stranded in inflight, for every number of events and every  *)
(* client: when one process at a time uses the directory and no file       *)
(* operation fails, what is in inflight while the process is between       *)
(* operations is in its hands, through crashes and restarts; Open takes    *)
(* over what an earlier process left.                                      *)
THEOREM InflightIsHeldTheorem ==
  ASSUME SoleProcess
  PROVE  Spec => []InflightIsHeld
<1>1. Init => AllAttended
  BY DEF Init, AllAttended
<1>2. ClaimInv /\ AllAttended /\ [Next]_vars => AllAttended'
  BY AttendedStep, NextIsAny
<1>3. ClaimInv /\ AllAttended => InflightIsHeld
  <2>. SUFFICES ASSUME ClaimInv, AllAttended, faults = 0, NEW p \in Procs, Free(p), NEW e \in Listed("inflight")
                PROVE  e \in held[p] /\ file["pending"][e] = None
    BY DEF InflightIsHeld
  <2>1. Attended(p) /\ op[p].kind = "idle" /\ op[p].out = {}
    BY DEF AllAttended, Free, ClaimInv, InHandOK
  <2>2. e \in held[p]
    BY <2>1 DEF Attended, Underway
  <2>. QED  BY <2>2 DEF ClaimInv, HeldIsNotPending
<1>. QED  BY <1>1, <1>2, <1>3, ClaimInvariant, PTL DEF Spec

-----------------------------------------------------------------------------
(* Where the record of an event is                                         *)

\* What has a file was accepted, and that was asked for.
OnlyAccepted ==
  /\ \A d \in Dir, e \in Events : file[d][e] # None => e \in accepted
  /\ accepted \subseteq asked

\* A move has its source until it removes it; Enqueue accepts its event when
\* it puts it in place, and not before; Retry and MarkDead work on a record
\* that was given back; and what is in hand is in inflight.
InPlace(p) ==
  LET o == op[p]
  IN  /\ o.stage = "rename" /\ o.kind \in MoveKinds => file[Src(o.kind)][o.cur] # None
      /\ o.kind \in {"evict", "enqueue"} /\ o.new \in accepted =>
           o.kind = "enqueue" /\ o.stage = "pick" /\ o.todo = {}
      /\ o.kind = "enqueue" => o.todo \subseteq {o.new} /\ (o.stage = "rename" => o.cur = o.new)
      /\ o.kind \in {"retry", "bury"} =>
           o.todo \cap held[p] = {} /\ (o.stage # "pick" => o.cur \notin held[p])
      /\ \A e \in held[p] \cup o.out : file["inflight"][e] # None

PlaceInv == OnlyAccepted /\ \A p \in Procs : InPlace(p)

(* A file is put in place for a record that has one, or by Enqueue, which  *)
(* accepts the event in the same step.                                     *)
LEMMA OnlyAcceptedKept ==
  ASSUME ClaimInv, OnlyAccepted, NEW p \in Procs, InPlace(p),
         Step(p) \/ Return(p) \/ Fault(p) \/ AnyCall(p) \/ End(p)
  PROVE  OnlyAccepted'
<1>0. /\ TypeOK /\ OnlyAsked /\ OpOK(op[p]) /\ op[p] \in OpType /\ held[p] \subseteq Events
  BY DEF ClaimInv, TypeOK
<1>1. asked \subseteq asked' /\ accepted \subseteq accepted'
  BY DEF Step, Return, Fault, AnyCall, End, MoveMissing, MoveWrite, MoveRename,
         RenameMissing, MoveRemove, RemoveMissing, Evicted, EnqueueWrite,
         EnqueueRename, PruneRemove, WriteFault, RemoveFault, Open, Enqueue,
         Claim, Ack, AckFault, Settle, Prune, history
<1>2. CASE MoveRename(p)
  <2>1. op[p].cur \in Events /\ op[p].kind \in MoveKinds
    BY <1>0, <1>2 DEF MoveRename, OpOK
  <2>2. op[p].cur \in accepted
    BY <1>2, <2>1, SrcIsNotDst DEF InPlace, OnlyAccepted, MoveRename
  <2>3. \A d \in Dir, x \in Events \ {op[p].cur} : file'[d][x] = file[d][x]
    BY <1>0, <1>2, <2>1, DstInDir DEF MoveRename, TypeOK
  <2>. QED  BY <1>2, <2>2, <2>3 DEF OnlyAccepted, MoveRename, history
<1>3. CASE EnqueueRename(p)
  <2>1. op[p].cur \in Events /\ tmp["pending"][op[p].cur] # None
        /\ accepted' = accepted \cup {op[p].cur} /\ asked' = asked
    BY <1>0, <1>3 DEF EnqueueRename, OpOK
  <2>2. op[p].cur \in asked
    BY <1>0, <2>1 DEF OnlyAsked, Dir
  <2>3. \A d \in Dir, x \in Events \ {op[p].cur} : file'[d][x] = file[d][x]
    BY <1>0, <1>3, <2>1 DEF EnqueueRename, TypeOK, Dir
  <2>. QED  BY <2>1, <2>2, <2>3 DEF OnlyAccepted
<1>4. CASE ~MoveRename(p) /\ ~EnqueueRename(p)
  <2>1. accepted' = accepted
    BY <1>4 DEF Step, Return, Fault, AnyCall, End, MoveMissing, MoveWrite,
         RenameMissing, MoveRemove, RemoveMissing, Evicted, EnqueueWrite,
         PruneRemove, WriteFault, RemoveFault, Open, Enqueue,
         Claim, Ack, AckFault, Settle, Prune, history
  <2>2. \A d \in Dir, x \in Events : file'[d][x] = file[d][x] \/ file'[d][x] = None
    <3>1. CASE MoveRemove(p)
      <4>1. op[p].cur \in Events /\ op[p].kind \in MoveKinds
        BY <1>0, <3>1 DEF MoveRemove, OpOK
      <4>. QED  BY <1>0, <3>1, <4>1, SrcIsNotDst DEF MoveRemove, TypeOK
    <3>2. CASE PruneRemove(p)
      <4>1. PICK e \in Events :
              file' = [file EXCEPT !["dead"][e] = None, !["dead_overflow"][e] = None]
        BY <1>0, <3>2 DEF PruneRemove, OpType
      <4>. QED  BY <1>0, <4>1 DEF TypeOK, Dir
    <3>3. CASE \E e \in held[p] : Ack(p, e)
      BY <1>0, <3>3 DEF Ack, TypeOK, Dir
    <3>4. CASE file' = file
      BY <3>4
    <3>. QED
      <4>1. \/ file' = file \/ MoveRemove(p) \/ PruneRemove(p) \/ \E e \in held[p] : Ack(p, e)
        BY <1>4 DEF Step, Return, Fault, AnyCall, End, MoveMissing, MoveWrite, RenameMissing,
           RemoveMissing, Evicted, EnqueueWrite, WriteFault, RemoveFault, Open, Enqueue,
           Claim, AckFault, Settle, Prune, disk
      <4>. QED  BY <3>1, <3>2, <3>3, <3>4, <4>1
  <2>. QED  BY <1>1, <2>1, <2>2 DEF OnlyAccepted
<1>. QED  BY <1>2, <1>3, <1>4

(* The steps of moveRecord.                                                *)
LEMMA InPlaceMove ==
  ASSUME ClaimInv, LossInv, OnlyAccepted, NEW p \in Procs, InPlace(p),
         \/ MoveMissing(p) \/ MoveWrite(p) \/ MoveRename(p) \/ RenameMissing(p)
         \/ MoveRemove(p) \/ RemoveMissing(p) \/ WriteFault(p) \/ RemoveFault(p)
  PROVE  InPlace(p)'
<1>. DEFINE o == op[p]
            k == o.kind
<1>0. /\ TypeOK /\ o \in OpType /\ OpOK(o) /\ op \in [Procs -> OpType]
      /\ InHandOK(p, o, held[p]) /\ MoveSafe /\ held[p] \cup o.out \subseteq Events
  BY DEF ClaimInv, TypeOK, LossInv, OpType
<1>1. CASE MoveMissing(p)
  <2>1. PICK e \in o.todo : op' = [op EXCEPT ![p].todo = @ \ {e}]
    BY <1>1 DEF MoveMissing
  <2>2. /\ op'[p].kind = k /\ op'[p].stage = "pick" /\ op'[p].new = o.new /\ op'[p].out = o.out
        /\ op'[p].todo \subseteq o.todo /\ k \in MoveKinds /\ UNCHANGED <<file, held, accepted>>
    BY <1>0, <1>1, <2>1 DEF MoveMissing, OpType, disk, history
  <2>. QED  BY <2>2 DEF InPlace, MoveKinds
<1>2. CASE MoveWrite(p)
  <2>1. PICK e \in o.todo : /\ file[Src(k)][e] # None
                            /\ op' = [op EXCEPT ![p].stage = "rename", ![p].cur = e]
    BY <1>2 DEF MoveWrite
  <2>2. /\ op'[p].kind = k /\ op'[p].stage = "rename" /\ op'[p].new = o.new /\ op'[p].out = o.out
        /\ op'[p].todo = o.todo /\ op'[p].cur = e /\ k \in MoveKinds
        /\ UNCHANGED <<file, held, accepted>>
    BY <1>0, <1>2, <2>1 DEF MoveWrite, OpType, history
  <2>3. file'[Src(op'[p].kind)][op'[p].cur] # None
    BY <2>1, <2>2
  <2>4. k \in {"retry", "bury"} => e \notin held[p]
    BY <2>1 DEF InPlace
  <2>. QED  BY <2>2, <2>3, <2>4 DEF InPlace, MoveKinds
<1>3. CASE MoveRename(p)
  <2>1. o.cur \in Events /\ k \in MoveKinds /\ Dst(k) \in Dir
    BY <1>0, <1>3, DstInDir DEF MoveRename, OpOK
  <2>2. \A d \in Dir, x \in Events : file[d][x] # None => file'[d][x] # None
    BY <1>0, <1>3, <2>1 DEF MoveRename, TypeOK
  <2>3. /\ op'[p].kind = k /\ op'[p].stage = "remove" /\ op'[p].new = o.new /\ op'[p].out = o.out
        /\ op'[p].todo = o.todo /\ op'[p].cur = o.cur /\ UNCHANGED <<held, accepted>>
        /\ o.stage = "rename"
    BY <1>0, <1>3 DEF MoveRename, OpType, history
  <2>. QED  BY <1>0, <2>1, <2>2, <2>3 DEF InPlace, MoveKinds, Dir
<1>4. CASE RenameMissing(p) \/ RemoveMissing(p) \/ WriteFault(p) \/ RemoveFault(p)
  <2>1. op'[p] = Done(o) /\ o.stage # "pick" /\ UNCHANGED <<file, held, accepted>>
    BY <1>0, <1>4 DEF RenameMissing, RemoveMissing, WriteFault, RemoveFault, Skip, disk, history
  <2>2. /\ op'[p].kind = k /\ op'[p].stage = "pick" /\ op'[p].new = o.new /\ op'[p].out = o.out
        /\ op'[p].todo \subseteq o.todo
    BY <1>0, <2>1, DoneFields
  <2>. QED  BY <2>1, <2>2 DEF InPlace
<1>5. CASE MoveRemove(p)
  <2>1. /\ o.cur \in Events /\ k \in MoveKinds /\ o.stage = "remove" /\ op'[p] = Moved(o)
        /\ file' = [file EXCEPT ![Src(k)][o.cur] = None] /\ UNCHANGED <<held, accepted>>
    BY <1>0, <1>5 DEF MoveRemove, OpOK, history
  <2>2. /\ op'[p].kind = k /\ op'[p].stage = "pick" /\ op'[p].new = o.new
        /\ op'[p].todo \subseteq o.todo
        /\ op'[p].out = IF k = "claim" THEN o.out \cup {o.cur} ELSE o.out
    BY <1>0, <2>1, MovedFields
  <2>3. ASSUME NEW e \in held'[p] \cup op'[p].out
        PROVE  file'["inflight"][e] # None
    <3>1. CASE k \in {"claim", "evict"}
      <4>1. Src(k) = "pending" /\ (k = "claim" => Dst(k) = "inflight")
        BY <3>1 DEF Src, Dst
      <4>2. file[ "inflight"][e] # None
        <5>1. CASE e \in held[p] \cup o.out
          BY <5>1 DEF InPlace
        <5>2. CASE k = "claim" /\ e = o.cur
          BY <1>0, <2>1, <4>1, <5>2 DEF MoveSafe
        <5>. QED  BY <2>1, <2>2, <2>3, <5>1, <5>2
      <4>. QED  BY <1>0, <2>1, <4>1, <4>2 DEF TypeOK, Dir
    <3>2. CASE k \in {"open", "retry", "bury"}
      <4>1. e \in held[p] /\ e # o.cur
        BY <1>0, <2>1, <2>2, <2>3, <3>2 DEF InHandOK, InPlace
      <4>2. file["inflight"][e] # None /\ Src(k) \in Dir
        BY <2>1, <4>1, SrcIsNotDst DEF InPlace
      <4>. QED  BY <1>0, <2>1, <4>1, <4>2 DEF TypeOK, Dir
    <3>. QED  BY <2>1, <3>1, <3>2 DEF MoveKinds
  <2>. QED  BY <2>1, <2>2, <2>3 DEF InPlace, MoveKinds
<1>. QED  BY <1>1, <1>2, <1>3, <1>4, <1>5

(* The rest of an operation, its return, and the end of its process.       *)
LEMMA InPlaceRest ==
  ASSUME ClaimInv, OnlyAccepted, NEW p \in Procs, InPlace(p),
         Evicted(p) \/ EnqueueWrite(p) \/ EnqueueRename(p) \/ PruneRemove(p) \/ Return(p) \/ End(p)
  PROVE  InPlace(p)'
<1>. DEFINE o == op[p]
<1>0. /\ TypeOK /\ o \in OpType /\ OpOK(o) /\ op \in [Procs -> OpType]
      /\ held \in [Procs -> SUBSET Events] /\ held[p] \cup o.out \subseteq Events
  BY DEF ClaimInv, TypeOK, OpType
<1>1. CASE Evicted(p)
  <2>1. /\ op'[p].kind = "enqueue" /\ op'[p].stage = "pick" /\ op'[p].new = o.new
        /\ op'[p].out = o.out /\ op'[p].todo = {o.new} /\ o.kind = "evict"
        /\ UNCHANGED <<file, held, accepted>>
    BY <1>0, <1>1 DEF Evicted, OpType, disk, history
  <2>. QED  BY <2>1 DEF InPlace
<1>2. CASE EnqueueWrite(p)
  <2>1. /\ op'[p].kind = "enqueue" /\ op'[p].stage = "rename" /\ op'[p].new = o.new
        /\ op'[p].cur = o.new /\ op'[p].out = o.out /\ op'[p].todo = o.todo
        /\ o.kind = "enqueue" /\ o.todo # {} /\ UNCHANGED <<file, held, accepted>>
    BY <1>0, <1>2 DEF EnqueueWrite, OpType, history
  <2>. QED  BY <2>1 DEF InPlace, MoveKinds
<1>3. CASE EnqueueRename(p)
  <2>1. /\ op'[p] = Done(o) /\ o.kind = "enqueue" /\ o.stage = "rename" /\ held' = held
        /\ o.cur \in Events
        /\ file' = [file EXCEPT !["pending"][o.cur] = tmp["pending"][o.cur]]
    BY <1>0, <1>3 DEF EnqueueRename, Skip, OpOK
  <2>2. /\ op'[p].kind = "enqueue" /\ op'[p].stage = "pick" /\ op'[p].new = o.new
        /\ op'[p].out = o.out
    BY <1>0, <2>1, DoneFields
  <2>3. op'[p].todo = {}
    <3>1. op'[p].todo = o.todo \ {o.cur}
      BY <1>0, <2>1 DEF Done, OpType
    <3>. QED  BY <2>1, <3>1 DEF InPlace
  <2>4. \A x \in Events : file'["inflight"][x] = file["inflight"][x]
    BY <1>0, <2>1 DEF TypeOK, Dir
  <2>. QED  BY <1>0, <2>1, <2>2, <2>3, <2>4 DEF InPlace
<1>4. CASE PruneRemove(p)
  <2>1. PICK e \in o.todo :
          /\ file' = [file EXCEPT !["dead"][e] = None, !["dead_overflow"][e] = None]
          /\ op' = [op EXCEPT ![p].todo = @ \ {e}]
    BY <1>4 DEF PruneRemove
  <2>2. /\ op'[p].kind = "prune" /\ op'[p].out = o.out /\ held' = held /\ e \in Events
    BY <1>0, <1>4, <2>1 DEF PruneRemove, OpType
  <2>3. \A x \in Events : file'["inflight"][x] = file["inflight"][x]
    BY <1>0, <2>1, <2>2 DEF TypeOK, Dir
  <2>. QED  BY <1>0, <2>2, <2>3 DEF InPlace, MoveKinds
<1>5. CASE Return(p) \/ End(p)
  <2>1. /\ op'[p].kind = "idle" /\ op'[p].out = {} /\ held'[p] \subseteq held[p] \cup o.out
        /\ file' = file
    BY <1>0, <1>5, BeginFields DEF Return, End, Idle, disk
  <2>. QED  BY <2>1 DEF InPlace, MoveKinds
<1>. QED  BY <1>1, <1>2, <1>3, <1>4, <1>5

(* A call.                                                                 *)
LEMMA InPlaceCall ==
  ASSUME ClaimInv, OnlyAccepted, NEW p \in Procs, InPlace(p), AnyCall(p)
  PROVE  InPlace(p)'
<1>. DEFINE o == op[p]
<1>0. /\ TypeOK /\ o \in OpType /\ op \in [Procs -> OpType] /\ InHandOK(p, o, held[p])
      /\ held \in [Procs -> SUBSET Events] /\ held[p] \cup o.out \subseteq Events
  BY DEF ClaimInv, TypeOK, OpType
<1>1. CASE Open(p) \/ (\E d, n : Claim(p, d, n)) \/ (\E c : Prune(p, c))
  <2>1. \E S : \/ op' = [op EXCEPT ![p] = Begin("open", S, None, 0)]
               \/ op' = [op EXCEPT ![p] = Begin("claim", S, None, 0)]
               \/ op' = [op EXCEPT ![p] = Begin("prune", S, None, 0)]
    BY <1>1 DEF Open, Claim, Prune
  <2>2. op'[p].kind \in {"open", "claim", "prune"} /\ op'[p].stage = "pick" /\ op'[p].out = {}
    BY <1>0, <2>1, BeginFields
  <2>3. held' = held /\ file' = file
    BY <1>1 DEF Open, Claim, Prune, disk
  <2>. QED  BY <2>2, <2>3 DEF InPlace
<1>2. CASE \E e \in Events : Enqueue(p, e)
  <2>1. PICK e \in Events : Enqueue(p, e)
    BY <1>2
  <2>2. UNCHANGED <<file, held, accepted>> /\ e \notin accepted
    BY <2>1 DEF Enqueue, disk, OnlyAccepted
  <2>3. \/ op' = op
        \/ op' = [op EXCEPT ![p] = Begin("evict", Listed("pending"), e, TotalBytes)]
        \/ op' = [op EXCEPT ![p] = Begin("enqueue", {e}, e, TotalBytes)]
    BY <2>1 DEF Enqueue
  <2>4. CASE op' = op
    BY <2>2, <2>4 DEF InPlace
  <2>5. CASE op' # op
    <3>1. \/ op'[p] = Begin("evict", Listed("pending"), e, TotalBytes)
          \/ op'[p] = Begin("enqueue", {e}, e, TotalBytes)
      BY <1>0, <2>3, <2>5
    <3>2. /\ op'[p].kind \in {"evict", "enqueue"} /\ op'[p].stage = "pick" /\ op'[p].out = {}
          /\ op'[p].new = e /\ (op'[p].kind = "enqueue" => op'[p].todo = {e})
      BY <3>1, BeginFields
    <3>. QED  BY <2>2, <3>2 DEF InPlace
  <2>. QED  BY <2>4, <2>5
<1>3. CASE \E e \in held[p] : Ack(p, e) \/ AckFault(p, e)
  <2>1. PICK e \in held[p] : Ack(p, e) \/ AckFault(p, e)
    BY <1>3
  <2>2. /\ op' = op /\ o.kind = "idle" /\ o.out = {} /\ held'[p] = held[p] \ {e}
        /\ \A x \in Events \ {e} : file'["inflight"][x] = file["inflight"][x]
    BY <1>0, <2>1 DEF Ack, AckFault, Free, InHandOK, TypeOK, Dir, disk
  <2>. QED  BY <1>0, <2>2 DEF InPlace, MoveKinds
<1>4. CASE \E e \in held[p], k \in {"retry", "bury"} : Settle(p, e, k)
  <2>1. PICK e \in held[p], k \in {"retry", "bury"} : Settle(p, e, k)
    BY <1>4
  <2>2. op'[p] = Begin(k, {e}, None, 0) /\ held'[p] = held[p] \ {e} /\ file' = file
    BY <1>0, <2>1 DEF Settle, disk
  <2>3. op'[p].kind = k /\ op'[p].stage = "pick" /\ op'[p].todo = {e} /\ op'[p].out = {}
    BY <2>2, BeginFields
  <2>. QED  BY <2>2, <2>3 DEF InPlace
<1>. QED  BY <1>1, <1>2, <1>3, <1>4 DEF AnyCall

(* PlaceInv is inductive, whatever client calls.                           *)
LEMMA PlaceStep ==
  ASSUME SoleProcess, ClaimInv, LossInv, PlaceInv, AnyNext \/ UNCHANGED vars
  PROVE  PlaceInv'
<1>1. CASE UNCHANGED vars
  BY <1>1 DEF vars, PlaceInv, OnlyAccepted, InPlace
<1>2. ASSUME NEW e \in Events, Elapse(e)
      PROVE  PlaceInv'
  <2>1. /\ \A d \in Dir, x \in Events : (file'[d][x] # None) <=> (file[d][x] # None)
        /\ UNCHANGED <<op, held, asked, accepted>>
    BY <1>2, ElapsePlaces DEF ClaimInv, history
  <2>2. \A p \in Procs : /\ OpOK(op[p]) /\ held[p] \cup op[p].out \subseteq Events
                         /\ op[p].kind \in MoveKinds => Src(op[p].kind) \in Dir
    BY SrcIsNotDst DEF ClaimInv, TypeOK, OpType
  <2>3. \A p \in Procs : op[p].stage = "rename" => op[p].cur \in Events
    BY <2>2 DEF OpOK
  <2>. QED  BY <2>1, <2>2, <2>3 DEF PlaceInv, OnlyAccepted, InPlace, Dir
<1>3. ASSUME NEW p \in Procs, Step(p) \/ Return(p) \/ Fault(p) \/ AnyCall(p) \/ End(p)
      PROVE  PlaceInv'
  <2>1. OnlyAccepted'
    BY <1>3, OnlyAcceptedKept DEF PlaceInv
  <2>2. InPlace(p)'
    BY <1>3, InPlaceMove, InPlaceRest, InPlaceCall DEF PlaceInv, Step, Fault
  <2>. QED  BY <2>1, <2>2 DEF PlaceInv, SoleProcess
<1>. QED  BY <1>1, <1>2, <1>3 DEF AnyNext

(* At the start there is nothing anywhere.                                 *)
LEMMA PlaceInit == Init => PlaceInv
<1>. SUFFICES ASSUME Init PROVE PlaceInv
  OBVIOUS
<1>1. \A p \in Procs : op[p] = Idle /\ held[p] = {} /\ Idle.kind = "idle" /\ Idle.out = {}
  BY BeginFields DEF Init, Idle
<1>. QED  BY <1>1 DEF Init, PlaceInv, OnlyAccepted, InPlace, MoveKinds

-----------------------------------------------------------------------------
(* The cap, and what is evicted for it                                     *)

\* The files that were never renamed, which TotalBytes counts as well.
Temps(d) == {e \in Events : tmp[d][e] # None}
Counted == {"pending", "inflight", "dead"}

\* The eviction loop has every pending record still before it, and the one it
\* moves is the oldest of them.
Victims(o) ==
  o.kind = "evict" =>
    /\ Listed("pending") \subseteq o.todo
    /\ o.stage = "rename" =>
         \A f \in Listed("pending") : file["pending"][o.cur].at =< file["pending"][f].at

\* What evictIfFull was to bring about for the event that is to be stored.
Roomy(e, w) ==
  MaxBytes > 0 => \/ TotalBytes + Payload[e] =< MaxBytes + w
                  \/ Listed("pending") = {}

\* The bytes counted as freed are off the disk, and there is room for the new
\* event, which has no file yet.
Room(o) ==
  /\ o.kind = "evict" => TotalBytes + o.freed =< o.size
  /\ o.kind = "evict" \/ (o.kind = "enqueue" /\ o.stage = "pick" /\ o.todo # {}) =>
       file["pending"][o.new] = None /\ tmp["pending"][o.new] = None
  /\ o.kind = "enqueue" => o.todo \subseteq {o.new}
  /\ o.kind = "enqueue" /\ o.stage = "pick" /\ o.todo # {} => Roomy(o.new, 0)
  /\ o.kind = "enqueue" /\ o.stage = "rename" =>
       /\ o.cur = o.new /\ file["pending"][o.new] = None /\ tmp["pending"][o.new] # None
       /\ Roomy(o.new, Weight[{o.new}])

VictimsInv == faults = 0 => \A p \in Procs : Victims(op[p])
RoomInv == faults = 0 => \A p \in Procs : Room(op[p])

(* The sum, file by file.                                                  *)
LEMMA TotalIs ==
  /\ TotalBytes = (Weight[Listed("pending")] + Weight[Temps("pending")])
       + (Weight[Listed("inflight")] + Weight[Temps("inflight")])
       + (Weight[Listed("dead")] + Weight[Temps("dead")])
  /\ TotalBytes' = (Weight[Listed("pending")'] + Weight[Temps("pending")'])
       + (Weight[Listed("inflight")'] + Weight[Temps("inflight")'])
       + (Weight[Listed("dead")'] + Weight[Temps("dead")'])
BY DEF TotalBytes, Temps

(* Sizes are numbers.                                                      *)
LEMMA WeightType ==
  /\ \A d \in Counted : Weight[Listed(d)] \in Nat /\ Weight[Temps(d)] \in Nat
  /\ \A d \in Counted : Weight[Listed(d)'] \in Nat /\ Weight[Temps(d)'] \in Nat
  /\ \A e \in Events : Weight[{e}] \in Nat /\ Payload[e] \in Nat
<1>1. \A d \in Counted : /\ Listed(d) \in SUBSET Events /\ Temps(d) \in SUBSET Events
                         /\ Listed(d)' \in SUBSET Events /\ Temps(d)' \in SUBSET Events
  BY DEF Listed, Temps
<1>. QED  BY <1>1, ConstantsOK

(* What changes no file of the three directories changes no byte.          *)
LEMMA SameBytes ==
  ASSUME \A d \in Counted, e \in Events :
           /\ (file'[d][e] # None) <=> (file[d][e] # None)
           /\ (tmp'[d][e] # None) <=> (tmp[d][e] # None)
  PROVE  TotalBytes' = TotalBytes /\ Listed("pending")' = Listed("pending")
<1>1. \A d \in Counted : Listed(d)' = Listed(d) /\ Temps(d)' = Temps(d)
  BY DEF Listed, Temps
<1>2. Listed("pending")' = Listed("pending") /\ Temps("pending")' = Temps("pending")
      /\ Listed("inflight")' = Listed("inflight") /\ Temps("inflight")' = Temps("inflight")
      /\ Listed("dead")' = Listed("dead") /\ Temps("dead")' = Temps("dead")
  BY <1>1 DEF Counted
<1>. QED  BY <1>2, TotalIs

(* One pending record fewer, one temporary file more, or one renamed.      *)
LEMMA PendingBytes ==
  ASSUME NEW e \in Events,
         \A d \in {"inflight", "dead"}, x \in Events : file'[d][x] = file[d][x] /\ tmp'[d][x] = tmp[d][x],
         \A x \in Events \ {e} : file'["pending"][x] = file["pending"][x] /\ tmp'["pending"][x] = tmp["pending"][x]
  PROVE  LET f == file["pending"][e] = None
             t == tmp["pending"][e] = None
             ff == file'["pending"][e] = None
             tt == tmp'["pending"][e] = None
         IN  /\ ~f /\ ff /\ (t <=> tt) => TotalBytes' + Payload[e] =< TotalBytes
             /\ (f <=> ff) /\ t /\ ~tt => TotalBytes' = TotalBytes + Weight[{e}]
             /\ f /\ ~ff /\ ~t /\ tt => TotalBytes' = TotalBytes
<1>. DEFINE L == Listed("pending") \ {e}
            T == Temps("pending") \ {e}
            b == (Weight[Listed("inflight")] + Weight[Temps("inflight")])
                   + (Weight[Listed("dead")] + Weight[Temps("dead")])
            w(S) == Weight[S]
<1>1. /\ Listed("inflight")' = Listed("inflight") /\ Temps("inflight")' = Temps("inflight")
      /\ Listed("dead")' = Listed("dead") /\ Temps("dead")' = Temps("dead")
  BY DEF Listed, Temps
<1>2. /\ Listed("pending") = IF file["pending"][e] = None THEN L ELSE L \cup {e}
      /\ Temps("pending") = IF tmp["pending"][e] = None THEN T ELSE T \cup {e}
      /\ Listed("pending")' = IF file'["pending"][e] = None THEN L ELSE L \cup {e}
      /\ Temps("pending")' = IF tmp'["pending"][e] = None THEN T ELSE T \cup {e}
  BY DEF Listed, Temps
<1>3. /\ L \in SUBSET Events /\ T \in SUBSET Events /\ e \in Events \ L /\ e \in Events \ T
  BY DEF Listed, Temps
<1>. HIDE DEF L, T
<1>4. /\ w(L \cup {e}) = w(L) + w({e}) /\ w(T \cup {e}) = w(T) + w({e})
  BY <1>3, WeightsAdd
<1>5. w(L) \in Nat /\ w(T) \in Nat /\ w({e}) \in Nat /\ Payload[e] \in Nat /\ Payload[e] =< w({e})
  BY <1>3, WeightType, ConstantsOK, WeightsAdd
<1>6. b \in Nat
  BY WeightType DEF Counted
<1>7. /\ TotalBytes = (w(Listed("pending")) + w(Temps("pending"))) + b
      /\ TotalBytes' = (w(Listed("pending")') + w(Temps("pending")')) + b
  BY <1>1, WeightType, TotalIs DEF Counted
<1>8. /\ w(Listed("pending")) = IF file["pending"][e] = None THEN w(L) ELSE w(L) + w({e})
      /\ w(Temps("pending")) = IF tmp["pending"][e] = None THEN w(T) ELSE w(T) + w({e})
      /\ w(Listed("pending")') = IF file'["pending"][e] = None THEN w(L) ELSE w(L) + w({e})
      /\ w(Temps("pending")') = IF tmp'["pending"][e] = None THEN w(T) ELSE w(T) + w({e})
  BY <1>2, <1>4
<1>. HIDE DEF b, w
<1>9. ASSUME file["pending"][e] # None, file'["pending"][e] = None,
             (tmp["pending"][e] = None) <=> (tmp'["pending"][e] = None)
      PROVE  TotalBytes' + Payload[e] =< TotalBytes
  BY <1>5, <1>6, <1>7, <1>8, <1>9
<1>10. ASSUME (file["pending"][e] = None) <=> (file'["pending"][e] = None),
              tmp["pending"][e] = None, tmp'["pending"][e] # None
       PROVE  TotalBytes' = TotalBytes + w({e})
  BY <1>5, <1>6, <1>7, <1>8, <1>10
<1>11. ASSUME file["pending"][e] = None, file'["pending"][e] # None,
              tmp["pending"][e] # None, tmp'["pending"][e] = None
       PROVE  TotalBytes' = TotalBytes
  BY <1>5, <1>6, <1>7, <1>8, <1>11
<1>. QED  BY <1>9, <1>10, <1>11 DEF w

\* The files that TotalBytes counts stay as they are.
CountedStay ==
  \A d \in Counted, e \in Events : file'[d][e] = file[d][e] /\ tmp'[d][e] = tmp[d][e]

(* How an eviction goes on: without I/O errors no move breaks off.         *)
LEMMA EvictSteps ==
  ASSUME ClaimInv, NEW p \in Procs, Attended(p), op[p].kind = "evict", Step(p)
  PROVE  LET o == op[p]
             n == op'[p]
         IN  /\ n.new = o.new /\ n.size = o.size
             /\ \/ /\ n.kind = "evict" /\ n.stage = "pick" /\ n.freed = o.freed /\ CountedStay
                   /\ \E e \in o.todo : file["pending"][e] = None /\ n.todo = o.todo \ {e}
                \/ /\ n.kind = "evict" /\ n.stage = "rename" /\ n.freed = o.freed /\ CountedStay
                   /\ n.cur \in o.todo /\ n.todo = o.todo /\ InOrder(p, n.cur)
                \/ /\ n.kind = "evict" /\ n.stage = "remove" /\ n.freed = o.freed /\ CountedStay
                   /\ n.todo = o.todo
                \/ /\ n.kind = "evict" /\ n.stage = "pick" /\ n.todo = o.todo \ {o.cur}
                   /\ n.freed = o.freed + Payload[o.cur] /\ o.cur \in Events
                   /\ file["pending"][o.cur] # None /\ tmp' = tmp
                   /\ file' = [file EXCEPT !["pending"][o.cur] = None]
                \/ /\ n.kind = "enqueue" /\ n.stage = "pick" /\ n.todo = {o.new} /\ CountedStay
                   /\ o.todo = {} \/ ~Overfull(p)
<1>. DEFINE o == op[p]
<1>0. /\ TypeOK /\ o \in OpType /\ OpOK(o) /\ op \in [Procs -> OpType]
      /\ o.kind = "evict" /\ Src(o.kind) = "pending" /\ Dst(o.kind) = "dead_overflow"
  BY DEF ClaimInv, TypeOK, Src, Dst
<1>1. CASE MoveMissing(p)
  <2>1. PICK e \in o.todo : file["pending"][e] = None /\ op' = [op EXCEPT ![p].todo = @ \ {e}]
    BY <1>0, <1>1 DEF MoveMissing
  <2>2. o.stage = "pick" /\ CountedStay
    BY <1>1 DEF MoveMissing, disk, CountedStay
  <2>. QED  BY <1>0, <2>1, <2>2 DEF OpType
<1>2. CASE MoveWrite(p)
  <2>1. PICK e \in o.todo :
          /\ InOrder(p, e)
          /\ tmp' = [tmp EXCEPT !["dead_overflow"][e] = Revised(o.kind, file["pending"][e])]
          /\ op' = [op EXCEPT ![p].stage = "rename", ![p].cur = e]
    BY <1>0, <1>2 DEF MoveWrite
  <2>2. CountedStay
    BY <1>0, <1>2, <2>1 DEF MoveWrite, CountedStay, Counted, TypeOK, Dir
  <2>. QED  BY <1>0, <2>1, <2>2 DEF OpType
<1>3. CASE MoveRename(p)
  <2>1. /\ op' = [op EXCEPT ![p].stage = "remove"]
        /\ file' = [file EXCEPT !["dead_overflow"][o.cur] = tmp["dead_overflow"][o.cur]]
        /\ tmp' = [tmp EXCEPT !["dead_overflow"][o.cur] = None]
    BY <1>0, <1>3 DEF MoveRename
  <2>2. CountedStay
    BY <1>0, <2>1 DEF CountedStay, Counted, TypeOK, Dir
  <2>. QED  BY <1>0, <2>1, <2>2 DEF OpType
<1>4. CASE RenameMissing(p) \/ RemoveMissing(p)
  BY <1>4 DEF RenameMissing, RemoveMissing, Attended
<1>5. CASE MoveRemove(p)
  <2>1. /\ op'[p] = Moved(o) /\ o.cur \in Events /\ file["pending"][o.cur] # None /\ tmp' = tmp
        /\ file' = [file EXCEPT !["pending"][o.cur] = None]
    BY <1>0, <1>5 DEF MoveRemove, OpOK
  <2>2. /\ Done(o) \in OpType /\ Done(o).freed = o.freed /\ Done(o).size = o.size
        /\ Done(o).todo = o.todo \ {o.cur}
    BY <1>0, DoneType DEF Done, OpType
  <2>3. /\ Moved(o).freed = o.freed + Payload[o.cur] /\ Moved(o).size = o.size
        /\ Moved(o).todo = o.todo \ {o.cur}
    BY <1>0, <2>2 DEF Moved, OpType
  <2>4. Moved(o).kind = "evict" /\ Moved(o).stage = "pick" /\ Moved(o).new = o.new
    BY <1>0, <2>1, MovedType
  <2>. QED  BY <2>1, <2>3, <2>4
<1>6. CASE Evicted(p)
  <2>1. /\ op' = [op EXCEPT ![p].kind = "enqueue", ![p].todo = {op[p].new}]
        /\ o.stage = "pick" /\ (o.todo = {} \/ ~Overfull(p))
    BY <1>6 DEF Evicted
  <2>2. CountedStay
    BY <1>6 DEF Evicted, disk, CountedStay
  <2>. QED  BY <1>0, <2>1, <2>2 DEF OpType
<1>. QED  BY <1>0, <1>1, <1>2, <1>3, <1>4, <1>5, <1>6
          DEF Step, EnqueueWrite, EnqueueRename, PruneRemove

(* How Enqueue stores its event.                                           *)
LEMMA EnqueueSteps ==
  ASSUME ClaimInv, NEW p \in Procs, Attended(p), op[p].kind = "enqueue", Step(p)
  PROVE  LET o == op[p]
             n == op'[p]
         IN  /\ n.kind = "enqueue" /\ n.new = o.new
             /\ \/ /\ o.stage = "pick" /\ o.todo # {} /\ n.stage = "rename" /\ n.cur = o.new
                   /\ n.todo = o.todo /\ file' = file /\ tmp'["pending"][o.new] # None
                   /\ \A d \in Counted, e \in Events :
                        d # "pending" \/ e # o.new => tmp'[d][e] = tmp[d][e]
                \/ /\ o.stage = "rename" /\ n.stage = "pick" /\ n.todo = o.todo \ {o.cur}
                   /\ o.cur \in Events /\ EnqueueRename(p)
<1>. DEFINE o == op[p]
<1>0. /\ TypeOK /\ o \in OpType /\ OpOK(o) /\ op \in [Procs -> OpType] /\ o.kind = "enqueue"
  BY DEF ClaimInv, TypeOK
<1>1. CASE EnqueueWrite(p)
  <2>. DEFINE r == [attempts |-> 0, at |-> Cardinality(asked), due |-> TRUE]
  <2>1. /\ o.stage = "pick" /\ o.todo # {} /\ file' = file /\ o.new \in Events
        /\ tmp' = [tmp EXCEPT !["pending"][o.new] = r]
        /\ op' = [op EXCEPT ![p].stage = "rename", ![p].cur = o.new]
    BY <1>0, <1>1 DEF EnqueueWrite, OpOK
  <2>2. r \in Record
    BY <1>0, AskedIsFinite DEF Record
  <2>. HIDE DEF r
  <2>3. tmp'["pending"][o.new] # None
    BY <1>0, <2>1, <2>2, NoneIsNothing DEF TypeOK, Dir
  <2>4. \A d \in Counted, e \in Events : d # "pending" \/ e # o.new => tmp'[d][e] = tmp[d][e]
    BY <1>0, <2>1 DEF TypeOK, Dir, Counted
  <2>. QED  BY <1>0, <2>1, <2>3, <2>4 DEF OpType
<1>2. CASE EnqueueRename(p)
  <2>1. op'[p] = Done(o) /\ o.stage = "rename" /\ o.cur \in Events
    BY <1>0, <1>2 DEF EnqueueRename, Skip, OpOK
  <2>2. Done(o).todo = o.todo \ {o.cur}
    BY <1>0 DEF Done, OpType
  <2>. QED  BY <1>0, <1>2, <2>1, <2>2, DoneType
<1>3. CASE RenameMissing(p)
  BY <1>3 DEF RenameMissing, Attended
<1>. QED  BY <1>0, <1>1, <1>2, <1>3 DEF Step, MoveMissing, MoveWrite, MoveRename,
            MoveRemove, RemoveMissing, Evicted, PruneRemove, MoveKinds, OpOK

(* How a call begins one, and that nothing else leads to one.              *)
LEMMA CallSteps ==
  ASSUME ClaimInv, NEW p \in Procs,
         \/ AnyCall(p) \/ Return(p) \/ End(p)
         \/ Step(p) /\ op[p].kind \notin {"evict", "enqueue"}
  PROVE  \/ op'[p].kind \notin {"evict", "enqueue"}
         \/ \E e \in Events :
              /\ e \notin asked /\ file' = file /\ tmp' = tmp
              /\ op'[p].new = e /\ op'[p].stage = "pick"
              /\ \/ /\ op'[p].kind = "evict" /\ op'[p].todo = Listed("pending")
                    /\ op'[p].size = TotalBytes /\ op'[p].freed = 0
                 \/ /\ op'[p].kind = "enqueue" /\ op'[p].todo = {e}
                    /\ ~(MaxBytes > 0 /\ TotalBytes + Payload[e] > MaxBytes)
<1>. DEFINE o == op[p]
<1>0. /\ TypeOK /\ o \in OpType /\ OpOK(o) /\ op \in [Procs -> OpType]
  BY DEF ClaimInv, TypeOK
<1>1. ASSUME NEW e \in Events, Enqueue(p, e)
      PROVE  \/ op'[p].kind \notin {"evict", "enqueue"}
             \/ /\ e \notin asked /\ file' = file /\ tmp' = tmp
                /\ op'[p].new = e /\ op'[p].stage = "pick"
                /\ \/ /\ op'[p].kind = "evict" /\ op'[p].todo = Listed("pending")
                      /\ op'[p].size = TotalBytes /\ op'[p].freed = 0
                   \/ /\ op'[p].kind = "enqueue" /\ op'[p].todo = {e}
                      /\ ~(MaxBytes > 0 /\ TotalBytes + Payload[e] > MaxBytes)
  <2>. DEFINE full == MaxBytes > 0 /\ TotalBytes + Payload[e] > MaxBytes
              ev == Begin("evict", Listed("pending"), e, TotalBytes)
              en == Begin("enqueue", {e}, e, TotalBytes)
  <2>1. /\ e \notin asked /\ file' = file /\ tmp' = tmp /\ o.kind = "idle"
        /\ \/ op' = op
           \/ op' = [op EXCEPT ![p] = ev]
           \/ ~full /\ op' = [op EXCEPT ![p] = en]
    BY <1>0, <1>1, ConstantsOK DEF Enqueue, Free, disk
  <2>2. CASE op' = op
    BY <2>1, <2>2
  <2>3. CASE op' = [op EXCEPT ![p] = ev]
    <3>1. op'[p] = ev
      BY <1>0, <2>3
    <3>. QED  BY <2>1, <3>1 DEF Begin
  <2>4. CASE ~full /\ op' = [op EXCEPT ![p] = en]
    <3>1. op'[p] = en
      BY <1>0, <2>4
    <3>. QED  BY <2>1, <2>4, <3>1 DEF Begin
  <2>. QED  BY <2>1, <2>2, <2>3, <2>4
<1>2. CASE \/ \E d, n : Claim(p, d, n)
           \/ \E e \in held[p], k \in {"retry", "bury"} : Settle(p, e, k)
           \/ (\E c : Prune(p, c)) \/ Open(p)
  <2>1. \E k \in Kinds \ {"evict", "enqueue"} : \E S : op' = [op EXCEPT ![p] = Begin(k, S, None, 0)]
    BY <1>2 DEF Claim, Settle, Prune, Open, Kinds, MoveKinds
  <2>2. PICK k \in Kinds \ {"evict", "enqueue"} : \E S : op' = [op EXCEPT ![p] = Begin(k, S, None, 0)]
    BY <2>1
  <2>3. PICK S : op' = [op EXCEPT ![p] = Begin(k, S, None, 0)]
    BY <2>2
  <2>. QED  BY <1>0, <2>3, BeginFields
<1>3. CASE \E e \in held[p] : Ack(p, e) \/ AckFault(p, e)
  BY <1>3 DEF Ack, AckFault, Free
<1>4. CASE Return(p) \/ End(p)
  <2>1. op'[p] = Idle
    BY <1>0, <1>4 DEF Return, End
  <2>. QED  BY <2>1, BeginFields DEF Idle
<1>5. CASE Step(p) /\ o.kind \notin {"evict", "enqueue"}
  <2>1. CASE MoveMissing(p) \/ MoveWrite(p) \/ MoveRename(p) \/ PruneRemove(p)
    BY <1>0, <1>5, <2>1 DEF MoveMissing, MoveWrite, MoveRename, PruneRemove, OpType
  <2>2. CASE RenameMissing(p) \/ RemoveMissing(p) \/ MoveRemove(p)
    <3>1. op'[p] = Done(o) \/ op'[p] = Moved(o)
      BY <1>0, <2>2 DEF RenameMissing, RemoveMissing, MoveRemove, Skip
    <3>. QED  BY <1>0, <1>5, <3>1, DoneFields, MovedFields
  <2>. QED  BY <1>5, <2>1, <2>2 DEF Step, Evicted, EnqueueWrite, EnqueueRename
<1>. QED  BY <1>1, <1>2, <1>3, <1>4, <1>5 DEF AnyCall

(* The step does not touch the bytes, nor what is pending.                 *)
LEMMA StayBytes ==
  ASSUME CountedStay
  PROVE  TotalBytes' = TotalBytes /\ Listed("pending")' = Listed("pending")
BY SameBytes DEF CountedStay

(* The victim of each round is the oldest of all that is pending, since    *)
(* nothing becomes pending while the process that evicts holds the mutex.  *)
LEMMA VictimsKept ==
  ASSUME ClaimInv, NEW p \in Procs, p \in up => Attended(p), Victims(op[p]),
         Step(p) \/ Return(p) \/ AnyCall(p) \/ End(p)
  PROVE  Victims(op[p])'
<1>. DEFINE o == op[p]
            n == op'[p]
<1>0. o.kind # "idle" => Attended(p)
  BY DEF ClaimInv, InHandOK
<1>1. CASE Step(p) /\ o.kind = "evict"
  <2>1. \/ n.kind # "evict"
        \/ /\ n.stage = "pick" /\ CountedStay
           /\ \E e \in o.todo : file["pending"][e] = None /\ n.todo = o.todo \ {e}
        \/ /\ n.stage = "rename" /\ CountedStay
           /\ n.cur \in o.todo /\ n.todo = o.todo /\ InOrder(p, n.cur)
        \/ n.stage = "remove" /\ CountedStay /\ n.todo = o.todo
        \/ /\ n.stage = "pick" /\ n.todo = o.todo \ {o.cur} /\ o.cur \in Events
           /\ file' = [file EXCEPT !["pending"][o.cur] = None]
    BY <1>0, <1>1, EvictSteps
  <2>2. CASE n.kind # "evict"
    BY <2>2 DEF Victims
  <2>3. CASE /\ n.stage = "pick" /\ CountedStay
             /\ \E e \in o.todo : file["pending"][e] = None /\ n.todo = o.todo \ {e}
    BY <1>1, <2>3, StayBytes DEF Victims, Listed
  <2>4. CASE /\ n.stage = "rename" /\ CountedStay
             /\ n.cur \in o.todo /\ n.todo = o.todo /\ InOrder(p, n.cur)
    <3>1. Listed("pending")' = Listed("pending") /\ Listed("pending") \subseteq o.todo
      BY <1>1, <2>4, StayBytes DEF Victims
    <3>2. \A f \in o.todo \cap Listed("pending") :
            file["pending"][n.cur].at =< file["pending"][f].at
      BY <1>1, <2>4 DEF InOrder
    <3>3. n.cur \in Events /\ \A f \in Events : file'["pending"][f] = file["pending"][f]
      BY <2>4 DEF CountedStay, Counted, ClaimInv, TypeOK, OpType
    <3>4. \A f \in Listed("pending")' : file'["pending"][n.cur].at =< file'["pending"][f].at
      BY <3>1, <3>2, <3>3 DEF Listed
    <3>. QED  BY <2>4, <3>1, <3>4 DEF Victims
  <2>5. CASE n.stage = "remove" /\ CountedStay /\ n.todo = o.todo
    BY <1>1, <2>5, StayBytes DEF Victims
  <2>6. CASE /\ n.stage = "pick" /\ n.todo = o.todo \ {o.cur} /\ o.cur \in Events
             /\ file' = [file EXCEPT !["pending"][o.cur] = None]
    <3>1. Listed("pending")' = Listed("pending") \ {o.cur}
      BY <2>6 DEF Listed, ClaimInv, TypeOK, Dir
    <3>. QED  BY <1>1, <2>6, <3>1 DEF Victims
  <2>. QED  BY <2>1, <2>2, <2>3, <2>4, <2>5, <2>6
<1>2. CASE Step(p) /\ o.kind = "enqueue"
  BY <1>0, <1>2, EnqueueSteps DEF Victims
<1>3. CASE ~(Step(p) /\ o.kind \in {"evict", "enqueue"})
  <2>1. n.kind # "evict" \/ (file' = file /\ n.todo = Listed("pending") /\ n.stage = "pick")
    BY <1>3, CallSteps
  <2>. QED  BY <2>1 DEF Victims, Listed
<1>. QED  BY <1>1, <1>2, <1>3

(* What is freed is off the disk, and the new event's file finds the room   *)
(* that evictIfFull left it.                                               *)
LEMMA RoomKept ==
  ASSUME ClaimInv, NEW p \in Procs, p \in up => Attended(p),
         Victims(op[p]), Room(op[p]),
         Step(p) \/ Return(p) \/ AnyCall(p) \/ End(p)
  PROVE  Room(op[p])'
<1>. DEFINE o == op[p]
            n == op'[p]
<1>0. /\ o.kind # "idle" => Attended(p)
      /\ TypeOK /\ o \in OpType /\ OpOK(o) /\ MaxBytes \in Nat
      /\ o.kind \in {"evict", "enqueue"} => o.new \in Events
      /\ DOMAIN file = Dir /\ DOMAIN tmp = Dir /\ DOMAIN file["pending"] = Events
      /\ DOMAIN tmp["pending"] = Events
  BY ConstantsOK DEF ClaimInv, InHandOK, TypeOK, OpOK, Dir
<1>00. TotalBytes \in Nat /\ o.size \in Nat /\ o.freed \in Nat
  BY <1>0, TotalBytesType DEF OpType
<1>1. CASE Step(p) /\ o.kind = "evict"
  <2>0. /\ n.new = o.new /\ n.size = o.size /\ o.new \in Events /\ Payload[o.new] \in Nat
        /\ TotalBytes + o.freed =< o.size
        /\ file["pending"][o.new] = None /\ tmp["pending"][o.new] = None
    BY <1>0, <1>1, EvictSteps, ConstantsOK DEF Room
  <2>1. \/ n.kind = "evict" /\ n.freed = o.freed /\ CountedStay
        \/ /\ n.kind = "evict" /\ n.freed = o.freed + Payload[o.cur] /\ o.cur \in Events
           /\ file["pending"][o.cur] # None /\ tmp' = tmp
           /\ file' = [file EXCEPT !["pending"][o.cur] = None]
        \/ /\ n.kind = "enqueue" /\ n.stage = "pick" /\ n.todo = {o.new} /\ CountedStay
           /\ o.todo = {} \/ ~Overfull(p)
    BY <1>0, <1>1, EvictSteps
  <2>2. CASE n.kind = "evict" /\ n.freed = o.freed /\ CountedStay
    <3>1. TotalBytes' = TotalBytes /\ file'["pending"][o.new] = None /\ tmp'["pending"][o.new] = None
      BY <2>0, <2>2, StayBytes DEF CountedStay, Counted
    <3>. QED  BY <2>0, <2>2, <3>1 DEF Room
  <2>3. CASE /\ n.kind = "evict" /\ n.freed = o.freed + Payload[o.cur] /\ o.cur \in Events
             /\ file["pending"][o.cur] # None /\ tmp' = tmp
             /\ file' = [file EXCEPT !["pending"][o.cur] = None]
    <3>1. /\ file'["pending"][o.cur] = None /\ o.cur # o.new /\ tmp' = tmp
          /\ \A d \in {"inflight", "dead"}, x \in Events : file'[d][x] = file[d][x]
          /\ \A x \in Events \ {o.cur} : file'["pending"][x] = file["pending"][x]
      BY <1>0, <2>0, <2>3 DEF Dir
    <3>2. TotalBytes' + Payload[o.cur] =< TotalBytes
      BY <2>3, <3>1, PendingBytes
    <3>3. file'["pending"][o.new] = None /\ tmp'["pending"][o.new] = None
      BY <2>0, <3>1
    <3>4. TotalBytes' \in Nat /\ Payload[o.cur] \in Nat
      BY <1>0, <2>3, TotalIs, WeightType, ConstantsOK DEF Counted
    <3>5. TotalBytes' + n.freed =< n.size
      BY <1>00, <2>0, <2>3, <3>2, <3>4
    <3>. QED  BY <2>0, <2>3, <3>3, <3>5 DEF Room
  <2>4. CASE /\ n.kind = "enqueue" /\ n.stage = "pick" /\ n.todo = {o.new} /\ CountedStay
             /\ o.todo = {} \/ ~Overfull(p)
    <3>1. /\ TotalBytes' = TotalBytes /\ Listed("pending")' = Listed("pending")
          /\ file'["pending"][o.new] = None /\ tmp'["pending"][o.new] = None
      BY <2>0, <2>4, StayBytes DEF CountedStay, Counted
    <3>2. o.todo = {} => Listed("pending") = {}
      BY <1>1 DEF Victims
    <3>3. ~Overfull(p) => TotalBytes + Payload[o.new] =< MaxBytes + 0
      BY <1>0, <1>00, <2>0 DEF Overfull
    <3>4. Roomy(o.new, 0)'
      BY <2>0, <2>4, <3>1, <3>2, <3>3 DEF Roomy
    <3>. QED  BY <2>0, <2>4, <3>1, <3>4 DEF Room
  <2>. QED  BY <2>1, <2>2, <2>3, <2>4
<1>2. CASE Step(p) /\ o.kind = "enqueue"
  <2>1. /\ n.kind = "enqueue" /\ n.new = o.new /\ o.new \in Events
        /\ \/ /\ o.stage = "pick" /\ o.todo # {} /\ n.stage = "rename" /\ n.cur = o.new
              /\ n.todo = o.todo /\ file' = file /\ tmp'["pending"][o.new] # None
              /\ \A d \in Counted, e \in Events :
                   d # "pending" \/ e # o.new => tmp'[d][e] = tmp[d][e]
           \/ o.stage = "rename" /\ n.stage = "pick" /\ n.todo = o.todo \ {o.cur}
    BY <1>0, <1>2, EnqueueSteps
  <2>2. CASE /\ o.stage = "pick" /\ o.todo # {} /\ n.stage = "rename" /\ n.cur = o.new
             /\ n.todo = o.todo /\ file' = file /\ tmp'["pending"][o.new] # None
             /\ \A d \in Counted, e \in Events :
                  d # "pending" \/ e # o.new => tmp'[d][e] = tmp[d][e]
    <3>1. file["pending"][o.new] = None /\ tmp["pending"][o.new] = None /\ Roomy(o.new, 0)
      BY <1>2, <2>2 DEF Room
    <3>2. TotalBytes' = TotalBytes + Weight[{o.new}]
      BY <2>1, <2>2, <3>1, PendingBytes DEF Counted
    <3>3. Weight[{o.new}] \in Nat /\ Payload[o.new] \in Nat
      BY <2>1, WeightType
    <3>4. Roomy(o.new, Weight[{o.new}])'
      <4>1. TotalBytes + Payload[o.new] =< MaxBytes + 0 =>
              TotalBytes' + Payload[o.new] =< MaxBytes + Weight[{o.new}]
        BY <1>0, <1>00, <3>2, <3>3
      <4>2. Listed("pending")' = Listed("pending")
        BY <2>2 DEF Listed
      <4>. QED  BY <2>1, <3>1, <4>1, <4>2 DEF Roomy
    <3>5. n.cur = n.new /\ n.todo \subseteq {n.new} /\ file'["pending"][n.new] = None /\ tmp'["pending"][n.new] # None
      BY <1>2, <2>1, <2>2, <3>1 DEF Room
    <3>. QED  BY <2>1, <2>2, <3>4, <3>5 DEF Room
  <2>3. CASE o.stage = "rename" /\ n.stage = "pick" /\ n.todo = o.todo \ {o.cur}
    <3>1. o.cur = o.new /\ o.todo \subseteq {o.new}
      BY <1>2, <2>3 DEF Room
    <3>. QED  BY <2>1, <2>3, <3>1 DEF Room
  <2>. QED  BY <2>1, <2>2, <2>3
<1>3. CASE ~(Step(p) /\ o.kind \in {"evict", "enqueue"})
  <2>1. CASE n.kind \notin {"evict", "enqueue"}
    BY <2>1 DEF Room
  <2>2. ASSUME NEW e \in Events, e \notin asked, file' = file, tmp' = tmp,
               n.new = e, n.stage = "pick",
               \/ /\ n.kind = "evict" /\ n.todo = Listed("pending")
                  /\ n.size = TotalBytes /\ n.freed = 0
               \/ /\ n.kind = "enqueue" /\ n.todo = {e}
                  /\ ~(MaxBytes > 0 /\ TotalBytes + Payload[e] > MaxBytes)
        PROVE  Room(op[p])'
    <3>1. file'["pending"][e] = None /\ tmp'["pending"][e] = None
      BY <2>2 DEF ClaimInv, OnlyAsked, Dir
    <3>2. TotalBytes' = TotalBytes
      BY <2>2, SameBytes
    <3>3. TotalBytes + 0 =< TotalBytes
      BY <1>00
    <3>4. Payload[e] \in Nat
      BY ConstantsOK
    <3>5. n.kind = "enqueue" => Roomy(e, 0)'
      BY <1>0, <1>00, <2>2, <3>2, <3>4 DEF Roomy
    <3>. QED  BY <2>2, <3>1, <3>2, <3>3, <3>5 DEF Room
  <2>. QED  BY <1>3, <2>1, <2>2, CallSteps
<1>. QED  BY <1>1, <1>2, <1>3

(* Both are inductive, whatever client calls.                              *)
LEMMA CapStep ==
  ASSUME SoleProcess, ClaimInv, AllAttended, VictimsInv, AnyNext \/ UNCHANGED vars
  PROVE  VictimsInv' /\ (RoomInv => RoomInv')
<1>. SUFFICES ASSUME faults' = 0, NEW p \in Procs
              PROVE  Victims(op[p])' /\ (RoomInv => Room(op[p])')
  BY DEF VictimsInv, RoomInv
<1>0. TypeOK /\ op[p] \in OpType /\ OpOK(op[p])
  BY DEF ClaimInv, TypeOK
<1>1. CASE UNCHANGED vars
  <2>1. faults = 0 /\ \A d \in Counted, e \in Events : file'[d][e] = file[d][e] /\ tmp'[d][e] = tmp[d][e]
    BY <1>1 DEF vars
  <2>2. op' = op /\ file' = file /\ tmp' = tmp /\ TotalBytes' = TotalBytes
        /\ Listed("pending")' = Listed("pending")
    BY <1>1, <2>1, SameBytes DEF vars
  <2>. QED  BY <2>1, <2>2 DEF VictimsInv, Victims, RoomInv, Room, Roomy
<1>2. ASSUME NEW x \in Events, Elapse(x)
      PROVE  Victims(op[p])' /\ (RoomInv => Room(op[p])')
  <2>1. /\ \A d \in Dir, e \in Events : (file'[d][e] # None) <=> (file[d][e] # None)
        /\ UNCHANGED <<tmp, op>> /\ faults = 0
    BY <1>0, <1>2, ElapsePlaces
  <2>2. TotalBytes' = TotalBytes /\ Listed("pending")' = Listed("pending")
    BY <2>1, SameBytes DEF Counted, Dir
  <2>3. \A e \in Events : file["pending"][e] # None => file'["pending"][e].at = file["pending"][e].at
    <3>1. /\ file["pending"][x] \in Record
          /\ file' = [file EXCEPT !["pending"][x] = [file["pending"][x] EXCEPT !.due = TRUE]]
      BY <1>0, <1>2 DEF Elapse, TypeOK, RecordOrNone, Dir
    <3>2. [file["pending"][x] EXCEPT !.due = TRUE].at = file["pending"][x].at
      BY <3>1 DEF Record
    <3>. QED  BY <1>0, <3>1, <3>2 DEF TypeOK, Dir
  <2>4. Victims(op[p])'
    <3>1. op[p].kind = "evict" /\ op[p].stage = "rename" => file["pending"][op[p].cur] # None /\ op[p].cur \in Events
      BY <1>0, <2>1 DEF AllAttended, Attended, ClaimInv, InHandOK, MoveKinds, Src, OpOK
    <3>. QED  BY <2>1, <2>2, <2>3, <3>1 DEF VictimsInv, Victims, Listed
  <2>5. RoomInv => Room(op[p])'
    <3>1. op[p].kind \in {"evict", "enqueue"} => op[p].new \in Events
      BY <1>0 DEF OpOK
    <3>. QED  BY <2>1, <2>2, <3>1 DEF RoomInv, Room, Roomy, Dir
  <2>. QED  BY <2>4, <2>5
<1>3. ASSUME NEW q \in Procs, Step(q) \/ Return(q) \/ Fault(q) \/ AnyCall(q) \/ End(q)
      PROVE  Victims(op[p])' /\ (RoomInv => Room(op[p])')
  <2>1. faults = 0 /\ ~Fault(q)
    BY <1>0, <1>3, NoFault
  <2>2. p = q
    BY DEF SoleProcess
  <2>3. (p \in up => Attended(p)) /\ Victims(op[p]) /\ (RoomInv => Room(op[p]))
    BY <2>1 DEF AllAttended, VictimsInv, RoomInv
  <2>. QED  BY <1>3, <2>1, <2>2, <2>3, VictimsKept, RoomKept
<1>. QED  BY <1>1, <1>2, <1>3 DEF AnyNext

(* At the start nothing is being stored.                                   *)
LEMMA CapInit == Init => AllAttended /\ VictimsInv /\ RoomInv
<1>. SUFFICES ASSUME Init PROVE AllAttended /\ VictimsInv /\ RoomInv
  OBVIOUS
<1>1. \A p \in Procs : op[p] = Idle /\ Idle.kind = "idle"
  BY BeginFields DEF Init, Idle
<1>. QED  BY <1>1 DEF Init, AllAttended, VictimsInv, Victims, RoomInv, Room

(* evictIfFull takes the oldest, for every number of events and every cap: *)
(* while one process at a time has the directory and no file operation     *)
(* failed, a record goes to overflow only when none that is pending was    *)
(* enqueued before it.                                                     *)
THEOREM EvictsOldestTheorem ==
  ASSUME SoleProcess
  PROVE  Spec => EvictsOldest
<1>. DEFINE I == ClaimInv /\ AllAttended /\ VictimsInv
            A == \A p \in Procs, e \in Events :
                   (MoveRename(p) /\ op[p].kind = "evict" /\ op[p].cur = e /\ faults = 0)
                     => \A f \in Listed("pending") :
                          file["pending"][f].at >= file["pending"][e].at
<1>1. Init => I
  BY ClaimInit, CapInit
<1>2. I /\ [Next]_vars => I'
  BY ClaimStep, AttendedStep, CapStep, NextIsAny
<1>3. I => A
  <2>. SUFFICES ASSUME I, NEW p \in Procs, NEW e \in Events, MoveRename(p),
                       op[p].kind = "evict", op[p].cur = e, faults = 0,
                       NEW f \in Listed("pending")
                PROVE  file["pending"][f].at >= file["pending"][e].at
    OBVIOUS
  <2>1. Attended(p) /\ Victims(op[p]) /\ op[p].stage = "rename" /\ TypeOK
    BY DEF AllAttended, VictimsInv, MoveRename, ClaimInv, InHandOK
  <2>2. file["pending"][e] # None
    BY <2>1 DEF Attended, MoveKinds, Src
  <2>3. file["pending"][e] \in Record /\ file["pending"][f] \in Record
    BY <2>1, <2>2 DEF TypeOK, RecordOrNone, Dir, Listed
  <2>4. file["pending"][e].at =< file["pending"][f].at
    BY <2>1 DEF Victims
  <2>. QED  BY <2>3, <2>4 DEF Record
<1>4. EvictsOldest <=> [][A]_vars
  BY DEF EvictsOldest
<1>. HIDE DEF I, A
<1>. QED  BY <1>1, <1>2, <1>3, <1>4, PTL DEF Spec

(* evictIfFull makes room, for every number of events, cap and payload     *)
(* sizes: while one process at a time has the directory and no file        *)
(* operation failed, the step that stores an event leaves the queue within *)
(* its cap, the new record's header apart, or nothing else was pending.    *)
THEOREM CapTheorem ==
  ASSUME SoleProcess
  PROVE  Spec => CapOrNothingLeft
<1>. DEFINE I == ClaimInv /\ AllAttended /\ VictimsInv /\ RoomInv
            A == \A p \in Procs, e \in Events :
                   (EnqueueRename(p) /\ op[p].cur = e /\ faults = 0 /\ MaxBytes > 0)
                     => \/ TotalBytes' + Payload[e] =< MaxBytes + Weight[{e}]
                        \/ \A f \in Events \ {e} : file["pending"][f] = None
<1>1. Init => I
  BY ClaimInit, CapInit
<1>2. I /\ [Next]_vars => I'
  BY ClaimStep, AttendedStep, CapStep, NextIsAny
<1>3. I => A
  <2>. SUFFICES ASSUME I, NEW p \in Procs, NEW e \in Events, EnqueueRename(p),
                       op[p].cur = e, faults = 0, MaxBytes > 0
                PROVE  \/ TotalBytes' + Payload[e] =< MaxBytes + Weight[{e}]
                       \/ \A f \in Events \ {e} : file["pending"][f] = None
    OBVIOUS
  <2>1. /\ TypeOK /\ op[p].cur = op[p].new /\ file["pending"][e] = None
        /\ Roomy(e, Weight[{e}])
    BY DEF RoomInv, Room, EnqueueRename, ClaimInv
  <2>2. /\ tmp["pending"][e] # None
        /\ file' = [file EXCEPT !["pending"][e] = tmp["pending"][e]]
        /\ tmp' = [tmp EXCEPT !["pending"][e] = None]
    BY DEF EnqueueRename
  <2>3. /\ file'["pending"][e] # None /\ tmp'["pending"][e] = None
        /\ \A d \in {"inflight", "dead"}, x \in Events : file'[d][x] = file[d][x] /\ tmp'[d][x] = tmp[d][x]
        /\ \A x \in Events \ {e} : file'["pending"][x] = file["pending"][x] /\ tmp'["pending"][x] = tmp["pending"][x]
    BY <2>1, <2>2 DEF TypeOK, Dir
  <2>4. TotalBytes' = TotalBytes
    BY <2>1, <2>2, <2>3, PendingBytes
  <2>. QED  BY <2>1, <2>4 DEF Roomy, Listed
<1>4. CapOrNothingLeft <=> [][A]_vars
  BY DEF CapOrNothingLeft
<1>. HIDE DEF I, A
<1>. QED  BY <1>1, <1>2, <1>3, <1>4, PTL DEF Spec

=============================================================================
