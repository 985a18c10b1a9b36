-------------------------- MODULE Pipeline_proofs --------------------------
(***************************************************************************)
(* Proofs about what happens to a call or a turn before it is enqueued: no *)
(* price outlives its time by going from cache to cache, the bill is from  *)
(* the right source, and nothing leaves that the profile or the config     *)
(* keeps back.                                                             *)
(***************************************************************************)
EXTENDS Pipeline, FiniteSetTheorems, SequenceTheorems, WellFoundedInduction, TLAPS

-----------------------------------------------------------------------------
(* Induction, and folds over sequences                                     *)

\* A set of numbers that is not empty has a least member.
LEMMA Least ==
  ASSUME NEW S \in SUBSET Nat, S # {}
  PROVE  \E x \in S : \A y \in S : x =< y
<1>1. IsWellFoundedOn({ss \in Nat \X Nat : ss[1] < ss[2]}, Nat)
  BY NatLessThanWellFounded DEF OpToRel
<1>2. PICK x \in S : \A y \in S : ~(<<y, x>> \in {ss \in Nat \X Nat : ss[1] < ss[2]})
  <2>1. S \subseteq Nat
    OBVIOUS
  <2>. QED  BY <1>1, <2>1, WFMin, Zenon
<1>3. ASSUME NEW y \in S PROVE x =< y
  <2>1. x \in Nat /\ y \in Nat /\ <<y, x>> \in Nat \X Nat
    OBVIOUS
  <2>2. ~(<<y, x>>[1] < <<y, x>>[2])
    BY <1>2, <2>1, Zenon
  <2>. QED  BY <2>1, <2>2
<1>. QED  BY <1>3

\* A set that has a number, and with a number its successor, has all of them.
LEMMA Induct ==
  ASSUME NEW a \in Nat, NEW n \in Nat, NEW S,
         a \in S, \A k \in a .. n : k # n /\ k \in S => k + 1 \in S
  PROVE  \A k \in a .. n : k \in S
<1>. DEFINE T == {k \in a .. n : k \notin S}
<1>. SUFFICES ASSUME T # {} PROVE FALSE
  OBVIOUS
<1>1. PICK x \in T : \A y \in T : x =< y
  <2>. HIDE DEF T
  <2>1. T \in SUBSET Nat
    BY DEF T
  <2>. QED  BY <2>1, Least
<1>2. x # a /\ x - 1 \in a .. n /\ x - 1 # n /\ x = (x - 1) + 1
  BY <1>1
<1>3. x - 1 \notin T
  BY <1>1
<1>4. x - 1 \in S
  BY <1>2, <1>3
<1>. QED  BY <1>1, <1>2, <1>4

\* The greatest member of a set of numbers.
LEMMA MaxIs ==
  ASSUME NEW s \in SUBSET Nat, NEW k \in s, \A y \in s : y =< k
  PROVE  Max(s) = k
<1>1. PICK x : x = Max(s)
  OBVIOUS
<1>2. x \in s /\ \A y \in s : x >= y
  BY <1>1 DEF Max
<1>. QED  BY <1>1, <1>2

LEMMA MaxOfInterval ==
  ASSUME NEW i \in Nat, i > 0
  PROVE  1 .. i # {} /\ Max(1 .. i) = i /\ (1 .. i) \ {i} = 1 .. (i - 1)
<1>1. i \in 1 .. i /\ 1 .. i \in SUBSET Nat /\ \A y \in 1 .. i : y =< i
  OBVIOUS
<1>2. Max(1 .. i) = i
  BY <1>1, MaxIs
<1>. QED  BY <1>1, <1>2

\* What is folded over a sequence: the rules of a profile over an event, the
\* parts that are too long over an event, the objects of a payload over a bill.
Step(op, acc, x) ==
  CASE op = "rule" -> ApplyOne(acc, x)
    [] op = "mark" -> Shortened(acc, x)
    [] op = "merge" -> Merge(acc, Own(x))

\* What FoldLeft tabulates: for every set of positions up to n, what the elements
\* there make of base.
Tabulates(f, op, base, seq, n) ==
  f = [s \in SUBSET (1 .. n) |-> IF s = {} THEN base ELSE Step(op, f[s \ {Max(s)}], seq[Max(s)])]

(* There is such a table.                                                  *)
LEMMA TableExists ==
  ASSUME NEW op, NEW base, NEW seq, NEW n \in Nat
  PROVE  \E f : Tabulates(f, op, base, seq, n)
<1>. DEFINE S == {k \in 0 .. n : \E f : Tabulates(f, op, base, seq, k)}
<1>1. 0 \in S
  <2>. DEFINE f == [s \in SUBSET (1 .. 0) |-> base]
  <2>1. Tabulates(f, op, base, seq, 0)
    BY DEF Tabulates
  <2>. QED  BY <2>1
<1>2. ASSUME NEW k \in 0 .. n, k # n, k \in S
      PROVE  k + 1 \in S
  <2>1. PICK f : Tabulates(f, op, base, seq, k)
    BY <1>2
  <2>. DEFINE g == [s \in SUBSET (1 .. k + 1) |-> IF k + 1 \in s THEN Step(op, f[s \ {k + 1}], seq[k + 1])
                                                  ELSE f[s]]
  <2>2. \A s \in SUBSET (1 .. k) : f[s] = IF s = {} THEN base ELSE Step(op, f[s \ {Max(s)}], seq[Max(s)])
    BY <2>1 DEF Tabulates
  <2>3. ASSUME NEW s \in SUBSET (1 .. k + 1)
        PROVE  g[s] = IF s = {} THEN base ELSE Step(op, g[s \ {Max(s)}], seq[Max(s)])
    <3>1. CASE k + 1 \in s
      <4>1. Max(s) = k + 1
        BY <3>1, MaxIs
      <4>2. s \ {k + 1} \in SUBSET (1 .. k + 1) /\ k + 1 \notin s \ {k + 1}
        OBVIOUS
      <4>3. g[s \ {k + 1}] = f[s \ {k + 1}]
        BY <4>2
      <4>4. g[s] = Step(op, f[s \ {k + 1}], seq[k + 1])
        BY <3>1
      <4>. QED  BY <3>1, <4>1, <4>3, <4>4
    <3>2. CASE k + 1 \notin s
      <4>1. s \in SUBSET (1 .. k) /\ g[s] = f[s]
        BY <3>2
      <4>2. g[s \ {Max(s)}] = f[s \ {Max(s)}]
        <5>1. s \ {Max(s)} \in SUBSET (1 .. k + 1) /\ k + 1 \notin s \ {Max(s)}
          BY <3>2
        <5>. QED  BY <5>1
      <4>. QED  BY <2>2, <4>1, <4>2
    <3>. QED  BY <3>1, <3>2
  <2>4. Tabulates(g, op, base, seq, k + 1)
    <3>1. g = [s \in SUBSET (1 .. k + 1) |-> g[s]]
      OBVIOUS
    <3>. HIDE DEF g
    <3>. QED  BY <2>3, <3>1 DEF Tabulates
  <2>. QED  BY <1>2, <2>4
<1>. HIDE DEF S
<1>3. n \in S
  BY <1>1, <1>2, Induct
<1>. QED  BY <1>3 DEF S

\* The results of a fold, one after the other.
Steps(h, op, base, seq, n) ==
  /\ h[0] = base
  /\ \A i \in 1 .. n : h[i] = Step(op, h[i - 1], seq[i])

(* A table has the results of going from element to element.               *)
LEMMA TableSteps ==
  ASSUME NEW op, NEW base, NEW seq, NEW n \in Nat, NEW f, Tabulates(f, op, base, seq, n)
  PROVE  \E h : Steps(h, op, base, seq, n) /\ h[n] = f[1 .. n]
<1>. DEFINE h == [i \in 0 .. n |-> f[1 .. i]]
<1>1. h[0] = base
  BY DEF Tabulates
<1>2. ASSUME NEW i \in 1 .. n
      PROVE  h[i] = Step(op, h[i - 1], seq[i])
  <2>1. 1 .. i \in SUBSET (1 .. n) /\ i - 1 \in 0 .. n /\ i \in 0 .. n
    OBVIOUS
  <2>2. 1 .. i # {} /\ Max(1 .. i) = i /\ (1 .. i) \ {i} = 1 .. (i - 1)
    <3>1. i \in Nat /\ i > 0
      OBVIOUS
    <3>. QED  BY <3>1, MaxOfInterval
  <2>3. f[1 .. i] = IF 1 .. i = {} THEN base ELSE Step(op, f[(1 .. i) \ {Max(1 .. i)}], seq[Max(1 .. i)])
    BY <2>1 DEF Tabulates
  <2>. QED  BY <2>1, <2>2, <2>3
<1>3. h[n] = f[1 .. n]
  OBVIOUS
<1>. HIDE DEF h
<1>. QED  BY <1>1, <1>2, <1>3 DEF Steps

(* The three folds go from element to element.                             *)
LEMMA ApplySteps ==
  ASSUME NEW base, NEW profile, NEW n \in Nat, DOMAIN Profile(profile) = 1 .. n
  PROVE  \E h : Steps(h, "rule", base, Profile(profile), n) /\ Apply(base, profile) = h[n]
<1>. DEFINE seq == Profile(profile)
            T(f) == f = [s \in SUBSET (DOMAIN seq) |->
                          IF s = {} THEN base ELSE ApplyOne(f[s \ {Max(s)}], seq[Max(s)])]
            f == CHOOSE f : T(f)
<1>1. \A g : T(g) <=> Tabulates(g, "rule", base, seq, n)
  BY DEF Tabulates, Step
<1>2. T(f)
  BY <1>1, TableExists
<1>3. Apply(base, profile) = f[DOMAIN seq]
  BY DEF Apply, FoldLeft, MapThenFoldSet
<1>4. Tabulates(f, "rule", base, seq, n)
  BY <1>1, <1>2
<1>. HIDE DEF f, T
<1>. QED  BY <1>3, <1>4, TableSteps

\* A marker for each of the parts.
MarkAll(event, parts) == FoldLeft(Shortened, event, SetToSeq(parts))

LEMMA MarkSteps ==
  ASSUME NEW base, NEW parts, NEW n \in Nat, DOMAIN SetToSeq(parts) = 1 .. n
  PROVE  \E h : Steps(h, "mark", base, SetToSeq(parts), n) /\ MarkAll(base, parts) = h[n]
<1>. DEFINE seq == SetToSeq(parts)
            T(f) == f = [s \in SUBSET (DOMAIN seq) |->
                          IF s = {} THEN base ELSE Shortened(f[s \ {Max(s)}], seq[Max(s)])]
            f == CHOOSE f : T(f)
<1>1. \A g : T(g) <=> Tabulates(g, "mark", base, seq, n)
  BY DEF Tabulates, Step
<1>2. T(f)
  BY <1>1, TableExists
<1>3. MarkAll(base, parts) = f[DOMAIN seq]
  BY DEF MarkAll, FoldLeft, MapThenFoldSet
<1>4. Tabulates(f, "mark", base, seq, n)
  BY <1>1, <1>2
<1>. HIDE DEF f, T
<1>. QED  BY <1>3, <1>4, TableSteps

LEMMA MergeSteps ==
  ASSUME NEW payload, NEW n \in Nat, DOMAIN Tail(payload) = 1 .. n
  PROVE  \E h : Steps(h, "merge", Own(Head(payload)), Tail(payload), n) /\ Extract(payload) = h[n]
<1>. DEFINE base == Own(Head(payload))
            seq == Tail(payload)
            T(f) == f = [s \in SUBSET (DOMAIN seq) |->
                          IF s = {} THEN base ELSE Merge(f[s \ {Max(s)}], Own(seq[Max(s)]))]
            f == CHOOSE f : T(f)
<1>1. \A g : T(g) <=> Tabulates(g, "merge", base, seq, n)
  BY DEF Tabulates, Step
<1>2. T(f)
  BY <1>1, TableExists
<1>3. Extract(payload) = f[DOMAIN seq]
  BY DEF Extract, FoldLeft, MapThenFoldSet
<1>4. Tabulates(f, "merge", base, seq, n)
  BY <1>1, <1>2
<1>. HIDE DEF f, T
<1>. QED  BY <1>3, <1>4, TableSteps

-----------------------------------------------------------------------------
(* What a payload says                                                     *)

\* v is the first value that the objects up to n have for a field.
First(v, payload, field, n) ==
  \/ v = {} /\ \A j \in 1 .. n : payload[j][field] = {}
  \/ \E j \in 1 .. n : /\ payload[j][field] # {} /\ v = payload[j][field]
                       /\ \A i \in 1 .. j - 1 : payload[i][field] = {}

LEMMA FirstSays ==
  ASSUME NEW payload, NEW field, NEW n \in Nat, DOMAIN payload = 1 .. n,
         NEW v, First(v, payload, field, n)
  PROVE  v = Says(payload, field)
<1>. DEFINE at == {i \in DOMAIN payload : payload[i][field] # {}}
            first == CHOOSE i \in at : \A j \in at : i =< j
<1>1. Says(payload, field) = IF at = {} THEN {} ELSE payload[first][field]
  BY DEF Says
<1>2. CASE v = {} /\ \A j \in 1 .. n : payload[j][field] = {}
  BY <1>1, <1>2
<1>3. ASSUME NEW j \in 1 .. n, payload[j][field] # {}, v = payload[j][field],
             \A i \in 1 .. j - 1 : payload[i][field] = {}
      PROVE  v = Says(payload, field)
  <2>1. at \in SUBSET Nat /\ at # {} /\ j \in at /\ \A i \in at : i \in 1 .. n /\ i \notin 1 .. j - 1
    BY <1>3
  <2>2. first \in at /\ \A i \in at : first =< i
    <3>1. \E k \in at : \A i \in at : k =< i
      BY <2>1, Least
    <3>. QED  BY <3>1
  <2>3. PICK k : k = first
    OBVIOUS
  <2>. HIDE DEF first, at
  <2>4. k = j
    BY <2>1, <2>2, <2>3
  <2>. QED  BY <1>1, <1>3, <2>1, <2>3, <2>4
<1>. QED  BY <1>2, <1>3 DEF First

LEMMA OwnSays ==
  /\ \A o : \A field \in {"cost", "model"} : Own(o)[field] = o[field]
  /\ \A a, b : \A field \in {"cost", "model"} : Merge(a, b)[field] = Or(a[field], b[field])
  /\ \A o : Own(o).source = "none" /\ DOMAIN Own(o) = DOMAIN Unbilled
  /\ \A a, b : Merge(a, b).source = a.source /\ DOMAIN Merge(a, b) = DOMAIN Unbilled
BY DEF Own, Merge, Unbilled

(* Extract: what one object does not say, the next may.                    *)
LEMMA ExtractSays ==
  ASSUME NEW payload \in Payloads
  PROVE  /\ Extract(payload).cost = Says(payload, "cost")
         /\ Extract(payload).model = Says(payload, "model")
         /\ Extract(payload).model \subseteq Models
         /\ Extract(payload).source = "none" /\ DOMAIN Extract(payload) = DOMAIN Unbilled
<1>. DEFINE R == [cost : SUBSET STRING, in : SUBSET Nat, cache : SUBSET Nat, out : SUBSET Nat, model : SUBSET Models]
<1>1. payload \in Seq(R) /\ payload # <<>>
  BY PipelineConstantsOK
<1>2. PICK m \in Nat : Len(payload) = m + 1
  <2>. HIDE DEF R
  <2>1. Len(payload) \in Nat \ {0}
    BY <1>1, EmptySeq
  <2>. QED  BY <2>1
<1>3. /\ DOMAIN payload = 1 .. m + 1 /\ DOMAIN Tail(payload) = 1 .. m
      /\ Head(payload) = payload[1] /\ \A i \in 1 .. m : Tail(payload)[i] = payload[i + 1]
      /\ \A i \in 1 .. m + 1 : payload[i] \in R
  <2>. HIDE DEF R
  <2>1. /\ Tail(payload) \in Seq(R) /\ Len(Tail(payload)) = Len(payload) - 1
        /\ \A i \in 1 .. Len(Tail(payload)) : Tail(payload)[i] = payload[i + 1]
    BY <1>1, HeadTailProperties
  <2>2. \A i \in 1 .. Len(payload) : payload[i] \in R
    BY <1>1, ElementOfSeq
  <2>. QED  BY <1>1, <1>2, <2>1, <2>2
<1>4. PICK h : Steps(h, "merge", Own(Head(payload)), Tail(payload), m) /\ Extract(payload) = h[m]
  BY <1>3, MergeSteps
<1>5. h[0] = Own(payload[1]) /\ \A i \in 1 .. m : h[i] = Merge(h[i - 1], Own(payload[i + 1]))
  BY <1>3, <1>4 DEF Steps, Step
<1>. HIDE DEF R
<1>6. ASSUME NEW field \in {"cost", "model"}
      PROVE  Extract(payload)[field] = Says(payload, field)
  <2>. DEFINE S == {k \in 0 .. m : First(h[k][field], payload, field, k + 1)}
  <2>1. 0 \in S
    <3>1. h[0][field] = payload[1][field]
      BY <1>5, OwnSays
    <3>. QED  BY <3>1 DEF First
  <2>2. ASSUME NEW k \in 0 .. m, k # m, k \in S
        PROVE  k + 1 \in S
    <3>1. k + 1 \in 1 .. m /\ (k + 1) - 1 = k
      BY <2>2
    <3>2. h[k + 1][field] = Or(h[k][field], payload[k + 2][field])
      <4>1. h[k + 1] = Merge(h[k], Own(payload[k + 2]))
        BY <1>5, <3>1
      <4>. QED  BY <4>1, OwnSays
    <3>3. First(h[k][field], payload, field, k + 1)
      BY <2>2
    <3>4. First(h[k + 1][field], payload, field, k + 2)
      <4>1. CASE h[k][field] = {} /\ \A j \in 1 .. k + 1 : payload[j][field] = {}
        BY <3>1, <3>2, <4>1 DEF First, Or
      <4>2. CASE \E j \in 1 .. k + 1 : /\ payload[j][field] # {} /\ h[k][field] = payload[j][field]
                                       /\ \A i \in 1 .. j - 1 : payload[i][field] = {}
        BY <3>1, <3>2, <4>2 DEF First, Or
      <4>. QED  BY <3>3, <4>1, <4>2 DEF First
    <3>. QED  BY <3>1, <3>4
  <2>. HIDE DEF S
  <2>3. m \in S
    BY <2>1, <2>2, Induct
  <2>4. First(Extract(payload)[field], payload, field, m + 1)
    BY <1>4, <2>3 DEF S
  <2>. QED  BY <1>3, <2>4, FirstSays
<1>7. Says(payload, "model") \subseteq Models
  <2>1. Says(payload, "model") = {} \/ \E i \in DOMAIN payload : Says(payload, "model") = payload[i].model
    <3>. DEFINE at == {i \in DOMAIN payload : payload[i].model # {}}
    <3>1. CASE at = {}
      BY <3>1 DEF Says
    <3>2. CASE at # {}
      <4>1. at \in SUBSET Nat
        BY <1>3
      <4>2. \E k \in at : \A i \in at : k =< i
        BY <3>2, <4>1, Least
      <4>. QED  BY <3>2, <4>2 DEF Says
    <3>. QED  BY <3>1, <3>2
  <2>. QED  BY <1>3, <2>1 DEF R
<1>8. Extract(payload).source = "none" /\ DOMAIN Extract(payload) = DOMAIN Unbilled
  <2>. DEFINE S == {k \in 0 .. m : h[k].source = "none" /\ DOMAIN h[k] = DOMAIN Unbilled}
  <2>1. 0 \in S
    BY <1>5, OwnSays
  <2>2. ASSUME NEW k \in 0 .. m, k # m, k \in S
        PROVE  k + 1 \in S
    <3>1. k + 1 \in 1 .. m /\ (k + 1) - 1 = k
      BY <2>2
    <3>2. h[k + 1] = Merge(h[k], Own(payload[k + 2]))
      BY <1>5, <3>1
    <3>. QED  BY <2>2, <3>1, <3>2, OwnSays
  <2>. HIDE DEF S
  <2>3. m \in S
    BY <2>1, <2>2, Induct
  <2>. QED  BY <1>4, <2>3 DEF S
<1>. QED  BY <1>6, <1>7, <1>8

-----------------------------------------------------------------------------
(* Prices                                                                   *)

\* What a cache holds for a model m at time t: nothing, or an answer about m
\* that was given by then and expires TTL after it was.
Kept(e, m, t) ==
  e # None => /\ e.model = m
              /\ e.asked \in Nat /\ e.asked =< t
              /\ e.expires = e.asked + TTL

\* A cache, which is a function on the models, at time t.
Holds(cache, t) ==
  /\ DOMAIN cache = Models
  /\ \A m \in Models : Kept(cache[m], m, t)

Fields == {"pc", "kind", "call", "model", "entry", "at", "file", "bill"}
Asking == {"lookup", "fetch", "disk_read", "disk_write"}

\* A process at time t: the answer it found was fresh when it found it, and
\* what it is about to write to the file is a cache.
Sound(x, t) ==
  /\ DOMAIN x = Fields
  /\ x.pc \in Asking => x.model \in Models
  /\ Kept(x.entry, x.model, t)
  /\ x.entry # None => x.at \in Nat /\ x.entry.asked =< x.at /\ x.at =< x.entry.expires
  /\ x.pc = "disk_write" => Holds(x.file, t)

AllSound ==
  /\ now \in Nat
  /\ DOMAIN mem = Procs /\ \A p \in Procs : Holds(mem[p], now)
  /\ Holds(disk, now)
  /\ DOMAIN proc = Procs /\ \A p \in Procs : Sound(proc[p], now)

(* What is sound stays sound as time passes.                               *)
LEMMA SoundLater ==
  ASSUME NEW t \in Nat, NEW u \in Nat, t =< u
  PROVE  /\ \A e, m : Kept(e, m, t) => Kept(e, m, u)
         /\ \A cache : Holds(cache, t) => Holds(cache, u)
         /\ \A x : Sound(x, t) => Sound(x, u)
BY DEF Kept, Holds, Sound

(* A process that does not ask, and has found nothing, is sound.           *)
LEMMA PlainSound ==
  ASSUME NEW x, DOMAIN x = Fields, x.pc \notin Asking, x.entry = None
  PROVE  Sound(x, now)
BY DEF Sound, Kept, Asking

(* It is enough to look at the process that took the step.                 *)
LEMMA OneSound ==
  ASSUME AllSound, NEW p \in Procs, NEW x, Sound(x, now), Become(p, x),
         UNCHANGED now, Holds(disk', now), DOMAIN mem' = Procs,
         \A q \in Procs : mem'[q] = mem[q] \/ Holds(mem'[q], now)
  PROVE  AllSound'
BY DEF AllSound, Become

(* A call or a turn begins; only one with a known model asks for a price.   *)
LEMMA TakeSound ==
  ASSUME AllSound, NEW p \in Procs,
         \/ \E payload \in Payloads : TakeCall(p, payload)
         \/ \E t \in Turns, model \in Models : TakeTurn(p, t, model)
  PROVE  AllSound'
<1>1. ASSUME NEW call, NEW kind, NEW model, NEW ask \in BOOLEAN, Take(p, call, kind, model, ask),
             ask => model \in Models
      PROVE  AllSound'
  <2>. DEFINE x == [Idle EXCEPT !.pc = IF ask THEN "lookup" ELSE "emit", !.kind = kind,
                                !.call = call, !.model = model]
  <2>1. DOMAIN x = Fields /\ x.pc = (IF ask THEN "lookup" ELSE "emit") /\ x.model = model /\ x.entry = None
    BY DEF Idle, Fields
  <2>2. Sound(x, now)
    BY <1>1, <2>1 DEF Sound, Kept, Asking
  <2>3. Become(p, x) /\ UNCHANGED cachevars
    BY <1>1 DEF Take
  <2>. QED  BY <2>2, <2>3, OneSound DEF AllSound, cachevars
<1>2. ASSUME NEW payload \in Payloads, TakeCall(p, payload)
      PROVE  AllSound'
  <2>. DEFINE b == Extract(payload)
              model == IF b.model = {} THEN "none" ELSE CHOOSE m \in b.model : TRUE
  <2>1. Estimable(b) \in BOOLEAN /\ (Estimable(b) => model \in Models)
    BY ExtractSays DEF Estimable
  <2>2. Take(p, b, "call", model, Estimable(b))
    BY <1>2 DEF TakeCall
  <2>. QED  BY <1>1, <2>1, <2>2
<1>3. ASSUME NEW t \in Turns, NEW model \in Models, TakeTurn(p, t, model)
      PROVE  AllSound'
  <2>1. (t.delta + t.out > 0) \in BOOLEAN
    OBVIOUS
  <2>. QED  BY <1>1, <1>3, <2>1 DEF TakeTurn
<1>. QED  BY <1>2, <1>3

(* Memory, the file and the service: what one hands on has the time that it *)
(* was given with it.                                                      *)
LEMMA CacheSound ==
  ASSUME AllSound, NEW p \in Procs, CacheStep(p)
  PROVE  AllSound'
<1>1. Sound(proc[p], now) /\ Holds(mem[p], now) /\ Holds(disk, now) /\ now \in Nat /\ TTL \in Nat
  BY PriceConstantsOK DEF AllSound
<1>2. DOMAIN proc[p] = Fields /\ (proc[p].pc \in Asking => proc[p].model \in Models)
  BY <1>1 DEF Sound
<1>3. ASSUME NEW e, e # None, Kept(e, proc[p].model, now), now =< e.expires
      PROVE  Sound(Found(p, e), now)
  <2>. DEFINE x == Found(p, e)
  <2>1. /\ DOMAIN x = Fields /\ x.pc = "emit" /\ x.entry = e /\ x.at = now
        /\ x.model = proc[p].model
    BY <1>2 DEF Found, Fields
  <2>. QED  BY <1>1, <1>3, <2>1 DEF Sound, Kept, Asking
<1>4. CASE Lookup(p)
  <2>. DEFINE m == proc[p].model
              fetching == [proc[p] EXCEPT !.pc = "fetch"]
  <2>1. m \in Models /\ UNCHANGED <<disk, now>>
    BY <1>2, <1>4 DEF Lookup, Asking
  <2>2. CASE Fresh(mem[p][m]) /\ Become(p, Found(p, mem[p][m])) /\ UNCHANGED mem
    <3>1. Sound(Found(p, mem[p][m]), now)
      BY <1>1, <1>3, <2>1, <2>2 DEF Fresh, Holds
    <3>. QED  BY <1>1, <2>1, <2>2, <3>1, OneSound DEF AllSound
  <2>3. CASE Fresh(disk[m]) /\ mem' = [mem EXCEPT ![p][m] = Promoted(disk[m])] /\ Become(p, Found(p, disk[m]))
    <3>1. Sound(Found(p, disk[m]), now)
      BY <1>1, <1>3, <2>1, <2>3 DEF Fresh, Holds
    <3>2. DOMAIN mem' = Procs /\ \A q \in Procs : mem'[q] = mem[q] \/ Holds(mem'[q], now)
      BY <1>1, <2>1, <2>3 DEF AllSound, Holds, Promoted
    <3>. QED  BY <1>1, <2>1, <2>3, <3>1, <3>2, OneSound
  <2>4. CASE mem' = [mem EXCEPT ![p][m] = None] /\ Become(p, fetching)
    <3>1. /\ DOMAIN fetching = Fields /\ fetching.pc = "fetch" /\ fetching.model = m
          /\ fetching.entry = proc[p].entry /\ fetching.at = proc[p].at
      BY <1>2 DEF Fields
    <3>2. Sound(fetching, now)
      BY <1>1, <2>1, <3>1 DEF Sound
    <3>3. DOMAIN mem' = Procs /\ \A q \in Procs : mem'[q] = mem[q] \/ Holds(mem'[q], now)
      BY <1>1, <2>4 DEF AllSound, Holds, Kept
    <3>. QED  BY <1>1, <2>1, <2>4, <3>2, <3>3, OneSound
  <2>. QED  BY <1>4, <2>2, <2>3, <2>4 DEF Lookup
<1>5. CASE Fetch(p)
  <2>1. PICK ok \in BOOLEAN :
          LET e == Answer(proc[p].model, ok)
          IN  /\ mem' = [mem EXCEPT ![p][e.model] = e]
              /\ Become(p, [Found(p, e) EXCEPT !.pc = "disk_read"])
    BY <1>5 DEF Fetch
  <2>. DEFINE m == proc[p].model
              e == Answer(m, ok)
              x == [Found(p, e) EXCEPT !.pc = "disk_read"]
  <2>2. m \in Models /\ UNCHANGED <<disk, now>>
    BY <1>2, <1>5 DEF Fetch, Asking
  <2>3. e.model = m /\ e.asked = now /\ e.expires = now + TTL /\ Kept(e, m, now)
    BY <1>1 DEF Answer, Kept
  <2>4. DOMAIN x = Fields /\ x.pc = "disk_read" /\ x.entry = e /\ x.at = now /\ x.model = m
    BY <1>2 DEF Found, Fields
  <2>5. Sound(x, now)
    BY <1>1, <2>2, <2>3, <2>4 DEF Sound
  <2>6. mem' = [mem EXCEPT ![p][m] = e] /\ Become(p, x)
    BY <2>1, <2>3
  <2>7. DOMAIN mem' = Procs /\ \A q \in Procs : mem'[q] = mem[q] \/ Holds(mem'[q], now)
    BY <1>1, <2>2, <2>3, <2>6 DEF AllSound, Holds
  <2>. QED  BY <1>1, <2>2, <2>5, <2>6, <2>7, OneSound
<1>6. CASE DiskRead(p)
  <2>. DEFINE file == [m \in Models |-> IF m = proc[p].model THEN proc[p].entry
                                        ELSE IF Fresh(disk[m]) THEN disk[m] ELSE None]
              x == [proc[p] EXCEPT !.pc = "disk_write", !.file = file]
  <2>1. Holds(file, now)
    BY <1>1 DEF Holds, Sound, Kept
  <2>2. /\ DOMAIN x = Fields /\ x.pc = "disk_write" /\ x.file = file
        /\ x.entry = proc[p].entry /\ x.at = proc[p].at /\ x.model = proc[p].model
    BY <1>2 DEF Fields
  <2>3. Sound(x, now)
    BY <1>1, <1>6, <2>1, <2>2 DEF DiskRead, Sound, Asking
  <2>. QED  BY <1>1, <1>6, <2>3, OneSound DEF DiskRead, cachevars, AllSound
<1>7. CASE DiskWrite(p)
  <2>. DEFINE x == [proc[p] EXCEPT !.pc = "emit", !.file = None]
  <2>1. /\ DOMAIN x = Fields /\ x.pc = "emit" /\ x.entry = proc[p].entry
        /\ x.at = proc[p].at /\ x.model = proc[p].model
    BY <1>2 DEF Fields
  <2>2. Sound(x, now)
    BY <1>1, <2>1 DEF Sound, Asking
  <2>3. Holds(disk', now) /\ Become(p, x) /\ UNCHANGED <<mem, now>>
    BY <1>1, <1>7 DEF DiskWrite, Sound
  <2>. QED  BY <2>2, <2>3, OneSound DEF AllSound
<1>8. CASE Exit(p)
  <2>1. Sound(Idle, now)
    <3>1. DOMAIN Idle = Fields /\ Idle.pc \notin Asking /\ Idle.entry = None
      BY DEF Idle, Fields, Asking
    <3>. QED  BY <3>1, PlainSound
  <2>2. Holds(Cold, now)
    BY DEF Cold, Holds, Kept
  <2>. QED  BY <1>1, <1>8, <2>1, <2>2, OneSound DEF Exit, AllSound
<1>. QED  BY <1>4, <1>5, <1>6, <1>7, <1>8 DEF CacheStep

(* The event is billed, and then redacted and done with.                   *)
LEMMA BillSound ==
  ASSUME AllSound, NEW p \in Procs,
         \/ \E static \in BOOLEAN : Bill(p, static)
         \/ \E event \in Events, policy \in Policies, profile \in Profiles, long \in SUBSET {Args, Result} :
               Emit(p, event, policy, profile, long)
  PROVE  AllSound'
<1>1. Sound(Idle, now)
  <2>1. DOMAIN Idle = Fields /\ Idle.pc \notin Asking /\ Idle.entry = None
    BY DEF Idle, Fields, Asking
  <2>. QED  BY <2>1, PlainSound
<1>2. ASSUME NEW bill
      PROVE  Sound([Idle EXCEPT !.pc = "redact", !.bill = bill], now)
  <2>. DEFINE x == [Idle EXCEPT !.pc = "redact", !.bill = bill]
  <2>1. DOMAIN x = Fields /\ x.pc \notin Asking /\ x.entry = None
    BY DEF Idle, Fields, Asking
  <2>. QED  BY <2>1, PlainSound
<1>3. \/ \E bill : Become(p, [Idle EXCEPT !.pc = "redact", !.bill = bill])
      \/ Become(p, Idle)
  BY DEF Bill, Emit
<1>4. UNCHANGED cachevars
  BY DEF Bill, Emit
<1>5. PICK x : Become(p, x) /\ Sound(x, now)
  BY <1>1, <1>2, <1>3
<1>. QED  BY <1>4, <1>5, OneSound DEF cachevars, AllSound

(* PriceIsFresh, for every number of processes, models, calls and payloads,  *)
(* and every TTL: an answer carries the time it expires at through memory   *)
(* and the file, so it is never used later, nor for another model.          *)
THEOREM PriceIsFreshTheorem == Spec => []PriceIsFresh
<1>1. Init => AllSound
  <2>. SUFFICES ASSUME Init PROVE AllSound
    OBVIOUS
  <2>1. now = 0 /\ Holds(Cold, now) /\ TTL \in Nat
    BY PriceConstantsOK DEF Init, CacheInit, Cold, Holds, Kept
  <2>2. Holds([m \in Models |-> Answer(m, TRUE)], now)
    BY <2>1 DEF Holds, Kept, Answer
  <2>3. Sound(Idle, now)
    <3>1. DOMAIN Idle = Fields /\ Idle.pc \notin Asking /\ Idle.entry = None
      BY DEF Idle, Fields, Asking
    <3>. QED  BY <3>1, PlainSound
  <2>4. now \in Nat /\ Holds(disk, now)
    <3>1. disk = Cold \/ disk = [m \in Models |-> Answer(m, TRUE)]
      BY DEF Init, CacheInit
    <3>. QED  BY <2>1, <2>2, <3>1
  <2>5. mem = [p \in Procs |-> Cold] /\ proc = [p \in Procs |-> Idle]
    BY DEF Init, CacheInit
  <2>. QED  BY <2>1, <2>3, <2>4, <2>5 DEF AllSound
<1>2. AllSound /\ [Next]_vars => AllSound'
  <2>. SUFFICES ASSUME AllSound, [Next]_vars PROVE AllSound'
    OBVIOUS
  <2>1. CASE UNCHANGED vars
    BY <2>1 DEF vars, AllSound
  <2>2. CASE Tick
    <3>1. now \in Nat /\ now' = now + 1 /\ UNCHANGED <<mem, disk, proc>>
      BY <2>2 DEF Tick, AllSound
    <3>2. /\ \A cache : Holds(cache, now) => Holds(cache, now')
          /\ \A x : Sound(x, now) => Sound(x, now')
      BY <3>1, SoundLater
    <3>. QED  BY <3>1, <3>2 DEF AllSound
  <2>3. CASE Next
    BY <2>2, <2>3, TakeSound, CacheSound, BillSound DEF Next
  <2>. QED  BY <2>1, <2>3
<1>3. AllSound => PriceIsFresh
  <2>. SUFFICES ASSUME AllSound, NEW p \in Procs, proc[p].entry # None
                PROVE  proc[p].entry.model = proc[p].model /\ proc[p].at - proc[p].entry.asked \in 0 .. TTL
    BY DEF PriceIsFresh
  <2>. QED  BY PriceConstantsOK DEF AllSound, Sound, Kept
<1>. QED  BY <1>1, <1>2, <1>3, PTL DEF Spec

-----------------------------------------------------------------------------
(* Turns of the model                                                      *)

(* Division rounds down.                                                   *)
LEMMA RoundsDown ==
  ASSUME NEW a \in Nat, NEW c \in Nat \ {0}
  PROVE  a \div c \in Nat /\ a - (a \div c) * c \in 0 .. c - 1
OBVIOUS

(* What apportionUsage comes to for every turn (apportionUsage returns early *)
(* when there is nothing to split): no token is lost or made up, and each    *)
(* part is within rounding of its share of the context.                     *)
THEOREM TokensAreAllBilled ==
  ASSUME NEW t, t.delta \in Nat, t.input \in Nat, t.creation \in Nat, t.read \in Nat
  PROVE  LET u == Apportion(t)
             cur == t.input + t.creation + t.read
         IN  /\ u.input + u.creation + u.read = t.delta
             /\ t.creation + t.read > 0 =>
                  /\ t.delta * t.input - u.input * cur \in 0 .. cur - 1
                  /\ t.delta * t.creation - u.creation * cur \in 0 .. cur - 1
                  /\ u.read * cur - t.delta * t.read \in 0 .. 2 * (cur - 1)
<1>. DEFINE u == Apportion(t)
            cur == t.input + t.creation + t.read
            whole == [input |-> t.delta, creation |-> 0, read |-> 0]
            input == (t.delta * t.input) \div cur
            creation == (t.delta * t.creation) \div cur
            split == [input |-> input, creation |-> creation, read |-> t.delta - input - creation]
<1>1. CASE t.creation = 0 /\ t.read = 0
  BY <1>1 DEF Apportion
<1>2. CASE t.creation + t.read > 0
  <2>1. cur \in Nat \ {0} /\ t.delta * t.input \in Nat /\ t.delta * t.creation \in Nat
    BY <1>2
  <2>2. /\ input \in Nat /\ t.delta * t.input - input * cur \in 0 .. cur - 1
        /\ creation \in Nat /\ t.delta * t.creation - creation * cur \in 0 .. cur - 1
    BY <2>1, RoundsDown
  <2>3. CASE t.delta = 0
    <3>1. u = [input |-> 0, creation |-> 0, read |-> 0]
      BY <2>3 DEF Apportion
    <3>2. t.delta * t.input = 0 /\ t.delta * t.creation = 0 /\ t.delta * t.read = 0 /\ 0 * cur = 0
      BY <2>1, <2>3
    <3>3. 0 \in 0 .. cur - 1 /\ 0 \in 0 .. 2 * (cur - 1)
      BY <2>1
    <3>4. u.input = 0 /\ u.creation = 0 /\ u.read = 0
      BY <3>1
    <3>5. /\ u.input + u.creation + u.read = t.delta
          /\ t.delta * t.input - u.input * cur = 0
          /\ t.delta * t.creation - u.creation * cur = 0
          /\ u.read * cur - t.delta * t.read = 0
      BY <2>3, <3>2, <3>4
    <3>. HIDE DEF u, cur
    <3>. QED  BY <3>3, <3>5 DEF u, cur
  <2>4. CASE t.delta > 0
    <3>1. u = split
      BY <1>2, <2>4 DEF Apportion
    <3>2. (t.delta - input - creation) * cur - t.delta * t.read
            = (t.delta * t.input - input * cur) + (t.delta * t.creation - creation * cur)
      BY <2>2
    <3>3. (t.delta - input - creation) * cur - t.delta * t.read \in 0 .. 2 * (cur - 1)
      BY <2>1, <2>2, <3>2
    <3>4. u.input = input /\ u.creation = creation /\ u.read = t.delta - input - creation
      BY <3>1
    <3>5. u.input + u.creation + u.read = t.delta
      BY <2>2, <3>4
    <3>. QED  BY <2>2, <3>3, <3>4, <3>5
  <2>. QED  BY <2>3, <2>4
<1>. QED  BY <1>1, <1>2
-----------------------------------------------------------------------------
(* Bills                                                                   *)

\* Where the cost of a bill is from.
From(bill, b, live, table, turn, static) ==
  LET estimable == b.cost = {} /\ b.model # {} /\ Count(b.in) + Count(b.out) > 0
  IN  /\ bill.source = "reported" <=> b.cost # {}
      /\ bill.source = "live" <=> estimable /\ live
      /\ bill.source = "estimated" <=> estimable /\ ~live /\ table
      /\ bill.source = "none" => turn \/ ~static

\* What is being priced has no bill yet, and a turn of a known model has no
\* cost; and what is being redacted has the right one.
Billable(x) ==
  /\ DOMAIN x = Fields
  /\ x.pc \in Asking \cup {"emit"} =>
       /\ DOMAIN x.call = DOMAIN Unbilled /\ x.call.source = "none"
       /\ x.kind = "turn" => x.call.cost = {} /\ x.call.model # {}
  /\ x.pc = "redact" =>
       From(x.bill.bill, x.bill.call, x.bill.live, x.bill.table, x.bill.turn, x.bill.static)

AllBillable == DOMAIN proc = Procs /\ \A p \in Procs : Billable(proc[p])

LEMMA CallBilled ==
  ASSUME NEW b, DOMAIN b = DOMAIN Unbilled, b.source = "none",
         NEW live \in BOOLEAN, NEW table \in BOOLEAN, NEW static \in BOOLEAN
  PROVE  From(Enrich(b, live, table, static), b, live, table, FALSE, static)
<1>. DEFINE some == Estimable(b)
<1>1. some <=> b.cost = {} /\ b.model # {} /\ Count(b.in) + Count(b.out) > 0
  BY DEF Estimable
<1>2. /\ \A s : [b EXCEPT !.source = s].source = s
      /\ \A c, s : [b EXCEPT !.cost = c, !.source = s].source = s
  BY DEF Unbilled
<1>3. PICK bill : bill = Enrich(b, live, table, static)
  OBVIOUS
<1>4. CASE b.cost # {}
  <2>1. bill = [b EXCEPT !.source = "reported"]
    BY <1>1, <1>3, <1>4 DEF Enrich
  <2>2. bill.source = "reported"
    BY <1>2, <2>1
  <2>. QED  BY <1>3, <1>4, <2>2 DEF From
<1>5. CASE b.cost = {} /\ some /\ live
  <2>1. bill.source = "live"
    BY <1>2, <1>3, <1>5 DEF Enrich
  <2>. QED  BY <1>1, <1>3, <1>5, <2>1 DEF From
<1>6. CASE b.cost = {} /\ some /\ ~live /\ table
  <2>1. bill.source = "estimated"
    BY <1>2, <1>3, <1>6 DEF Enrich
  <2>. QED  BY <1>1, <1>3, <1>6, <2>1 DEF From
<1>7. CASE b.cost = {} /\ ~(some /\ (live \/ table))
  <2>1. bill.source = IF static THEN "static" ELSE "none"
    BY <1>2, <1>3, <1>7 DEF Enrich
  <2>. QED  BY <1>1, <1>3, <1>7, <2>1 DEF From
<1>. QED  BY <1>4, <1>5, <1>6, <1>7

LEMMA TurnBilled ==
  ASSUME NEW b, DOMAIN b = DOMAIN Unbilled, b.cost = {}, b.model # {},
         NEW live \in BOOLEAN, NEW table \in BOOLEAN, NEW static \in BOOLEAN
  PROVE  From(BillTurn(b, live, table), b, live, table, TRUE, static)
<1>. DEFINE some == Count(b.in) + Count(b.out) > 0
<1>1. some \in BOOLEAN
  OBVIOUS
<1>2. \A c, s : [b EXCEPT !.cost = c, !.source = s].source = s
  BY DEF Unbilled
<1>3. PICK bill : bill = BillTurn(b, live, table)
  OBVIOUS
<1>4. CASE ~some \/ ~(live \/ table)
  <2>1. bill = Unbilled
    BY <1>1, <1>3, <1>4 DEF BillTurn
  <2>2. bill.source = "none"
    BY <2>1 DEF Unbilled
  <2>. QED  BY <1>3, <1>4, <2>2 DEF From
<1>5. CASE some /\ live
  <2>1. bill.source = "live"
    BY <1>1, <1>2, <1>3, <1>5 DEF BillTurn
  <2>. QED  BY <1>3, <1>5, <2>1 DEF From
<1>6. CASE some /\ ~live /\ table
  <2>1. bill.source = "estimated"
    BY <1>1, <1>2, <1>3, <1>6 DEF BillTurn
  <2>. QED  BY <1>3, <1>6, <2>1 DEF From
<1>. QED  BY <1>4, <1>5, <1>6

(* The bill that a call or turn gets.                                      *)
LEMMA BillIs ==
  ASSUME AllBillable, NEW p \in Procs, NEW static \in BOOLEAN, Bill(p, static)
  PROVE  \E y : /\ Become(p, [Idle EXCEPT !.pc = "redact", !.bill = y])
                /\ From(y.bill, y.call, y.live, y.table, y.turn, y.static)
<1>1. PICK b : b = proc[p].call
  OBVIOUS
<1>2. PICK live \in BOOLEAN : live = (proc[p].entry # None /\ proc[p].entry.ok)
  OBVIOUS
<1>3. PICK table \in BOOLEAN : table = (proc[p].model \in Table)
  <2>1. (proc[p].model \in Table) \in BOOLEAN
    OBVIOUS
  <2>. QED  BY <2>1, Zenon
<1>4. PICK turn \in BOOLEAN : turn = (proc[p].kind = "turn")
  OBVIOUS
<1>5. PICK bill : bill = IF turn THEN BillTurn(b, live, table) ELSE Enrich(b, live, table, static)
  OBVIOUS
<1>6. /\ DOMAIN b = DOMAIN Unbilled /\ b.source = "none"
      /\ turn => b.cost = {} /\ b.model # {}
  BY <1>1, <1>4 DEF Bill, AllBillable, Billable
<1>7. From(bill, b, live, table, turn, static)
  <2>1. CASE turn
    BY <1>5, <1>6, <2>1, TurnBilled
  <2>2. CASE ~turn
    BY <1>5, <1>6, <2>2, CallBilled
  <2>. QED  BY <2>1, <2>2
<1>8. PICK y : y = [call |-> b, turn |-> turn, live |-> live, table |-> table, static |-> static, bill |-> bill]
  OBVIOUS
<1>9. Become(p, [Idle EXCEPT !.pc = "redact", !.bill = y])
  BY <1>1, <1>2, <1>3, <1>4, <1>5, <1>8 DEF Bill
<1>10. /\ y.bill = bill /\ y.call = b /\ y.live = live /\ y.table = table /\ y.turn = turn /\ y.static = static
  BY <1>8
<1>11. From(y.bill, y.call, y.live, y.table, y.turn, y.static)
  BY <1>7, <1>10
<1>. QED  BY <1>9, <1>11

(* What is being priced stays what it is while its price is looked for.    *)
LEMMA BillableStep ==
  ASSUME AllBillable, [Next]_vars
  PROVE  AllBillable'
<1>1. ASSUME NEW p \in Procs, NEW x, Become(p, x), Billable(x)
      PROVE  AllBillable'
  BY <1>1 DEF AllBillable, Become
<1>2. ASSUME NEW x, DOMAIN x = Fields, x.pc \notin Asking \cup {"emit", "redact"}
      PROVE  Billable(x)
  BY <1>2 DEF Billable
<1>3. ASSUME NEW p \in Procs, \E payload \in Payloads : TakeCall(p, payload)
      PROVE  AllBillable'
  <2>1. PICK payload \in Payloads : TakeCall(p, payload)
    BY <1>3
  <2>2. PICK b : b = Extract(payload)
    OBVIOUS
  <2>3. b.source = "none" /\ DOMAIN b = DOMAIN Unbilled
    BY <2>2, ExtractSays
  <2>4. \E model, pc : /\ pc # "redact"
                       /\ Become(p, [Idle EXCEPT !.pc = pc, !.kind = "call", !.call = b, !.model = model])
    BY <2>1, <2>2 DEF TakeCall, Take
  <2>5. ASSUME NEW model, NEW pc, pc # "redact"
        PROVE  Billable([Idle EXCEPT !.pc = pc, !.kind = "call", !.call = b, !.model = model])
    <3>. DEFINE x == [Idle EXCEPT !.pc = pc, !.kind = "call", !.call = b, !.model = model]
    <3>1. DOMAIN x = Fields /\ x.kind = "call" /\ x.call = b /\ x.pc # "redact"
      BY <2>5 DEF Idle, Fields
    <3>. QED  BY <2>3, <3>1 DEF Billable
  <2>. QED  BY <1>1, <2>4, <2>5
<1>4. ASSUME NEW p \in Procs, \E t \in Turns, model \in Models : TakeTurn(p, t, model)
      PROVE  AllBillable'
  <2>1. PICK t \in Turns, model \in Models : TakeTurn(p, t, model)
    BY <1>4
  <2>2. PICK b : b = [Unbilled EXCEPT !.model = {model}, !.in = {t.delta}, !.out = {t.out}]
    OBVIOUS
  <2>3. /\ DOMAIN b = DOMAIN Unbilled /\ b.source = "none" /\ b.cost = {} /\ b.model # {}
    BY <2>2 DEF Unbilled
  <2>4. \E pc : /\ pc # "redact"
                /\ Become(p, [Idle EXCEPT !.pc = pc, !.kind = "turn", !.call = b, !.model = model])
    BY <2>1, <2>2 DEF TakeTurn, Take
  <2>5. ASSUME NEW pc, pc # "redact"
        PROVE  Billable([Idle EXCEPT !.pc = pc, !.kind = "turn", !.call = b, !.model = model])
    <3>. DEFINE x == [Idle EXCEPT !.pc = pc, !.kind = "turn", !.call = b, !.model = model]
    <3>1. DOMAIN x = Fields /\ x.kind = "turn" /\ x.call = b /\ x.pc # "redact"
      BY <2>5 DEF Idle, Fields
    <3>. QED  BY <2>3, <3>1 DEF Billable
  <2>. QED  BY <1>1, <2>4, <2>5
<1>5. ASSUME NEW p \in Procs, CacheStep(p)
      PROVE  AllBillable'
  <2>1. DOMAIN proc[p] = Fields /\ Billable(proc[p])
    BY DEF AllBillable, Billable
  <2>2. ASSUME NEW x, Become(p, x), DOMAIN x = Fields, x.call = proc[p].call, x.kind = proc[p].kind,
               x.pc # "redact", proc[p].pc \in Asking
        PROVE  AllBillable'
    <3>1. Billable(x)
      BY <2>1, <2>2 DEF Billable
    <3>. QED  BY <1>1, <2>2, <3>1
  <2>3. ASSUME NEW e
        PROVE  /\ DOMAIN Found(p, e) = Fields
               /\ Found(p, e).call = proc[p].call /\ Found(p, e).kind = proc[p].kind
               /\ Found(p, e).pc # "redact"
    BY <2>1 DEF Found, Fields
  <2>4. CASE Lookup(p)
    <3>. DEFINE x == [proc[p] EXCEPT !.pc = "fetch"]
    <3>1. DOMAIN x = Fields /\ x.call = proc[p].call /\ x.kind = proc[p].kind /\ x.pc # "redact"
      BY <2>1 DEF Fields
    <3>2. proc[p].pc \in Asking /\ (Become(p, x) \/ \E e : Become(p, Found(p, e)))
      BY <2>4 DEF Lookup, Asking
    <3>. QED  BY <2>2, <2>3, <3>1, <3>2
  <2>5. CASE Fetch(p)
    <3>1. proc[p].pc \in Asking /\ \E e : Become(p, [Found(p, e) EXCEPT !.pc = "disk_read"])
      BY <2>5 DEF Fetch, Asking
    <3>2. ASSUME NEW e
          PROVE  LET x == [Found(p, e) EXCEPT !.pc = "disk_read"]
                 IN  DOMAIN x = Fields /\ x.call = proc[p].call /\ x.kind = proc[p].kind /\ x.pc # "redact"
      BY <2>3 DEF Fields
    <3>. QED  BY <2>2, <3>1, <3>2
  <2>6. CASE DiskRead(p)
    <3>1. proc[p].pc \in Asking /\ \E file : Become(p, [proc[p] EXCEPT !.pc = "disk_write", !.file = file])
      BY <2>6 DEF DiskRead, Asking
    <3>2. ASSUME NEW file
          PROVE  LET x == [proc[p] EXCEPT !.pc = "disk_write", !.file = file]
                 IN  DOMAIN x = Fields /\ x.call = proc[p].call /\ x.kind = proc[p].kind /\ x.pc # "redact"
      BY <2>1 DEF Fields
    <3>. QED  BY <2>2, <3>1, <3>2
  <2>7. CASE DiskWrite(p)
    <3>. DEFINE x == [proc[p] EXCEPT !.pc = "emit", !.file = None]
    <3>1. proc[p].pc \in Asking /\ Become(p, x)
      BY <2>7 DEF DiskWrite, Asking
    <3>2. DOMAIN x = Fields /\ x.call = proc[p].call /\ x.kind = proc[p].kind /\ x.pc # "redact"
      BY <2>1 DEF Fields
    <3>. QED  BY <2>2, <3>1, <3>2
  <2>8. CASE Exit(p)
    <3>1. DOMAIN Idle = Fields /\ Idle.pc \notin Asking \cup {"emit", "redact"}
      BY DEF Idle, Fields, Asking
    <3>. QED  BY <1>1, <1>2, <2>8, <3>1 DEF Exit
  <2>. QED  BY <1>5, <2>4, <2>5, <2>6, <2>7, <2>8 DEF CacheStep
<1>6. ASSUME NEW p \in Procs, \E static \in BOOLEAN : Bill(p, static)
      PROVE  AllBillable'
  <2>1. PICK y : /\ Become(p, [Idle EXCEPT !.pc = "redact", !.bill = y])
                 /\ From(y.bill, y.call, y.live, y.table, y.turn, y.static)
    BY <1>6, BillIs
  <2>. DEFINE x == [Idle EXCEPT !.pc = "redact", !.bill = y]
  <2>2. DOMAIN x = Fields /\ x.pc = "redact" /\ x.bill = y
    BY DEF Idle, Fields
  <2>3. Billable(x)
    BY <2>1, <2>2 DEF Billable, Asking
  <2>. QED  BY <1>1, <2>1, <2>3
<1>7. ASSUME NEW p \in Procs,
             \E event \in Events, policy \in Policies, profile \in Profiles, long \in SUBSET {Args, Result} :
               Emit(p, event, policy, profile, long)
      PROVE  AllBillable'
  <2>1. DOMAIN Idle = Fields /\ Idle.pc \notin Asking \cup {"emit", "redact"}
    BY DEF Idle, Fields, Asking
  <2>2. Become(p, Idle)
    BY <1>7 DEF Emit
  <2>. QED  BY <1>1, <1>2, <2>1, <2>2
<1>8. CASE UNCHANGED proc
  BY <1>8 DEF AllBillable
<1>9. Tick \/ UNCHANGED vars => UNCHANGED proc
  BY DEF Tick, vars
<1>. QED  BY <1>3, <1>4, <1>5, <1>6, <1>7, <1>8, <1>9 DEF Next

(* BillIsRight, for all payloads, turns and tables: Extract gives the first *)
(* value that the objects have, a cost that is reported is never replaced,  *)
(* one price is taken of those there are, in their order, and what is cut   *)
(* of the event is cut after that.                                         *)
THEOREM BillIsRightTheorem == Spec => []BillIsRight
<1>1. Init => BillIsRight /\ AllBillable
  <2>. SUFFICES ASSUME Init PROVE BillIsRight /\ AllBillable
    OBVIOUS
  <2>1. BillIsRight
    BY DEF Init, BillIsRight
  <2>2. DOMAIN Idle = Fields /\ Idle.pc \notin Asking \cup {"emit", "redact"}
    BY DEF Idle, Fields, Asking
  <2>3. AllBillable
    BY <2>2 DEF Init, CacheInit, AllBillable, Billable
  <2>. QED  BY <2>1, <2>3
<1>2. BillIsRight /\ AllBillable /\ [Next]_vars => (BillIsRight /\ AllBillable)'
  <2>. SUFFICES ASSUME BillIsRight, AllBillable, [Next]_vars PROVE BillIsRight'
    BY BillableStep
  <2>1. CASE out' = out
    BY <2>1 DEF BillIsRight
  <2>2. CASE out' = None
    BY <2>2 DEF BillIsRight
  <2>3. ASSUME NEW p \in Procs, NEW payload \in Payloads, TakeCall(p, payload)
        PROVE  BillIsRight'
    <3>1. out' = [kind |-> "extract", payload |-> payload, block |-> Extract(payload)]
      BY <2>3 DEF TakeCall
    <3>. QED  BY <3>1, ExtractSays DEF BillIsRight
  <2>4. ASSUME NEW p \in Procs, NEW t \in Turns, NEW model \in Models, TakeTurn(p, t, model)
        PROVE  BillIsRight'
    <3>1. t.delta \in Nat /\ t.input \in Nat /\ t.creation \in Nat /\ t.read \in Nat
      BY PipelineConstantsOK
    <3>2. out' = [kind |-> "apportion", turn |-> t, usage |-> Apportion(t)]
      BY <2>4 DEF TakeTurn
    <3>. QED  BY <3>1, <3>2, TokensAreAllBilled DEF BillIsRight
  <2>5. ASSUME NEW p \in Procs, NEW static \in BOOLEAN, Bill(p, static)
        PROVE  BillIsRight'
    BY <2>2, <2>5 DEF Bill
  <2>6. ASSUME NEW p \in Procs, NEW event \in Events, NEW policy \in Policies, NEW profile \in Profiles,
               NEW long \in SUBSET {Args, Result}, Emit(p, event, policy, profile, long)
        PROVE  BillIsRight'
    <3>1. PICK x : x = proc[p].bill
      OBVIOUS
    <3>2. From(x.bill, x.call, x.live, x.table, x.turn, x.static)
      BY <2>6, <3>1 DEF Emit, AllBillable, Billable
    <3>3. out' # None => out'.kind = "event" /\ out'.billed = x
      BY <2>6, <3>1 DEF Emit
    <3>. QED  BY <3>2, <3>3 DEF BillIsRight, From
  <2>. QED  BY <2>1, <2>2, <2>3, <2>4, <2>5, <2>6 DEF Next, vars
<1>. QED  BY <1>1, <1>2, PTL DEF Spec

-----------------------------------------------------------------------------
(* Redaction                                                               *)

(* The rules of the profiles.                                              *)
LEMMA StrictIs ==
  /\ DOMAIN Profile("strict") = 1 .. 6
  /\ Profile("strict")[1] = Truncate(Args) /\ Profile("strict")[2] = Truncate(Result)
  /\ Profile("strict")[3] = Pattern({"key", "token"}) /\ Profile("strict")[4] = Pattern({"email"})
  /\ Profile("strict")[5] = Pattern({"card"}) /\ Profile("strict")[6] = Transform
BY DEF Profile, Strict

LEMMA PermissiveIs ==
  DOMAIN Profile("permissive") = 1 .. 1 /\ Profile("permissive")[1] = Pattern({"key"})
BY DEF Profile

(* The default profile is the strict one without its fourth rule.          *)
LEMMA StandardIs ==
  /\ DOMAIN Profile("standard") = 1 .. 5
  /\ Profile("standard")[1] = Truncate(Args) /\ Profile("standard")[2] = Truncate(Result)
  /\ Profile("standard")[3] = Pattern({"key", "token"})
  /\ Profile("standard")[4] = Pattern({"card"}) /\ Profile("standard")[5] = Transform
<1>. DEFINE email == Pattern({"email"})
            at == {i \in 1 .. Len(Strict) : Strict[i] = email}
<1>1. Len(Strict) = 6 /\ Strict \in Seq({Strict[i] : i \in 1 .. 6})
  BY DEF Strict
<1>2. \A i \in 1 .. 6 : Strict[i] = email <=> i = 4
  <2>1. Strict[1].type = "truncate" /\ Strict[2].type = "truncate" /\ Strict[6].type = "transform"
    BY DEF Strict, Truncate, Transform
  <2>2. Strict[3].kinds = {"key", "token"} /\ Strict[5].kinds = {"card"} /\ Strict[4] = email
    BY DEF Strict, Pattern
  <2>3. email.type = "pattern" /\ email.kinds = {"email"}
    BY DEF Pattern
  <2>. QED  BY <2>1, <2>2, <2>3
<1>3. at = {4} /\ SelectInSeq(Strict, LAMBDA v : v = email) = IF at # {} THEN Min(at) ELSE 0
  BY <1>1, <1>2 DEF SelectInSeq
<1>4. Min({4}) = 4
  BY DEF Min
<1>5. Profile("standard") = RemoveAt(Strict, 4)
  BY <1>1, <1>2, <1>3, <1>4 DEF Profile, RemoveFirst
<1>6. Profile("standard") = SubSeq(Strict, 1, 3) \o SubSeq(Strict, 5, 6)
  BY <1>1, <1>5 DEF RemoveAt
<1>7. PICK R, a, b : /\ Strict \in Seq(R) /\ Len(Strict) = 6
                     /\ a = SubSeq(Strict, 1, 3) /\ b = SubSeq(Strict, 5, 6)
  BY <1>1
<1>8. /\ a \in Seq(R) /\ Len(a) = 3 /\ a[1] = Strict[1] /\ a[2] = Strict[2] /\ a[3] = Strict[3]
      /\ b \in Seq(R) /\ Len(b) = 2 /\ b[1] = Strict[5] /\ b[2] = Strict[6]
  <2>1. (\A i \in 1 .. 3 : Strict[i] \in R) /\ (\A i \in 5 .. 6 : Strict[i] \in R)
    <3>1. \A i \in 1 .. Len(Strict) : Strict[i] \in R
      BY <1>7, ElementOfSeq
    <3>. QED  BY <1>7, <3>1
  <2>2. a \in Seq(R) /\ Len(a) = 3 /\ \A i \in 1 .. 3 : a[i] = Strict[1 + i - 1]
    BY <1>7, <2>1, SubSeqProperties
  <2>3. b \in Seq(R) /\ Len(b) = 2 /\ \A i \in 1 .. 2 : b[i] = Strict[5 + i - 1]
    BY <1>7, <2>1, SubSeqProperties
  <2>. QED  BY <2>2, <2>3
<1>10. PICK c : c = a \o b
  OBVIOUS
<1>11. /\ c \in Seq(R) /\ Len(c) = 5
       /\ c[1] = a[1] /\ c[2] = a[2] /\ c[3] = a[3] /\ c[4] = b[1] /\ c[5] = b[2]
  <2>1. a \in Seq(R) /\ b \in Seq(R)
    BY <1>8
  <2>2. /\ c \in Seq(R) /\ Len(c) = Len(a) + Len(b)
        /\ \A i \in 1 .. Len(a) + Len(b) : c[i] = IF i =< Len(a) THEN a[i] ELSE b[i - Len(a)]
    BY <1>10, <2>1, ConcatProperties
  <2>3. Len(a) = 3 /\ Len(b) = 2
    BY <1>8
  <2>. QED  BY <2>2, <2>3
<1>12. /\ DOMAIN c = 1 .. 5
       /\ c[1] = Strict[1] /\ c[2] = Strict[2] /\ c[3] = Strict[3] /\ c[4] = Strict[5] /\ c[5] = Strict[6]
  BY <1>8, <1>11
<1>9. /\ Strict[1] = Truncate(Args) /\ Strict[2] = Truncate(Result)
      /\ Strict[3] = Pattern({"key", "token"}) /\ Strict[5] = Pattern({"card"}) /\ Strict[6] = Transform
  BY DEF Strict
<1>. QED  BY <1>6, <1>7, <1>9, <1>10, <1>12

(* What is under request.args is not under response.result.                *)
LEMMA PartsApart == ~IsPrefix(Args, Result) /\ ~IsPrefix(Result, Args)
<1>1. SubSeq(Args, 1, 2)[1] = "request" /\ SubSeq(Result, 1, 2)[1] = "response"
  BY DEF Args, Result
<1>2. Len(Args) = 2 /\ Len(Result) = 2
  BY DEF Args, Result
<1>. QED  BY <1>1, <1>2 DEF IsPrefix

\* No path is in both.
LEMMA PartsDisjoint ==
  ASSUME NEW path
  PROVE  ~(IsPrefix(Args, path) /\ IsPrefix(Result, path))
<1>1. SubSeq(Args, 1, 2)[1] = "request" /\ SubSeq(Result, 1, 2)[1] = "response"
  BY DEF Args, Result
<1>2. Len(Args) = 2 /\ Len(Result) = 2
  BY DEF Args, Result
<1>. QED  BY <1>1, <1>2 DEF IsPrefix

\* What is in a string of e was in that string of d, but that it may have grown.
Of(e, d) ==
  \A path \in DOMAIN e : e[path] # {} =>
    path \in DOMAIN d /\ d[path] # {} /\ e[path] \subseteq d[path] \cup {"large"}
Less(e, d) == DOMAIN e = DOMAIN d /\ Of(e, d)

\* Of a part there is at most the marker.
Marker(e, part) == \A path \in Under(e, part) : path = part /\ e[path] = {}

\* A part is the same in e and d.
Same(e, d, part) == Under(e, part) = Under(d, part) /\ \A path \in Under(d, part) : e[path] = d[path]

LEMMA OfIsOrder ==
  /\ \A e : Of(e, e)
  /\ \A e, d, c : Of(e, d) /\ Of(d, c) => Of(e, c)
BY DEF Of

LEMMA LessIsOrder ==
  \A e, d, c : Less(e, d) /\ Less(d, c) => Less(e, c)
BY OfIsOrder DEF Less

LEMMA SameKeeps ==
  ASSUME NEW e, NEW d, NEW part, Same(e, d, part)
  PROVE  /\ Oversize(e, part) <=> Oversize(d, part)
         /\ Marker(d, part) => Marker(e, part)
         /\ \A c : Same(d, c, part) => Same(e, c, part)
BY DEF Same, Oversize, Marker

(* Each kind of rule.                                                      *)
LEMMA Patterned ==
  ASSUME NEW e, NEW kinds, "large" \notin kinds
  PROVE  LET d == ApplyOne(e, Pattern(kinds))
         IN  Less(d, e) /\ \A path \in DOMAIN e : d[path] \cap kinds = {}
<1>1. Pattern(kinds).type = "pattern" /\ Pattern(kinds).kinds = kinds
  BY DEF Pattern
<1>2. PICK d : d = ApplyOne(e, Pattern(kinds))
  OBVIOUS
<1>3. d = [path \in DOMAIN e |-> Replaced(e[path], kinds)]
  BY <1>1, <1>2 DEF ApplyOne
<1>4. \A s : /\ Replaced(s, kinds) \cap kinds = {} /\ Replaced(s, kinds) \subseteq s \cup {"large"}
             /\ s = {} => Replaced(s, kinds) = {}
  BY DEF Replaced
<1>. QED  BY <1>2, <1>3, <1>4 DEF Less, Of

LEMMA Transformed ==
  ASSUME NEW e
  PROVE  LET d == ApplyOne(e, Transform)
         IN  /\ Less(d, e)
             /\ \A path \in DOMAIN e : d[path] \subseteq e[path]
             /\ \A path \in DOMAIN e : Last(path) = "path" /\ "home" \in d[path] => "inner" \in e[path]
<1>1. Transform.type = "transform" /\ Last(Transform.field) = "path"
  BY DEF Transform, Last
<1>2. PICK d : d = ApplyOne(e, Transform)
  OBVIOUS
<1>3. d = [path \in DOMAIN e |-> IF Last(path) = "path" THEN Normalized(e[path]) ELSE e[path]]
  BY <1>1, <1>2 DEF ApplyOne
<1>4. \A s : Normalized(s) \subseteq s /\ ("home" \in Normalized(s) => "inner" \in s)
  BY DEF Normalized
<1>. QED  BY <1>2, <1>3, <1>4 DEF Less, Of

\* A marker takes the place of what is in its part, and leaves the other alone.
LEMMA Marked ==
  ASSUME NEW e, NEW part \in {Args, Result}
  PROVE  LET d == Shortened(e, part)
         IN  /\ Of(d, e) /\ Marker(d, part)
             /\ \A other \in {Args, Result} \ {part} : Same(d, e, other)
<1>1. PICK d : d = Shortened(e, part)
  OBVIOUS
<1>2. DOMAIN d = (DOMAIN e \ Under(e, part)) \cup {part}
  BY <1>1 DEF Shortened
<1>3. \A path \in DOMAIN d : d[path] = IF path = part THEN {} ELSE e[path]
  BY <1>1 DEF Shortened
<1>4. Of(d, e)
  BY <1>2, <1>3 DEF Of
<1>5. Marker(d, part)
  BY <1>2, <1>3 DEF Marker, Under
<1>6. ASSUME NEW other \in {Args, Result} \ {part}
      PROVE  Same(d, e, other)
  <2>1. ~IsPrefix(other, part) /\ \A path : ~(IsPrefix(part, path) /\ IsPrefix(other, path))
    BY PartsApart, PartsDisjoint
  <2>2. Under(d, other) = Under(e, other)
    BY <1>2, <2>1 DEF Under
  <2>3. part \notin Under(e, other)
    BY <2>1 DEF Under
  <2>4. Under(e, other) \subseteq DOMAIN d
    BY <2>2 DEF Under
  <2>. QED  BY <1>3, <2>2, <2>3, <2>4 DEF Same
<1>. QED  BY <1>1, <1>4, <1>5, <1>6

LEMMA Truncated ==
  ASSUME NEW e, NEW part \in {Args, Result}
  PROVE  LET d == ApplyOne(e, Truncate(part))
         IN  /\ Of(d, e)
             /\ Oversize(e, part) \/ Marker(e, part) => Marker(d, part)
             /\ Marker(d, part) \/ Same(d, e, part)
             /\ Under(e, part) = {} => Under(d, part) = {}
             /\ \A other \in {Args, Result} \ {part} : Same(d, e, other)
<1>1. Truncate(part).type = "truncate" /\ Truncate(part).field = part
  BY DEF Truncate
<1>2. PICK d : d = ApplyOne(e, Truncate(part))
  OBVIOUS
<1>3. d = IF Oversize(e, part) THEN Shortened(e, part) ELSE e
  BY <1>1, <1>2 DEF ApplyOne
<1>4. CASE ~Oversize(e, part)
  <2>1. d = e /\ Of(e, e) /\ \A field : Same(e, e, field)
    BY <1>3, <1>4, OfIsOrder DEF Same
  <2>. QED  BY <1>2, <1>4, <2>1
<1>5. CASE Oversize(e, part)
  <2>1. Under(e, part) # {} /\ d = Shortened(e, part)
    BY <1>3, <1>5 DEF Oversize
  <2>2. Of(d, e) /\ Marker(d, part) /\ \A other \in {Args, Result} \ {part} : Same(d, e, other)
    BY <2>1, Marked
  <2>. QED  BY <1>2, <2>1, <2>2
<1>. QED  BY <1>4, <1>5

\* What a rule after the cuts keeps.
LEMMA LessKeeps ==
  ASSUME NEW e, NEW d, Less(e, d)
  PROVE  \A field : Under(e, field) = Under(d, field) /\ (Marker(d, field) => Marker(e, field))
BY DEF Less, Of, Under, Marker

\* What the profiles leave in a string of an event.
Redacted(e, event, profile) ==
  \A path \in DOMAIN e :
    /\ "key" \notin e[path]
    /\ profile = "strict" => "email" \notin e[path]
    /\ profile # "permissive" => {"token", "card"} \cap e[path] = {}
    /\ profile # "permissive" /\ Last(path) = "path" /\ "home" \in e[path] => "inner" \in event[path]
\* What they leave of a part.
Cut(e, event, profile) ==
  \A part \in {Args, Result} :
    /\ Under(event, part) = {} => Under(e, part) = {}
    /\ profile # "permissive" /\ (Oversize(event, part) \/ Marker(event, part)) => Marker(e, part)

(* The cuts at the beginning of the strict and the default profile.        *)
LEMMA CutsFirst ==
  ASSUME NEW event, NEW h, h[0] = event,
         h[1] = ApplyOne(h[0], Truncate(Args)), h[2] = ApplyOne(h[1], Truncate(Result)), NEW profile
  PROVE  Of(h[2], event) /\ Cut(h[2], event, profile)
<1>1. Args # Result
  BY DEF Args, Result
<1>2. /\ Of(h[1], event)
      /\ Oversize(event, Args) \/ Marker(event, Args) => Marker(h[1], Args)
      /\ Under(event, Args) = {} => Under(h[1], Args) = {}
      /\ Same(h[1], event, Result)
  BY <1>1, Truncated
<1>3. /\ Of(h[2], h[1])
      /\ Oversize(h[1], Result) \/ Marker(h[1], Result) => Marker(h[2], Result)
      /\ Under(h[1], Result) = {} => Under(h[2], Result) = {}
      /\ Same(h[2], h[1], Args)
  BY <1>1, Truncated
<1>4. Of(h[2], event)
  BY <1>2, <1>3, OfIsOrder
<1>5. /\ Oversize(event, Args) \/ Marker(event, Args) => Marker(h[2], Args)
      /\ Under(event, Args) = {} => Under(h[2], Args) = {}
  BY <1>2, <1>3, SameKeeps DEF Same
<1>6. /\ Oversize(event, Result) \/ Marker(event, Result) => Marker(h[2], Result)
      /\ Under(event, Result) = {} => Under(h[2], Result) = {}
  <2>1. Oversize(h[1], Result) <=> Oversize(event, Result)
    BY <1>2, SameKeeps
  <2>2. Marker(event, Result) => Marker(h[1], Result)
    BY <1>2, SameKeeps
  <2>3. Under(h[1], Result) = Under(event, Result)
    BY <1>2 DEF Same
  <2>. QED  BY <1>3, <2>1, <2>2, <2>3
<1>. QED  BY <1>4, <1>5, <1>6 DEF Cut

(* Apply, for each profile and whatever the event holds.                   *)
LEMMA Applied ==
  ASSUME NEW event, NEW profile \in {"strict", "standard", "permissive"}
  PROVE  LET e == Apply(event, profile)
         IN  Of(e, event) /\ Redacted(e, event, profile) /\ Cut(e, event, profile)
<1>1. CASE profile = "strict"
  <2>1. PICK h : Steps(h, "rule", event, Profile(profile), 6) /\ Apply(event, profile) = h[6]
    <3>1. PICK n \in Nat : n = 6
      OBVIOUS
    <3>2. DOMAIN Profile(profile) = 1 .. n
      BY <1>1, <3>1, StrictIs
    <3>3. \E h : Steps(h, "rule", event, Profile(profile), n) /\ Apply(event, profile) = h[n]
      BY <3>2, ApplySteps
    <3>. QED  BY <3>1, <3>3
  <2>2. /\ h[0] = event
        /\ h[1] = ApplyOne(h[0], Truncate(Args)) /\ h[2] = ApplyOne(h[1], Truncate(Result))
        /\ h[3] = ApplyOne(h[2], Pattern({"key", "token"})) /\ h[4] = ApplyOne(h[3], Pattern({"email"}))
        /\ h[5] = ApplyOne(h[4], Pattern({"card"})) /\ h[6] = ApplyOne(h[5], Transform)
    BY <1>1, <2>1, StrictIs DEF Steps, Step
  <2>3. Of(h[2], event) /\ Cut(h[2], event, profile)
    BY <2>2, CutsFirst
  <2>4. /\ Less(h[3], h[2]) /\ \A path \in DOMAIN h[2] : h[3][path] \cap {"key", "token"} = {}
        /\ Less(h[4], h[3]) /\ \A path \in DOMAIN h[3] : h[4][path] \cap {"email"} = {}
        /\ Less(h[5], h[4]) /\ \A path \in DOMAIN h[4] : h[5][path] \cap {"card"} = {}
    BY <2>2, Patterned
  <2>5. /\ Less(h[6], h[5]) /\ \A path \in DOMAIN h[5] : h[6][path] \subseteq h[5][path]
        /\ \A path \in DOMAIN h[5] : Last(path) = "path" /\ "home" \in h[6][path] => "inner" \in h[5][path]
    BY <2>2, Transformed
  <2>6. Less(h[6], h[2])
    BY <2>4, <2>5, LessIsOrder
  <2>7. Less(h[5], h[2]) /\ Of(h[5], event)
    BY <2>3, <2>4, LessIsOrder, OfIsOrder DEF Less
  <2>8. \A path \in DOMAIN h[6] : /\ "key" \notin h[6][path] /\ "email" \notin h[6][path]
                                  /\ {"token", "card"} \cap h[6][path] = {}
    BY <2>4, <2>5 DEF Less, Of
  <2>9. \A path \in DOMAIN h[6] : Last(path) = "path" /\ "home" \in h[6][path] => "inner" \in event[path]
    BY <2>5, <2>7 DEF Less, Of
  <2>10. Redacted(h[6], event, profile)
    BY <2>8, <2>9 DEF Redacted
  <2>11. Of(h[6], event) /\ Cut(h[6], event, profile)
    BY <2>3, <2>6, LessKeeps, OfIsOrder DEF Cut, Less
  <2>. QED  BY <2>1, <2>10, <2>11
<1>2. CASE profile = "standard"
  <2>1. PICK h : Steps(h, "rule", event, Profile(profile), 5) /\ Apply(event, profile) = h[5]
    <3>1. PICK n \in Nat : n = 5
      OBVIOUS
    <3>2. DOMAIN Profile(profile) = 1 .. n
      BY <1>2, <3>1, StandardIs
    <3>3. \E h : Steps(h, "rule", event, Profile(profile), n) /\ Apply(event, profile) = h[n]
      BY <3>2, ApplySteps
    <3>. QED  BY <3>1, <3>3
  <2>2. /\ h[0] = event
        /\ h[1] = ApplyOne(h[0], Truncate(Args)) /\ h[2] = ApplyOne(h[1], Truncate(Result))
        /\ h[3] = ApplyOne(h[2], Pattern({"key", "token"}))
        /\ h[4] = ApplyOne(h[3], Pattern({"card"})) /\ h[5] = ApplyOne(h[4], Transform)
    BY <1>2, <2>1, StandardIs DEF Steps, Step
  <2>3. Of(h[2], event) /\ Cut(h[2], event, profile)
    BY <2>2, CutsFirst
  <2>4. /\ Less(h[3], h[2]) /\ \A path \in DOMAIN h[2] : h[3][path] \cap {"key", "token"} = {}
        /\ Less(h[4], h[3]) /\ \A path \in DOMAIN h[3] : h[4][path] \cap {"card"} = {}
    BY <2>2, Patterned
  <2>5. /\ Less(h[5], h[4]) /\ \A path \in DOMAIN h[4] : h[5][path] \subseteq h[4][path]
        /\ \A path \in DOMAIN h[4] : Last(path) = "path" /\ "home" \in h[5][path] => "inner" \in h[4][path]
    BY <2>2, Transformed
  <2>6. Less(h[5], h[2])
    BY <2>4, <2>5, LessIsOrder
  <2>7. Less(h[4], h[2]) /\ Of(h[4], event)
    BY <2>3, <2>4, LessIsOrder, OfIsOrder DEF Less
  <2>8. \A path \in DOMAIN h[5] : "key" \notin h[5][path] /\ {"token", "card"} \cap h[5][path] = {}
    BY <2>4, <2>5 DEF Less, Of
  <2>9. \A path \in DOMAIN h[5] : Last(path) = "path" /\ "home" \in h[5][path] => "inner" \in event[path]
    BY <2>5, <2>7 DEF Less, Of
  <2>10. Redacted(h[5], event, profile)
    BY <1>2, <2>8, <2>9 DEF Redacted
  <2>11. Of(h[5], event) /\ Cut(h[5], event, profile)
    BY <2>3, <2>6, LessKeeps, OfIsOrder DEF Cut, Less
  <2>. QED  BY <2>1, <2>10, <2>11
<1>3. CASE profile = "permissive"
  <2>1. PICK h : Steps(h, "rule", event, Profile(profile), 1) /\ Apply(event, profile) = h[1]
    <3>1. DOMAIN Profile(profile) = 1 .. 1 /\ 1 \in Nat
      BY <1>3, PermissiveIs
    <3>. QED  BY <3>1, ApplySteps
  <2>2. h[1] = ApplyOne(event, Pattern({"key"}))
    BY <1>3, <2>1, PermissiveIs DEF Steps, Step
  <2>3. Less(h[1], event) /\ \A path \in DOMAIN event : h[1][path] \cap {"key"} = {}
    BY <2>2, Patterned
  <2>4. Redacted(h[1], event, profile)
    BY <1>3, <2>3 DEF Redacted, Less
  <2>5. Of(h[1], event) /\ Cut(h[1], event, profile)
    BY <1>3, <2>3, LessKeeps DEF Cut, Less
  <2>. QED  BY <2>1, <2>4, <2>5
<1>. QED  BY <1>1, <1>2, <1>3

(* SetToSeq lists the members of a finite set.                             *)
LEMMA Listed ==
  ASSUME NEW parts, IsFiniteSet(parts)
  PROVE  /\ Cardinality(parts) \in Nat
         /\ DOMAIN SetToSeq(parts) = 1 .. Cardinality(parts)
         /\ \A i \in 1 .. Cardinality(parts) : SetToSeq(parts)[i] \in parts
<1>1. Cardinality(parts) \in Nat /\ ExistsBijection(1 .. Cardinality(parts), parts)
  BY FS_CardinalityType
<1>2. \E f \in [1 .. Cardinality(parts) -> parts] : IsInjective(f)
  BY <1>1 DEF ExistsBijection, Bijection, Injection
<1>3. SetToSeq(parts) \in [1 .. Cardinality(parts) -> parts]
  BY <1>2 DEF SetToSeq
<1>. QED  BY <1>1, <1>3

(* Of each part the marks leave the marker or all, and they come only to a  *)
(* part that they are for.                                                 *)
LEMMA MarkedOnly ==
  ASSUME NEW e, NEW parts \in SUBSET {Args, Result}
  PROVE  LET d == MarkAll(e, parts)
         IN  /\ Of(d, e)
             /\ \A part \in {Args, Result} : Marker(d, part) \/ Same(d, e, part)
             /\ \A part \in {Args, Result} \ parts : Same(d, e, part)
<1>1. IsFiniteSet(parts)
  <2>1. IsFiniteSet({Args}) /\ {Args, Result} = {Args} \cup {Result}
    BY FS_Singleton
  <2>2. IsFiniteSet({Args, Result})
    BY <2>1, FS_AddElement
  <2>. QED  BY <2>2, FS_Subset
<1>2. PICK n \in Nat : n = Cardinality(parts)
  BY <1>1, Listed
<1>3. DOMAIN SetToSeq(parts) = 1 .. n /\ \A i \in 1 .. n : SetToSeq(parts)[i] \in parts
  BY <1>1, <1>2, Listed
<1>4. PICK h : Steps(h, "mark", e, SetToSeq(parts), n) /\ MarkAll(e, parts) = h[n]
  BY <1>3, MarkSteps
<1>. DEFINE Good(d) == /\ Of(d, e)
                       /\ \A part \in {Args, Result} : Marker(d, part) \/ Same(d, e, part)
                       /\ \A part \in {Args, Result} \ parts : Same(d, e, part)
            S == {k \in 0 .. n : Good(h[k])}
<1>5. 0 \in S
  <2>1. h[0] = e /\ Of(e, e) /\ \A part : Same(e, e, part)
    BY <1>4, OfIsOrder DEF Steps, Same
  <2>. QED  BY <2>1
<1>6. ASSUME NEW k \in 0 .. n, k # n, k \in S
      PROVE  k + 1 \in S
  <2>1. k + 1 \in 1 .. n /\ (k + 1) - 1 = k
    BY <1>6
  <2>2. PICK x, y : x = h[k] /\ y = h[k + 1]
    OBVIOUS
  <2>3. PICK part \in parts : y = Shortened(x, part)
    BY <1>3, <1>4, <2>1, <2>2 DEF Steps, Step
  <2>4. Good(x)
    BY <1>6, <2>2
  <2>5. Of(y, x) /\ Marker(y, part) /\ \A other \in {Args, Result} \ {part} : Same(y, x, other)
    BY <2>3, Marked
  <2>6. Of(y, e)
    BY <2>4, <2>5, OfIsOrder
  <2>7. \A other \in {Args, Result} \ {part} : /\ Marker(x, other) => Marker(y, other)
                                               /\ Same(x, e, other) => Same(y, e, other)
    BY <2>5, SameKeeps
  <2>8. Good(y)
    BY <2>4, <2>5, <2>6, <2>7
  <2>. HIDE DEF Good
  <2>. QED  BY <2>1, <2>2, <2>8
<1>. HIDE DEF S
<1>7. n \in S
  BY <1>5, <1>6, Induct
<1>. QED  BY <1>4, <1>7 DEF S

(* What is captured of a part: nothing if the config says so, or else a     *)
(* marker or all of it.                                                    *)
LEMMA CapturedParts ==
  ASSUME NEW event, NEW entries, NEW long \in SUBSET {Args, Result}
  PROVE  LET c == Captured(event, entries, long)
         IN  /\ Of(c, event)
             /\ ~ShouldCapture(entries, "args") => Under(c, Args) = {}
             /\ ~ShouldCapture(entries, "result") => Under(c, Result) = {}
             /\ \A part \in {Args, Result} : Marker(c, part) \/ Same(c, event, part)
<1>. DEFINE off == (IF ShouldCapture(entries, "args") THEN {} ELSE Under(event, Args))
                   \cup (IF ShouldCapture(entries, "result") THEN {} ELSE Under(event, Result))
            kept == [path \in DOMAIN event \ off |-> event[path]]
            there == {part \in long : Under(kept, part) # {}}
<1>1. Captured(event, entries, long) = MarkAll(kept, there)
  BY DEF Captured, MarkAll
<1>2. /\ ~ShouldCapture(entries, "args") => Under(kept, Args) = {}
      /\ ~ShouldCapture(entries, "result") => Under(kept, Result) = {}
  BY DEF Under
<1>3. Of(kept, event)
  BY DEF Of
<1>4. ASSUME NEW part \in {Args, Result}
      PROVE  Marker(kept, part) \/ Same(kept, event, part)
  <2>1. CASE Under(kept, part) = {}
    BY <2>1 DEF Marker
  <2>2. CASE Under(kept, part) # {}
    <3>1. off \cap Under(event, part) = {}
      <4>1. ASSUME NEW path \in off, path \in Under(event, part)
            PROVE  Under(event, part) \subseteq off
        BY <4>1, PartsDisjoint DEF Under
      <4>2. Under(event, part) \subseteq off => Under(kept, part) = {}
        BY DEF Under
      <4>. HIDE DEF off, kept
      <4>. QED  BY <2>2, <4>1, <4>2
    <3>. HIDE DEF off
    <3>. QED  BY <3>1 DEF Same, Under
  <2>. QED  BY <2>1, <2>2
<1>5. there \in SUBSET {Args, Result} /\ \A part \in {Args, Result} : Under(kept, part) = {} => part \notin there
  OBVIOUS
<1>6. PICK k, d : k = kept /\ d = MarkAll(kept, there)
  OBVIOUS
<1>. HIDE DEF kept, there
<1>7. /\ Of(d, k) /\ \A part \in {Args, Result} : Marker(d, part) \/ Same(d, k, part)
      /\ \A part \in {Args, Result} : Under(k, part) = {} => Same(d, k, part)
  BY <1>5, <1>6, MarkedOnly
<1>8. Of(d, event)
  BY <1>3, <1>6, <1>7, OfIsOrder
<1>9. \A part \in {Args, Result} : Under(k, part) = {} => Under(d, part) = {}
  BY <1>7 DEF Same
<1>10. \A part \in {Args, Result} : Marker(d, part) \/ Same(d, event, part)
  BY <1>4, <1>6, <1>7, SameKeeps
<1>. QED  BY <1>1, <1>2, <1>6, <1>8, <1>9, <1>10

(* Which is so when the first entry that says something says no.           *)
LEMMA SaysNo ==
  ASSUME NEW entries \in Policies, NEW part \in {"args", "result"},
         \E i \in DOMAIN entries :
           /\ entries[i].matches /\ entries[i][part] = "no"
           /\ \A j \in 1 .. i - 1 : ~(entries[j].matches /\ entries[j][part] = "yes")
  PROVE  ~ShouldCapture(entries, part)
<1>. DEFINE says == {i \in DOMAIN entries : entries[i].matches /\ entries[i][part] # "unset"}
            first == CHOOSE i \in says : \A j \in says : i =< j
<1>1. DOMAIN entries = 1 .. Len(entries) /\ Len(entries) \in Nat
  BY PipelineConstantsOK
<1>2. \A i \in DOMAIN entries : entries[i][part] \in {"unset", "yes", "no"}
  <2>. DEFINE R == [matches : BOOLEAN, args : {"unset", "yes", "no"}, result : {"unset", "yes", "no"}]
  <2>1. entries \in Seq(R)
    BY PipelineConstantsOK
  <2>2. \A i \in DOMAIN entries : entries[i] \in R
    <3>. HIDE DEF R
    <3>. QED  BY <1>1, <2>1, ElementOfSeq
  <2>3. \A i \in DOMAIN entries : entries[i].args \in {"unset", "yes", "no"} /\ entries[i].result \in {"unset", "yes", "no"}
    BY <2>2
  <2>4. CASE part = "args"
    BY <2>3, <2>4
  <2>5. CASE part = "result"
    BY <2>3, <2>5
  <2>. QED  BY <2>4, <2>5
<1>3. PICK i \in says : /\ entries[i][part] = "no"
                        /\ \A j \in 1 .. i - 1 : ~(entries[j].matches /\ entries[j][part] = "yes")
  OBVIOUS
<1>4. says \in SUBSET Nat /\ says # {}
  BY <1>1, <1>3
<1>5. first \in says /\ \A j \in says : first =< j
  <2>1. \E k \in says : \A j \in says : k =< j
    BY <1>4, Least
  <2>. QED  BY <2>1
<1>6. ShouldCapture(entries, part) <=> entries[first][part] = "yes"
  BY <1>4 DEF ShouldCapture
<1>7. first = i \/ first \in 1 .. i - 1
  BY <1>1, <1>3, <1>4, <1>5
<1>8. first \in says
  BY <1>5
<1>. QED  BY <1>2, <1>3, <1>6, <1>7, <1>8

(* NothingLeaks, for all events, all entries of the config about what to    *)
(* capture and every profile there is: what Emit hands to the queue went    *)
(* through the cuts, and then through each rule of the profile.  A later    *)
(* rule may bring a string back over its limit, but puts back no secret and *)
(* nothing that was cut.                                                    *)
THEOREM NothingLeaksTheorem == Spec => []NothingLeaks
<1>1. Init => NothingLeaks
  BY DEF Init, NothingLeaks
<1>2. NothingLeaks /\ [Next]_vars => NothingLeaks'
  <2>. SUFFICES ASSUME NothingLeaks, [Next]_vars PROVE NothingLeaks'
    OBVIOUS
  <2>1. CASE out' = out
    BY <2>1 DEF NothingLeaks
  <2>2. CASE out' = None
    BY <2>2 DEF NothingLeaks
  <2>3. ASSUME NEW p \in Procs, NEW payload \in Payloads, TakeCall(p, payload)
        PROVE  NothingLeaks'
    BY <2>3 DEF TakeCall, NothingLeaks
  <2>4. ASSUME NEW p \in Procs, NEW t \in Turns, NEW model \in Models, TakeTurn(p, t, model)
        PROVE  NothingLeaks'
    BY <2>4 DEF TakeTurn, NothingLeaks
  <2>5. ASSUME NEW p \in Procs, NEW static \in BOOLEAN, Bill(p, static)
        PROVE  NothingLeaks'
    BY <2>5 DEF Bill, NothingLeaks
  <2>6. ASSUME NEW p \in Procs, NEW event \in Events, NEW policy \in Policies, NEW profile \in Profiles,
               NEW long \in SUBSET {Args, Result}, Emit(p, event, policy, profile, long)
        PROVE  NothingLeaks'
    <3>1. PICK e : e = Apply(Captured(event, policy, long), profile)
      OBVIOUS
    <3>2. out'.policy = policy /\ out'.profile = profile /\ out'.event = e /\ out'.raw = event
      BY <2>6, <3>1 DEF Emit
    <3>3. profile \in {"strict", "standard", "permissive"}
      BY PipelineConstantsOK
    <3>4. PICK c : c = Captured(event, policy, long)
      OBVIOUS
    <3>5. Redacted(e, c, profile) /\ Cut(e, c, profile) /\ Of(e, c)
      BY <3>1, <3>3, <3>4, Applied
    <3>7. /\ Of(c, event)
          /\ ~ShouldCapture(policy, "args") => Under(c, Args) = {}
          /\ ~ShouldCapture(policy, "result") => Under(c, Result) = {}
          /\ \A part \in {Args, Result} : Marker(c, part) \/ Same(c, event, part)
      BY <3>4, CapturedParts
    <3>8. Redacted(e, event, profile)
      BY <3>5, <3>7 DEF Redacted, Of
    <3>9. /\ ~ShouldCapture(policy, "args") => Under(e, Args) = {}
          /\ ~ShouldCapture(policy, "result") => Under(e, Result) = {}
      BY <3>5, <3>7 DEF Cut
    <3>10. profile # "permissive" =>
             \A part \in {Args, Result} : Oversize(event, part) => Marker(e, part)
      BY <3>5, <3>7, SameKeeps DEF Cut
    <3>6. \A part \in {"args", "result"} :
            (\E i \in DOMAIN policy : /\ policy[i].matches /\ policy[i][part] = "no"
                                      /\ \A j \in 1 .. i - 1 : ~(policy[j].matches /\ policy[j][part] = "yes"))
              => ~ShouldCapture(policy, part)
      BY SaysNo
    <3>. QED  BY <3>2, <3>6, <3>8, <3>9, <3>10 DEF NothingLeaks, Redacted, Marker
  <2>. QED  BY <2>1, <2>2, <2>3, <2>4, <2>5, <2>6 DEF Next, vars
<1>. QED  BY <1>1, <1>2, PTL DEF Spec
=============================================================================
