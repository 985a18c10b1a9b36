------------------------- MODULE CodexHook_proofs -------------------------
(***************************************************************************)
(* Proofs about CodexHook: type correctness, that no row is passed over,   *)
(* and that the pieces add up.                                             *)
(*                                                                         *)
(* What a scan finds is proved by induction over the rows it reads, as for *)
(* Claude Code's hooks.                                                    *)
(***************************************************************************)
EXTENDS CodexHook, FiniteSetTheorems, SequenceTheorems, WellFoundedInduction, TLAPS

(***************************************************************************)
(* Induction                                                               *)
(***************************************************************************)

\* A set of numbers that is not empty has a least member.
LEMMA Least ==
  ASSUME NEW S \in SUBSET Nat, S # {}
  PROVE  \E x \in S : \A y \in S : x =< y
<1>1. IsWellFoundedOn({ss \in Nat \X Nat : ss[1] < ss[2]}, Nat)
  BY NatLessThanWellFounded DEF OpToRel
<1>2. PICK x \in S : \A y \in S : ~(<<y, x>> \in {ss \in Nat \X Nat : ss[1] < ss[2]})
  <2>1. S \subseteq Nat
    OBVIOUS
  <2>. QED  BY <1>1, <2>1, WFMin, Zenon
<1>3. ASSUME NEW y \in S PROVE x =< y
  <2>1. x \in Nat /\ y \in Nat /\ <<y, x>> \in Nat \X Nat
    OBVIOUS
  <2>2. ~(<<y, x>>[1] < <<y, x>>[2])
    BY <1>2, <2>1, Zenon
  <2>. QED  BY <2>1, <2>2
<1>. QED  BY <1>3

\* A set that has a number, and with a number its successor, has all of them.
LEMMA Induct ==
  ASSUME NEW a \in Nat, NEW n \in Nat, NEW S,
         a \in S, \A k \in a .. n : k # n /\ k \in S => k + 1 \in S
  PROVE  \A k \in a .. n : k \in S
<1>. DEFINE T == {k \in a .. n : k \notin S}
<1>. SUFFICES ASSUME T # {} PROVE FALSE
  OBVIOUS
<1>1. PICK x \in T : \A y \in T : x =< y
  <2>. HIDE DEF T
  <2>1. T \in SUBSET Nat
    BY DEF T
  <2>. QED  BY <2>1, Least
<1>2. x # a /\ x - 1 \in a .. n /\ x - 1 # n /\ x = (x - 1) + 1
  BY <1>1
<1>3. x - 1 \notin T
  BY <1>1
<1>4. x - 1 \in S
  BY <1>2, <1>3
<1>. QED  BY <1>1, <1>2, <1>4

(***************************************************************************)
(* Sequences of events                                                     *)
(***************************************************************************)

LEMMA ToSetEmpty == ToSet(<<>>) = {}
BY DEF ToSet

LEMMA ToSetAppend ==
  ASSUME NEW S, NEW s \in Seq(S), NEW e
  PROVE  ToSet(Append(s, e)) = ToSet(s) \cup {e}
<1>1. DOMAIN Append(s, e) = 1 .. (Len(s) + 1) /\ DOMAIN s = 1 .. Len(s) /\ Len(s) \in Nat
  OBVIOUS
<1>2. \A i \in 1 .. Len(s) : Append(s, e)[i] = s[i]
  OBVIOUS
<1>3. Append(s, e)[Len(s) + 1] = e
  OBVIOUS
<1>. QED  BY <1>1, <1>2, <1>3 DEF ToSet

LEMMA ToSetTail ==
  ASSUME NEW S, NEW s \in Seq(S), s # <<>>
  PROVE  ToSet(s) = {Head(s)} \cup ToSet(Tail(s))
<1>1. DOMAIN Tail(s) = 1 .. (Len(s) - 1) /\ DOMAIN s = 1 .. Len(s) /\ Len(s) \in Nat \ {0}
  OBVIOUS
<1>2. \A i \in 1 .. (Len(s) - 1) : Tail(s)[i] = s[i + 1]
  OBVIOUS
<1>3. Head(s) = s[1]
  OBVIOUS
<1>4. ASSUME NEW x \in ToSet(s) PROVE x \in {Head(s)} \cup ToSet(Tail(s))
  <2>1. PICK i \in 1 .. Len(s) : x = s[i]
    BY <1>1 DEF ToSet
  <2>2. i # 1 => i - 1 \in 1 .. (Len(s) - 1) /\ Tail(s)[i - 1] = s[i]
    BY <1>1, <1>2
  <2>. QED  BY <1>1, <1>3, <2>1, <2>2 DEF ToSet
<1>5. ASSUME NEW x \in ToSet(Tail(s)) PROVE x \in ToSet(s)
  <2>1. PICK i \in 1 .. (Len(s) - 1) : x = Tail(s)[i]
    BY <1>1 DEF ToSet
  <2>2. i + 1 \in 1 .. Len(s) /\ x = s[i + 1]
    BY <1>1, <1>2, <2>1
  <2>. QED  BY <1>1, <2>2 DEF ToSet
<1>6. Head(s) \in ToSet(s)
  BY <1>1, <1>3 DEF ToSet
<1>. QED  BY <1>4, <1>5, <1>6

LEMMA ToSeqEmpty == SetToSeq({}) = <<>>
<1>. DEFINE F == [1 .. Cardinality({}) -> {}]
<1>1. 1 .. Cardinality({}) = {}
  BY FS_EmptySet
<1>2. <<>> \in F /\ IsInjective(<<>>)
  BY <1>1 DEF IsInjective
<1>3. (CHOOSE f \in F : IsInjective(f)) \in F
  <2>. HIDE DEF F
  <2>. QED  BY <1>2
<1>4. ASSUME NEW f \in F PROVE f = <<>>
  <2>1. f \in [1 .. 0 -> {}]
    BY FS_EmptySet
  <2>2. f \in Seq({}) /\ Len(f) = 0
    BY <2>1
  <2>. QED  BY <2>2, EmptySeq
<1>. QED  BY <1>3, <1>4 DEF SetToSeq

LEMMA ToSeqOne ==
  ASSUME NEW x
  PROVE  SetToSeq({x}) = <<x>>
<1>. DEFINE F == [1 .. Cardinality({x}) -> {x}]
<1>1. Cardinality({x}) = 1
  BY FS_Singleton
<1>2. <<x>> \in F /\ IsInjective(<<x>>)
  BY <1>1 DEF IsInjective
<1>3. (CHOOSE f \in F : IsInjective(f)) \in F
  <2>. HIDE DEF F
  <2>. QED  BY <1>2
<1>4. \A f \in F : f = <<x>>
  BY <1>1
<1>. QED  BY <1>3, <1>4 DEF SetToSeq

\* A sequence without one of its elements.
LEMMA RemovedOne ==
  ASSUME NEW S, NEW s \in Seq(S), NEW i \in 1 .. Len(s)
  PROVE  LET t == RemoveAt(s, i)
         IN  /\ t \in Seq(S) /\ Len(t) = Len(s) - 1
             /\ \A k \in 1 .. (Len(s) - 1) : t[k] = IF k < i THEN s[k] ELSE s[k + 1]
             /\ ToSet(t) \subseteq ToSet(s) /\ ToSet(s) \subseteq ToSet(t) \cup {s[i]}
             /\ IsInjective(s) => IsInjective(t)
<1>1. Len(s) \in Nat /\ i \in Nat /\ 1 =< i /\ i =< Len(s) /\ DOMAIN s = 1 .. Len(s)
      /\ \A k \in 1 .. Len(s) : s[k] \in S
  BY LenProperties, ElementOfSeq
<1>2. PICK n \in Nat : n = Len(s)
  BY <1>1
<1>3. PICK before : before = SubSeq(s, 1, i - 1)
  OBVIOUS
<1>4. PICK after : after = SubSeq(s, i + 1, n)
  OBVIOUS
<1>5. before \in Seq(S) /\ Len(before) = i - 1 /\ \A k \in 1 .. (i - 1) : before[k] = s[k]
  <2>1. \A k \in 1 .. (i - 1) : s[k] \in S
    BY <1>1
  <2>2. /\ before \in Seq(S)
        /\ Len(before) = IF 1 =< i - 1 THEN (i - 1) - 1 + 1 ELSE 0
        /\ \A k \in 1 .. ((i - 1) - 1 + 1) : before[k] = s[1 + k - 1]
    BY <1>1, <1>3, <2>1, SubSeqProperties
  <2>3. (i - 1) - 1 + 1 = i - 1 /\ (1 =< i - 1 \/ i - 1 = 0) /\ \A k \in Nat : 1 + k - 1 = k
    BY <1>1
  <2>. QED  BY <2>2, <2>3
<1>6. after \in Seq(S) /\ Len(after) = n - i /\ \A k \in 1 .. (n - i) : after[k] = s[i + k]
  <2>1. \A k \in (i + 1) .. n : s[k] \in S
    BY <1>1, <1>2
  <2>2. /\ after \in Seq(S)
        /\ Len(after) = IF i + 1 =< n THEN n - (i + 1) + 1 ELSE 0
        /\ \A k \in 1 .. (n - (i + 1) + 1) : after[k] = s[(i + 1) + k - 1]
    BY <1>1, <1>2, <1>4, <2>1, SubSeqProperties
  <2>3. n - (i + 1) + 1 = n - i
    BY <1>1, <1>2
  <2>4. i =< n
    BY <1>1, <1>2
  <2>5. i + 1 =< n \/ i = n
    BY <1>1, <2>4
  <2>6. i = n => n - i = 0
    BY <1>1
  <2>7. \A k \in Nat : (i + 1) + k - 1 = i + k
    BY <1>1
  <2>8. Len(after) = n - i
    BY <2>2, <2>3, <2>5, <2>6
  <2>. QED  BY <2>2, <2>3, <2>7, <2>8
<1>7. PICK t : t = RemoveAt(s, i)
  OBVIOUS
<1>8. t = before \o after
  BY <1>2, <1>3, <1>4, <1>7 DEF RemoveAt
<1>9. /\ t \in Seq(S) /\ Len(t) = (i - 1) + (n - i)
      /\ \A k \in 1 .. ((i - 1) + (n - i)) :
           t[k] = IF k <= i - 1 THEN before[k] ELSE after[k - (i - 1)]
  <2>1. /\ t \in Seq(S) /\ Len(t) = Len(before) + Len(after)
        /\ \A k \in 1 .. Len(before) + Len(after) :
             t[k] = IF k <= Len(before) THEN before[k] ELSE after[k - Len(before)]
    BY <1>5, <1>6, <1>8, ConcatProperties
  <2>2. PICK lb, la : lb = Len(before) /\ la = Len(after)
    OBVIOUS
  <2>3. lb = i - 1 /\ la = n - i
    BY <1>5, <1>6, <2>2
  <2>4. /\ Len(t) = lb + la
        /\ \A k \in 1 .. lb + la : t[k] = IF k <= lb THEN before[k] ELSE after[k - lb]
    BY <2>1, <2>2
  <2>. QED  BY <2>1, <2>3, <2>4
<1>10. (i - 1) + (n - i) = n - 1
  BY <1>1, <1>2
<1>11. ASSUME NEW k \in 1 .. (n - 1) PROVE t[k] = IF k < i THEN s[k] ELSE s[k + 1]
  <2>1. CASE k < i
    <3>1. k <= i - 1 /\ k \in 1 .. (i - 1)
      BY <1>1, <2>1
    <3>. QED  BY <1>5, <1>9, <1>10, <2>1, <3>1
  <2>2. CASE ~(k < i)
    <3>1. ~(k <= i - 1) /\ k - (i - 1) \in 1 .. (n - i) /\ i + (k - (i - 1)) = k + 1
      BY <1>1, <1>2, <2>2
    <3>. QED  BY <1>6, <1>9, <1>10, <2>2, <3>1
  <2>. QED  BY <2>1, <2>2
<1>12. DOMAIN t = 1 .. (n - 1) /\ DOMAIN s = 1 .. n
  BY <1>1, <1>2, <1>9, <1>10, LenProperties
<1>13. ASSUME NEW x \in ToSet(t) PROVE x \in ToSet(s)
  <2>1. PICK k \in 1 .. (n - 1) : x = t[k]
    BY <1>12 DEF ToSet
  <2>2. k \in 1 .. n /\ k + 1 \in 1 .. n
    BY <1>2
  <2>. QED  BY <1>11, <1>12, <2>1, <2>2 DEF ToSet
<1>14. ASSUME NEW x \in ToSet(s), x # s[i] PROVE x \in ToSet(t)
  <2>1. PICK k \in 1 .. n : x = s[k]
    BY <1>12 DEF ToSet
  <2>2. CASE k < i
    <3>1. k \in 1 .. (n - 1)
      BY <1>1, <1>2, <2>2
    <3>. QED  BY <1>11, <1>12, <2>1, <2>2, <3>1 DEF ToSet
  <2>3. CASE ~(k < i)
    <3>1. k # i
      BY <1>14, <2>1
    <3>2. k - 1 \in 1 .. (n - 1) /\ ~(k - 1 < i) /\ (k - 1) + 1 = k
      BY <1>1, <1>2, <2>3, <3>1
    <3>. QED  BY <1>11, <1>12, <2>1, <3>2 DEF ToSet
  <2>. QED  BY <2>2, <2>3
<1>15. ASSUME IsInjective(s) PROVE IsInjective(t)
  <2>1. \A a, b \in 1 .. n : s[a] = s[b] => a = b
    BY <1>12, <1>15 DEF IsInjective
  <2>2. ASSUME NEW a \in 1 .. (n - 1), NEW b \in 1 .. (n - 1), t[a] = t[b] PROVE a = b
    <3>1. a \in 1 .. n /\ b \in 1 .. n /\ a + 1 \in 1 .. n /\ b + 1 \in 1 .. n
      BY <1>2
    <3>2. CASE a < i /\ b < i
      BY <1>11, <2>1, <2>2, <3>1, <3>2
    <3>3. CASE a < i /\ ~(b < i)
      <4>1. s[a] = s[b + 1]
        BY <1>11, <2>2, <3>3
      <4>2. a = b + 1
        BY <2>1, <3>1, <4>1
      <4>. QED  BY <1>1, <3>3, <4>2
    <3>4. CASE ~(a < i) /\ b < i
      <4>1. s[a + 1] = s[b]
        BY <1>11, <2>2, <3>4
      <4>2. a + 1 = b
        BY <2>1, <3>1, <4>1
      <4>. QED  BY <1>1, <3>4, <4>2
    <3>5. CASE ~(a < i) /\ ~(b < i)
      <4>1. s[a + 1] = s[b + 1]
        BY <1>11, <2>2, <3>5
      <4>2. a + 1 = b + 1
        BY <2>1, <3>1, <4>1
      <4>. QED  BY <4>2
    <3>. QED  BY <3>2, <3>3, <3>4, <3>5
  <2>. QED  BY <1>12, <2>2 DEF IsInjective
<1>. QED  BY <1>2, <1>7, <1>9, <1>10, <1>11, <1>13, <1>14, <1>15

(***************************************************************************)
(* The scan                                                                *)
(***************************************************************************)

\* A cursor, in a file or in hand, and what a scan knows between two rows: at
\* most one pending call of an id.
OnePer(pending) == \A c, d \in pending : c.call = d.call => c = d
File == {c \in Cursor : OnePer(c.pending) /\ (c.offset = 0 => c.pending = {})}
ScanState ==
  {st \in [at : Nat, pending : SUBSET Pending, events : Seq(Event)] : OnePer(st.pending)}

\* What the rows hold, said of rows and generation g of the session s: the
\* event of row i begins at row j; ev is the event of one of the rows m + 1
\* to n; and P has the calls that wait behind row n.
Begins(rows, i, j) ==
  \/ j = 0 /\ rows[i].type = "turn"
  \/ /\ j \in 1 .. i - 1 /\ rows[i].type = "output"
     /\ rows[j] = [type |-> "call", call |-> rows[i].call]
     /\ \A k \in j + 1 .. i - 1 : rows[k].call # rows[i].call
EventOf(s, g, i, j) == [session |-> s, gen |-> g, at |-> i, from |-> j]
IsOf(ev, rows, g, s, i) == \E j \in 0 .. i - 1 : ev = EventOf(s, g, i, j) /\ Begins(rows, i, j)
Within(ev, rows, g, s, m, n) ==
  \E i \in m + 1 .. n : i \in 1 .. Len(rows) /\ IsOf(ev, rows, g, s, i)
LastCall(rows, n, j) ==
  rows[j].type = "call" /\ \A k \in j + 1 .. n : rows[k].call # rows[j].call
Waiting(rows, g, j) == [call |-> rows[j].call, at |-> j, gen |-> g]
Waits(P, rows, g, n) ==
  \A c : c \in P <=> \E j \in 1 .. n : LastCall(rows, n, j) /\ c = Waiting(rows, g, j)

LEMMA WholeIsWithin ==
  ASSUME NEW s \in Sessions, file[s] \in Seq(Row), NEW n \in 0 .. Len(file[s])
  PROVE  \A ev : ev \in Whole(s, n) <=> Within(ev, file[s], gen[s], s, 0, n)
<1>1. PICK rows : rows = file[s]
  OBVIOUS
<1>2. Len(rows) \in Nat /\ n \in Nat /\ n =< Len(rows)
  BY <1>1
<1>3. ASSUME NEW ev, ev \in Whole(s, n) PROVE Within(ev, rows, gen[s], s, 0, n)
  <2>1. CASE \E i \in 1 .. n : rows[i].type = "turn" /\ ev = Found(s, i, 0)
    <3>1. PICK i \in 1 .. n : rows[i].type = "turn" /\ ev = Found(s, i, 0)
      BY <2>1
    <3>2. Begins(rows, i, 0) /\ ev = EventOf(s, gen[s], i, 0)
      BY <3>1 DEF Begins, EventOf, Found
    <3>3. i \in 0 + 1 .. n /\ 0 \in 0 .. i - 1 /\ i \in 1 .. Len(rows)
      BY <1>2
    <3>. QED  BY <3>2, <3>3 DEF Within, IsOf
  <2>2. CASE \E i \in 1 .. n : \E j \in 1 .. i - 1 :
               /\ rows[i].type = "output" /\ rows[j] = [type |-> "call", call |-> rows[i].call]
               /\ \A k \in j + 1 .. i - 1 : rows[k].call # rows[i].call
               /\ ev = Found(s, i, j)
    <3>. PICK i \in 1 .. n : \E j \in 1 .. i - 1 :
               /\ rows[i].type = "output" /\ rows[j] = [type |-> "call", call |-> rows[i].call]
               /\ \A k \in j + 1 .. i - 1 : rows[k].call # rows[i].call
               /\ ev = Found(s, i, j)
      BY <2>2
    <3>1. PICK j \in 1 .. i - 1 :
               /\ rows[i].type = "output" /\ rows[j] = [type |-> "call", call |-> rows[i].call]
               /\ \A k \in j + 1 .. i - 1 : rows[k].call # rows[i].call
               /\ ev = Found(s, i, j)
      OBVIOUS
    <3>2. Begins(rows, i, j) /\ ev = EventOf(s, gen[s], i, j)
      BY <3>1 DEF Begins, EventOf, Found
    <3>3. i \in 0 + 1 .. n /\ j \in 0 .. i - 1 /\ i \in 1 .. Len(rows)
      BY <1>2
    <3>. QED  BY <3>2, <3>3 DEF Within, IsOf
  <2>. QED  BY <1>1, <1>3, <2>1, <2>2 DEF Whole
<1>4. ASSUME NEW ev, Within(ev, rows, gen[s], s, 0, n) PROVE ev \in Whole(s, n)
  <2>1. PICK i \in 0 + 1 .. n : \E j \in 0 .. i - 1 : ev = EventOf(s, gen[s], i, j) /\ Begins(rows, i, j)
    BY <1>4 DEF Within, IsOf
  <2>2. PICK j \in 0 .. i - 1 : ev = EventOf(s, gen[s], i, j) /\ Begins(rows, i, j)
    BY <2>1
  <2>3. i \in 1 .. n /\ ev = Found(s, i, j)
    BY <1>2, <2>2 DEF EventOf, Found
  <2>4. CASE j = 0 /\ rows[i].type = "turn"
    BY <1>1, <2>3, <2>4 DEF Whole
  <2>5. CASE /\ j \in 1 .. i - 1 /\ rows[i].type = "output"
             /\ rows[j] = [type |-> "call", call |-> rows[i].call]
             /\ \A k \in j + 1 .. i - 1 : rows[k].call # rows[i].call
    BY <1>1, <2>3, <2>5 DEF Whole
  <2>. QED  BY <2>2, <2>4, <2>5 DEF Begins
<1>. QED  BY <1>1, <1>3, <1>4

\* The event of a row says which row it is of.
LEMMA WithinAt ==
  ASSUME NEW ev, NEW rows, NEW g, NEW s, NEW m \in Nat, NEW n \in Nat, Within(ev, rows, g, s, m, n)
  PROVE  ev.session = s /\ ev.gen = g /\ ev.at \in m + 1 .. n
BY DEF Within, IsOf, EventOf

LEMMA WithinIsEvent ==
  ASSUME NEW ev, NEW rows, NEW g \in Nat, NEW s \in Sessions, NEW m \in Nat, NEW n \in Nat,
         Within(ev, rows, g, s, m, n)
  PROVE  ev \in Event
BY DEF Within, IsOf, EventOf, Event

LEMMA WithinParts ==
  ASSUME NEW rows, NEW g, NEW s, NEW m \in Nat, NEW k \in Nat, NEW n \in Nat, m =< k, k =< n
  PROVE  \A ev : Within(ev, rows, g, s, m, n) <=> Within(ev, rows, g, s, m, k) \/ Within(ev, rows, g, s, k, n)
<1>1. \A i : i \in m + 1 .. n <=> i \in m + 1 .. k \/ i \in k + 1 .. n
  OBVIOUS
<1>. QED  BY <1>1 DEF Within

\* Rows that Codex appends change nothing of those before.
LEMMA WithinAppend ==
  ASSUME NEW rows \in Seq(Row), NEW row \in Row, NEW g, NEW s, NEW m \in Nat, NEW n \in Nat, NEW ev,
         Within(ev, rows, g, s, m, n)
  PROVE  Within(ev, Append(rows, row), g, s, m, n)
<1>1. PICK i \in m + 1 .. n : i \in 1 .. Len(rows) /\ IsOf(ev, rows, g, s, i)
  BY DEF Within
<1>2. PICK more : more = Append(rows, row)
  OBVIOUS
<1>3. Len(rows) \in Nat /\ Len(more) = Len(rows) + 1 /\ \A k \in 1 .. Len(rows) : more[k] = rows[k]
  BY <1>2
<1>4. i \in 1 .. Len(more) /\ \A k \in 1 .. i : more[k] = rows[k]
  BY <1>1, <1>3
<1>5. PICK j \in 0 .. i - 1 : ev = EventOf(s, g, i, j) /\ Begins(rows, i, j)
  BY <1>1 DEF IsOf
<1>6. i \in 1 .. i /\ \A k \in 1 .. i - 1 : k \in 1 .. i
  BY <1>1
<1>7. Begins(more, i, j)
  <2>1. CASE j = 0 /\ rows[i].type = "turn"
    BY <1>4, <1>6, <2>1 DEF Begins
  <2>2. CASE /\ j \in 1 .. i - 1 /\ rows[i].type = "output"
             /\ rows[j] = [type |-> "call", call |-> rows[i].call]
             /\ \A k \in j + 1 .. i - 1 : rows[k].call # rows[i].call
    <3>1. \A k \in j + 1 .. i - 1 : more[k].call # more[i].call
      BY <1>1, <1>4, <1>6, <2>2
    <3>2. more[i] = rows[i] /\ more[j] = rows[j]
      BY <1>4, <1>6, <2>2
    <3>. QED  BY <2>2, <3>1, <3>2, Zenon DEF Begins
  <2>. QED  BY <1>5, <2>1, <2>2 DEF Begins
<1>. QED  BY <1>1, <1>2, <1>4, <1>5, <1>7 DEF Within, IsOf

LEMMA WaitsAppend ==
  ASSUME NEW rows \in Seq(Row), NEW row \in Row, NEW g, NEW n \in 0 .. Len(rows), NEW P,
         Waits(P, rows, g, n)
  PROVE  Waits(P, Append(rows, row), g, n)
<1>1. PICK more : more = Append(rows, row)
  OBVIOUS
<1>2. Len(rows) \in Nat /\ \A k \in 1 .. n : more[k] = rows[k]
  BY <1>1
<1>3. \A j \in 1 .. n : (LastCall(more, n, j) <=> LastCall(rows, n, j))
                        /\ Waiting(more, g, j) = Waiting(rows, g, j)
  <2>1. \A j \in 1 .. n : \A k \in j + 1 .. n : k \in 1 .. n
    BY <1>2
  <2>. QED  BY <1>2, <2>1 DEF LastCall, Waiting
<1>. QED  BY <1>1, <1>3 DEF Waits

LEMMA UnreadTypes ==
  ASSUME NEW from \in File
  PROVE  Unread(from) \in ScanState /\ Unread(from).at = from.offset
BY DEF Unread, ScanState, File, Cursor

\* Pair finds the one call that waits for the output, or none.
LEMMA Pairs ==
  ASSUME NEW st \in ScanState, NEW s, NEW call
  PROVE  LET next == Pair(st, s, call)
         IN  /\ next.at = st.at /\ next.pending = {c \in st.pending : c.call # call}
             /\ next = [at |-> next.at, pending |-> next.pending, events |-> next.events]
             /\ \/ /\ \A c \in st.pending : c.call # call
                   /\ next.events = st.events
                \/ \E c \in st.pending :
                     c.call = call /\ next.events = Append(st.events, Found(s, st.at, c.at))
<1>1. st.events \in Seq(Event) /\ OnePer(st.pending)
      /\ st = [at |-> st.at, pending |-> st.pending, events |-> st.events]
  BY DEF ScanState
<1>2. PICK open : open = {c \in st.pending : c.call = call}
  OBVIOUS
<1>3. PICK found : found = {Found(s, st.at, c.at) : c \in open}
  OBVIOUS
<1>4. PICK next : next = Pair(st, s, call)
  OBVIOUS
<1>5. next = [at |-> st.at, pending |-> st.pending \ open, events |-> st.events \o SetToSeq(found)]
  BY <1>1, <1>2, <1>3, <1>4 DEF Pair
<1>6. st.pending \ open = {c \in st.pending : c.call # call}
  BY <1>2
<1>7. CASE open = {}
  <2>1. found = {}
    BY <1>3, <1>7
  <2>2. next.events = st.events \o <<>>
    BY <1>5, <2>1, ToSeqEmpty
  <2>3. next.events = st.events
    BY <1>1, <2>2, ConcatEmptySeq
  <2>. QED  BY <1>2, <1>4, <1>5, <1>6, <1>7, <2>3
<1>8. CASE open # {}
  <2>1. PICK c \in st.pending : c \in open /\ c.call = call
    BY <1>2, <1>8
  <2>2. \A d \in open : d = c
    BY <1>1, <1>2, <2>1 DEF OnePer
  <2>3. open = {c}
    BY <2>1, <2>2
  <2>4. PICK ev : ev = Found(s, st.at, c.at)
    OBVIOUS
  <2>5. found = {ev}
    BY <1>3, <2>3, <2>4
  <2>6. next.events = st.events \o <<ev>>
    BY <1>5, <2>5, ToSeqOne
  <2>7. next.events = Append(st.events, ev)
    BY <1>1, <2>6
  <2>. QED  BY <1>4, <1>5, <1>6, <2>1, <2>4, <2>7
<1>. QED  BY <1>7, <1>8

LEMMA RowShape ==
  ASSUME NEW row \in Row
  PROVE  /\ row.type \in {"call", "output"} => row.call \in Calls
         /\ row.type \notin {"call", "output"} => row.call = 0 /\ row.type \in {"meta", "model", "turn"}
         /\ 0 \notin Calls /\ Calls \subseteq Nat
         /\ \A c : row = [type |-> "call", call |-> c] <=> row.type = "call" /\ row.call = c
BY CodexConstantsOK DEF Row

\* What one row makes of a scan.
LEMMA RowStep ==
  ASSUME NEW st \in ScanState, NEW row \in Row, NEW s \in Sessions, gen[s] \in Nat, NEW model \in BOOLEAN
  PROVE  LET next == ScanRow(st, row, s, model)
         IN  /\ next \in ScanState /\ next.at = st.at + 1
             /\ \/ next.events = st.events
                \/ \E j \in Nat : next.events = Append(st.events, EventOf(s, gen[s], st.at + 1, j))
<1>1. st.at \in Nat /\ st.pending \in SUBSET Pending /\ st.events \in Seq(Event) /\ OnePer(st.pending)
  BY DEF ScanState
<1>2. PICK on : on = [st EXCEPT !.at = @ + 1]
  OBVIOUS
<1>3. on \in ScanState /\ on.at = st.at + 1 /\ on.pending = st.pending /\ on.events = st.events
  BY <1>1, <1>2 DEF ScanState
<1>4. \A j \in Nat : EventOf(s, gen[s], st.at + 1, j) \in Event
  BY <1>1 DEF EventOf, Event
<1>5. PICK next : next = ScanRow(st, row, s, model)
  OBVIOUS
<1>6. CASE row.type = "call"
  <2>1. PICK new : new = [call |-> row.call, at |-> on.at, gen |-> gen[s]]
    OBVIOUS
  <2>2. new \in Pending /\ new.call = row.call
    BY <1>1, <1>3, <1>6, <2>1, RowShape DEF Pending
  <2>3. PICK P : P = {c \in st.pending : c.call # row.call} \cup {new}
    OBVIOUS
  <2>4. P \in SUBSET Pending /\ OnePer(P)
    BY <1>1, <2>2, <2>3 DEF OnePer
  <2>5. next = [on EXCEPT !.pending = P]
    BY <1>2, <1>3, <1>5, <1>6, <2>1, <2>3 DEF ScanRow, Hold
  <2>6. next \in ScanState /\ next.at = on.at /\ next.events = on.events
    BY <1>3, <2>4, <2>5 DEF ScanState
  <2>. QED  BY <1>3, <1>5, <2>6
<1>7. CASE row.type = "output"
  <2>1. next = Pair(on, s, row.call)
    BY <1>2, <1>5, <1>7 DEF ScanRow
  <2>2. /\ next.at = on.at /\ next.pending = {c \in on.pending : c.call # row.call}
        /\ next = [at |-> next.at, pending |-> next.pending, events |-> next.events]
        /\ \/ next.events = on.events
           \/ \E c \in on.pending : next.events = Append(on.events, Found(s, on.at, c.at))
    BY <1>3, <2>1, Pairs
  <2>3. next.pending \in SUBSET Pending /\ OnePer(next.pending)
    BY <1>1, <1>3, <2>2 DEF OnePer
  <2>4. /\ next.events \in Seq(Event)
        /\ \/ next.events = st.events
           \/ \E j \in Nat : next.events = Append(st.events, EventOf(s, gen[s], st.at + 1, j))
    <3>1. CASE next.events = on.events
      BY <1>1, <1>3, <3>1
    <3>2. CASE \E c \in on.pending : next.events = Append(on.events, Found(s, on.at, c.at))
      <4>1. PICK c \in on.pending : next.events = Append(on.events, Found(s, on.at, c.at))
        BY <3>2
      <4>2. PICK j \in Nat : j = c.at
        BY <1>1, <1>3 DEF Pending
      <4>3. PICK ev \in Event : ev = EventOf(s, gen[s], st.at + 1, j)
        BY <1>4
      <4>4. ev = Found(s, on.at, c.at)
        BY <1>3, <4>2, <4>3 DEF Found, EventOf
      <4>5. next.events = Append(st.events, ev)
        BY <1>3, <4>1, <4>4
      <4>6. Append(st.events, ev) \in Seq(Event)
        BY <1>1
      <4>. QED  BY <4>3, <4>5, <4>6
    <3>. QED  BY <2>2, <3>1, <3>2
  <2>6. next.at \in Nat
    BY <1>1, <1>3, <2>2
  <2>7. next \in ScanState
    BY <2>2, <2>3, <2>4, <2>6 DEF ScanState
  <2>. QED  BY <1>3, <1>5, <2>2, <2>4, <2>7
<1>8. CASE row.type = "turn" /\ model
  <2>1. PICK ev : ev = EventOf(s, gen[s], st.at + 1, 0)
    OBVIOUS
  <2>2. ev \in Event /\ ev = Found(s, on.at, 0)
    BY <1>3, <1>4, <2>1 DEF EventOf, Found
  <2>3. next = [on EXCEPT !.events = Append(on.events, ev)]
    BY <1>2, <1>5, <1>8, <2>2 DEF ScanRow
  <2>4. Append(on.events, ev) \in Seq(Event)
    BY <1>1, <1>3, <2>2
  <2>5. next \in ScanState /\ next.at = on.at /\ next.events = Append(st.events, ev)
    BY <1>3, <2>3, <2>4 DEF ScanState
  <2>. QED  BY <1>3, <1>5, <2>1, <2>5
<1>9. CASE row.type \notin {"call", "output"} /\ ~(row.type = "turn" /\ model)
  <2>1. next = on
    BY <1>2, <1>5, <1>9 DEF ScanRow
  <2>. QED  BY <1>3, <1>5, <2>1
<1>. QED  BY <1>6, <1>7, <1>8, <1>9

\* The calls that wait behind a row are those before it, but for its own id.
LEMMA LastCallStep ==
  ASSUME NEW rows, NEW n \in Nat, NEW j \in 1 .. n
  PROVE  LastCall(rows, n + 1, j) <=> LastCall(rows, n, j) /\ rows[n + 1].call # rows[j].call
<1>1. \A k : k \in j + 1 .. n + 1 <=> k \in j + 1 .. n \/ k = n + 1
  OBVIOUS
<1>. QED  BY <1>1 DEF LastCall

\* What waits behind row n + 1, from what waits behind row n.
LEMMA WaitsStep ==
  ASSUME NEW rows \in Seq(Row), NEW n \in Nat, n + 1 \in 1 .. Len(rows), NEW g, NEW P, NEW Q,
         Waits(P, rows, g, n),
         \A c : c \in Q <=> \/ c \in P /\ c.call # rows[n + 1].call
                            \/ rows[n + 1].type = "call" /\ c = Waiting(rows, g, n + 1)
  PROVE  Waits(Q, rows, g, n + 1)
<1>1. LastCall(rows, n + 1, n + 1) <=> rows[n + 1].type = "call"
  BY DEF LastCall
<1>2. ASSUME NEW c, c \in Q PROVE \E j \in 1 .. n + 1 : LastCall(rows, n + 1, j) /\ c = Waiting(rows, g, j)
  <2>1. CASE c \in P /\ c.call # rows[n + 1].call
    <3>1. PICK j \in 1 .. n : LastCall(rows, n, j) /\ c = Waiting(rows, g, j)
      BY <2>1 DEF Waits
    <3>2. c.call = rows[j].call
      BY <3>1 DEF Waiting
    <3>3. rows[n + 1].call # rows[j].call
      BY <2>1, <3>2
    <3>4. LastCall(rows, n + 1, j)
      BY <3>1, <3>3, LastCallStep
    <3>5. j \in 1 .. n + 1
      OBVIOUS
    <3>. QED  BY <3>1, <3>4, <3>5
  <2>2. CASE rows[n + 1].type = "call" /\ c = Waiting(rows, g, n + 1)
    <3>1. n + 1 \in 1 .. n + 1
      OBVIOUS
    <3>. QED  BY <1>1, <2>2, <3>1
  <2>. QED  BY <1>2, <2>1, <2>2
<1>3. ASSUME NEW c, NEW j \in 1 .. n + 1, LastCall(rows, n + 1, j), c = Waiting(rows, g, j) PROVE c \in Q
  <2>1. CASE j = n + 1
    BY <1>1, <1>3, <2>1
  <2>2. CASE j # n + 1
    <3>1. j \in 1 .. n
      BY <2>2
    <3>2. LastCall(rows, n, j) /\ rows[n + 1].call # rows[j].call
      BY <1>3, <3>1, LastCallStep
    <3>3. c \in P
      BY <1>3, <3>1, <3>2 DEF Waits
    <3>4. c.call = rows[j].call
      BY <1>3 DEF Waiting
    <3>. QED  BY <3>2, <3>3, <3>4
  <2>. QED  BY <2>1, <2>2
<1>. QED  BY <1>2, <1>3 DEF Waits

\* The event of an output begins at the call that waits for it.
LEMMA OutputBegins ==
  ASSUME NEW rows \in Seq(Row), NEW n \in Nat, n + 1 \in 1 .. Len(rows), NEW g, NEW P,
         Waits(P, rows, g, n), rows[n + 1].type = "output"
  PROVE  \A j \in 0 .. n : Begins(rows, n + 1, j) <=> \E c \in P : c.call = rows[n + 1].call /\ c.at = j
<1>1. PICK call : call = rows[n + 1].call
  OBVIOUS
<1>2. Len(rows) \in Nat /\ \A j \in 1 .. n : rows[j] \in Row
  OBVIOUS
<1>3. (n + 1) - 1 = n
  OBVIOUS
<1>4. ASSUME NEW j \in 0 .. n, Begins(rows, n + 1, j) PROVE \E c \in P : c.call = call /\ c.at = j
  <2>1. /\ j \in 1 .. n /\ rows[j] = [type |-> "call", call |-> call]
        /\ \A k \in j + 1 .. n : rows[k].call # call
    BY <1>1, <1>3, <1>4 DEF Begins
  <2>2. LastCall(rows, n, j)
    BY <2>1 DEF LastCall
  <2>3. PICK c : c = Waiting(rows, g, j)
    OBVIOUS
  <2>4. c \in P
    BY <2>1, <2>2, <2>3 DEF Waits
  <2>. QED  BY <2>1, <2>3, <2>4 DEF Waiting
<1>5. ASSUME NEW j \in 0 .. n, NEW c \in P, c.call = call, c.at = j PROVE Begins(rows, n + 1, j)
  <2>1. PICK k \in 1 .. n : LastCall(rows, n, k) /\ c = Waiting(rows, g, k)
    BY DEF Waits
  <2>2. k = j /\ rows[j].call = call /\ j \in 1 .. n
    BY <1>5, <2>1 DEF Waiting
  <2>3. rows[j].type = "call" /\ \A i \in j + 1 .. n : rows[i].call # call
    BY <2>1, <2>2 DEF LastCall
  <2>4. rows[j] = [type |-> "call", call |-> call]
    BY <1>2, <2>2, <2>3, RowShape
  <2>. QED  BY <1>1, <1>3, <2>2, <2>3, <2>4 DEF Begins
<1>. QED  BY <1>1, <1>4, <1>5

\* A scan that knows what waits behind a row finds the event of the next and
\* knows what waits behind it.
LEMMA RowExact ==
  ASSUME NEW st \in ScanState, NEW s \in Sessions, NEW rows \in Seq(Row), gen[s] \in Nat,
         NEW model \in BOOLEAN, st.at + 1 \in 1 .. Len(rows), Waits(st.pending, rows, gen[s], st.at),
         model \/ rows[st.at + 1].type # "turn"
  PROVE  LET next == ScanRow(st, rows[st.at + 1], s, model)
         IN  /\ Waits(next.pending, rows, gen[s], st.at + 1)
             /\ \A ev : ev \in ToSet(next.events) <=>
                          ev \in ToSet(st.events) \/ IsOf(ev, rows, gen[s], s, st.at + 1)
<1>1. PICK n \in Nat, g \in Nat : n = st.at /\ g = gen[s]
  BY DEF ScanState
<1>2. PICK row \in Row : row = rows[n + 1]
  BY <1>1
<1>3. PICK P : P = st.pending
  OBVIOUS
<1>4. PICK next : next = ScanRow(st, row, s, model)
  OBVIOUS
<1>5. PICK on : on = [st EXCEPT !.at = @ + 1]
  OBVIOUS
<1>6. on \in ScanState /\ on.at = n + 1 /\ on.pending = P /\ on.events = st.events
      /\ st.events \in Seq(Event) /\ P \in SUBSET Pending
  BY <1>1, <1>3, <1>5 DEF ScanState
<1>7. n + 1 \in 1 .. Len(rows) /\ Waits(P, rows, g, n)
  BY <1>1, <1>3
<1>8. \A j \in 1 .. n : rows[j] \in Row /\ Len(rows) \in Nat
  BY <1>7
<1>9. CASE row.type = "call"
  <2>1. next.events = st.events
        /\ next.pending = {c \in P : c.call # row.call} \cup {[call |-> row.call, at |-> n + 1, gen |-> g]}
    BY <1>1, <1>3, <1>4, <1>5, <1>6, <1>9 DEF ScanRow, Hold, ScanState
  <2>2. [call |-> row.call, at |-> n + 1, gen |-> g] = Waiting(rows, g, n + 1)
    BY <1>2 DEF Waiting
  <2>3. \A c : c \in next.pending <=> \/ c \in P /\ c.call # rows[n + 1].call
                                      \/ rows[n + 1].type = "call" /\ c = Waiting(rows, g, n + 1)
    BY <1>2, <1>9, <2>1, <2>2
  <2>4. Waits(next.pending, rows, g, n + 1)
    BY <1>7, <2>3, WaitsStep
  <2>5. \A ev : ~IsOf(ev, rows, g, s, n + 1)
    BY <1>2, <1>9 DEF IsOf, Begins
  <2>. QED  BY <1>1, <1>2, <1>4, <2>1, <2>4, <2>5
<1>10. CASE row.type = "output"
  <2>1. next = Pair(on, s, row.call)
    BY <1>4, <1>5, <1>10 DEF ScanRow
  <2>2. /\ next.pending = {c \in P : c.call # row.call}
        /\ \/ /\ \A c \in P : c.call # row.call
              /\ next.events = st.events
           \/ \E c \in P : c.call = row.call /\ next.events = Append(st.events, Found(s, n + 1, c.at))
    <3>1. /\ next.pending = {c \in on.pending : c.call # row.call}
          /\ \/ /\ \A c \in on.pending : c.call # row.call
                /\ next.events = on.events
             \/ \E c \in on.pending :
                  c.call = row.call /\ next.events = Append(on.events, Found(s, on.at, c.at))
      <4>1. PICK call : call = row.call
        OBVIOUS
      <4>2. on \in ScanState /\ next = Pair(on, s, call)
        BY <1>6, <2>1, <4>1
      <4>3. /\ next.pending = {c \in on.pending : c.call # call}
            /\ \/ /\ \A c \in on.pending : c.call # call
                  /\ next.events = on.events
               \/ \E c \in on.pending :
                    c.call = call /\ next.events = Append(on.events, Found(s, on.at, c.at))
        BY <4>2, Pairs
      <4>. QED  BY <4>1, <4>3
    <3>. QED  BY <1>6, <3>1
  <2>3. \A c : c \in next.pending <=> \/ c \in P /\ c.call # rows[n + 1].call
                                      \/ rows[n + 1].type = "call" /\ c = Waiting(rows, g, n + 1)
    BY <1>2, <1>10, <2>2
  <2>4. Waits(next.pending, rows, g, n + 1)
    BY <1>7, <2>3, WaitsStep
  <2>5. \A j \in 0 .. n : Begins(rows, n + 1, j) <=> \E c \in P : c.call = row.call /\ c.at = j
    BY <1>2, <1>7, <1>10, OutputBegins
  <2>6. (n + 1) - 1 = n
    OBVIOUS
  <2>7. \A ev : IsOf(ev, rows, g, s, n + 1) <=>
                  \E j \in 0 .. n : ev = EventOf(s, g, n + 1, j) /\ \E c \in P : c.call = row.call /\ c.at = j
    BY <2>5, <2>6 DEF IsOf
  <2>8. CASE \A c \in P : c.call # row.call
    BY <1>1, <1>2, <1>4, <2>2, <2>4, <2>7, <2>8
  <2>9. CASE \E c \in P : c.call = row.call
    <3>1. PICK c \in P : c.call = row.call /\ next.events = Append(st.events, Found(s, n + 1, c.at))
      BY <2>2, <2>9
    <3>2. PICK ev : ev = Found(s, n + 1, c.at)
      OBVIOUS
    <3>3. PICK k \in 1 .. n : c = Waiting(rows, g, k)
      BY <1>7 DEF Waits
    <3>4. c.at \in 0 .. n /\ ev = EventOf(s, g, n + 1, c.at)
      BY <1>1, <3>2, <3>3 DEF Waiting, Found, EventOf
    <3>5. \A d \in P : d.call = row.call => d = c
      BY <1>3, <3>1 DEF ScanState, OnePer
    <3>6. \A e : IsOf(e, rows, g, s, n + 1) <=> e = ev
      BY <2>7, <3>1, <3>4, <3>5
    <3>7. ToSet(next.events) = ToSet(st.events) \cup {ev}
      BY <1>6, <3>1, <3>2, ToSetAppend
    <3>. QED  BY <1>1, <1>2, <1>4, <2>4, <3>6, <3>7
  <2>. QED  BY <2>8, <2>9
<1>11. CASE row.type \notin {"call", "output"}
  <2>1. row.call = 0 /\ next.pending = P
    BY <1>3, <1>4, <1>5, <1>6, <1>11, RowShape DEF ScanRow, ScanState
  <2>2. \A c \in P : c.call # 0
    BY <1>6, CodexConstantsOK DEF Pending
  <2>3. \A c : c \in next.pending <=> \/ c \in P /\ c.call # rows[n + 1].call
                                      \/ rows[n + 1].type = "call" /\ c = Waiting(rows, g, n + 1)
    BY <1>2, <1>11, <2>1, <2>2
  <2>4. Waits(next.pending, rows, g, n + 1)
    BY <1>7, <2>3, WaitsStep
  <2>5. CASE row.type = "turn"
    <3>1. PICK ev : ev = Found(s, n + 1, 0)
      OBVIOUS
    <3>2. model
      BY <1>1, <1>2, <2>5
    <3>3. next = [on EXCEPT !.events = Append(@, ev)]
      BY <1>4, <1>5, <1>6, <2>5, <3>1, <3>2 DEF ScanRow
    <3>4. next.events = Append(st.events, ev)
      BY <1>6, <3>3 DEF ScanState
    <3>5. ToSet(next.events) = ToSet(st.events) \cup {ev}
      BY <1>6, <3>4, ToSetAppend
    <3>6. \A e : IsOf(e, rows, g, s, n + 1) <=> e = ev
      <4>1. ev = EventOf(s, g, n + 1, 0)
        BY <1>1, <3>1 DEF Found, EventOf
      <4>2. \A j \in 0 .. (n + 1) - 1 : Begins(rows, n + 1, j) <=> j = 0
        BY <1>2, <2>5 DEF Begins
      <4>3. 0 \in 0 .. (n + 1) - 1
        OBVIOUS
      <4>. QED  BY <4>1, <4>2, <4>3 DEF IsOf
    <3>. QED  BY <1>1, <1>2, <1>4, <2>4, <3>5, <3>6
  <2>6. CASE row.type # "turn"
    <3>1. next = on
      BY <1>4, <1>5, <1>11, <2>6 DEF ScanRow
    <3>2. \A ev : ~IsOf(ev, rows, g, s, n + 1)
      BY <1>2, <1>11, <2>6 DEF IsOf, Begins
    <3>. QED  BY <1>1, <1>2, <1>4, <1>6, <2>4, <3>1, <3>2
  <2>. QED  BY <2>5, <2>6
<1>. QED  BY <1>9, <1>10, <1>11

LEMMA ZeroIsFile == Zero \in File /\ Zero.offset = 0 /\ Zero.pending = {} /\ Zero.gen = 0 /\ Torn \notin File
BY DEF Zero, Torn, File, Cursor, OnePer

\* The scans up to each row, one per row.
Scans(from, s, model, scan) ==
  /\ scan[from.offset] = Unread(from)
  /\ \A n \in from.offset .. Len(file[s]) :
       n # Len(file[s]) => scan[n + 1] = ScanRow(scan[n], file[s][n + 1], s, model)

\* The recursion of ScanFrom is well founded: there is a scan up to every row.
LEMMA ScansExist ==
  ASSUME NEW start \in File, NEW s \in Sessions, file[s] \in Seq(Row), NEW model
  PROVE  \E scan : /\ Scans(From(start, s), s, model, scan)
                   /\ ScanFrom(start, s, model) = scan[Len(file[s])]
<1>. DEFINE from == From(start, s)
            a == from.offset
            n == Len(file[s])
            IsScan(scan, m) == scan = [k \in a .. m |-> IF k = a THEN Unread(from)
                                                        ELSE ScanRow(scan[k - 1], file[s][k], s, model)]
            Upto == {m \in a .. n : \E scan : IsScan(scan, m)}
<1>1. a \in Nat /\ n \in Nat /\ a =< n
  BY ZeroIsFile DEF From, File, Cursor
<1>2. a \in Upto
  <2>. DEFINE t == [k \in a .. a |-> Unread(from)]
  <2>1. IsScan(t, a)
    BY <1>1
  <2>2. a \in a .. n
    BY <1>1
  <2>. HIDE DEF t, a, n
  <2>. QED  BY <2>1, <2>2
<1>3. ASSUME NEW m \in a .. n, m # n, m \in Upto PROVE m + 1 \in Upto
  <2>1. PICK scan : IsScan(scan, m)
    BY <1>3
  <2>. DEFINE t == [k \in a .. (m + 1) |-> IF k = m + 1 THEN ScanRow(scan[m], file[s][m + 1], s, model)
                                           ELSE scan[k]]
  <2>2. ASSUME NEW k \in a .. (m + 1)
        PROVE  t[k] = IF k = a THEN Unread(from) ELSE ScanRow(t[k - 1], file[s][k], s, model)
    <3>1. CASE k = m + 1
      <4>1. t[m] = scan[m] /\ k - 1 = m /\ k # a
        BY <1>1, <3>1
      <4>. QED  BY <4>1, <3>1
    <3>2. CASE k # m + 1
      <4>1. k \in a .. m /\ t[k] = scan[k]
        BY <1>1, <3>2
      <4>2. scan[k] = IF k = a THEN Unread(from) ELSE ScanRow(scan[k - 1], file[s][k], s, model)
        BY <4>1, <2>1
      <4>3. k # a => t[k - 1] = scan[k - 1]
        BY <1>1, <4>1
      <4>. QED  BY <4>1, <4>2, <4>3
    <3>. QED  BY <3>1, <3>2
  <2>3. IsScan(t, m + 1)
    BY <2>2
  <2>4. m + 1 \in a .. n
    BY <1>1, <1>3
  <2>. QED  BY <2>3, <2>4
<1>4. n \in Upto
  <2>. HIDE DEF Upto
  <2>1. \A m \in a .. n : m # n /\ m \in Upto => m + 1 \in Upto
    BY <1>3
  <2>2. \A k \in a .. n : k \in Upto
    BY <1>1, <1>2, <2>1, Induct
  <2>. QED  BY <1>1, <2>2
<1>5. \E scan : IsScan(scan, n)
  BY <1>4
<1>6. ScanFrom(start, s, model) = (CHOOSE scan : IsScan(scan, n))[n]
  BY DEF ScanFrom
<1>7. IsScan(CHOOSE scan : IsScan(scan, n), n)
  BY <1>5
<1>. HIDE DEF a, n, from
<1>8. PICK scan : IsScan(scan, n) /\ ScanFrom(start, s, model) = scan[n]
  BY <1>6, <1>7
<1>9. scan[a] = Unread(from)
  BY <1>8, <1>1
<1>10. ASSUME NEW k \in a .. n, k # n PROVE scan[k + 1] = ScanRow(scan[k], file[s][k + 1], s, model)
  <2>1. k + 1 \in a .. n /\ k + 1 # a /\ (k + 1) - 1 = k
    BY <1>1, <1>10
  <2>. QED  BY <1>8, <2>1
<1>. QED  BY <1>8, <1>9, <1>10 DEF Scans, a, n, from

\* What a scan found it found once, in rows behind its start.
Traced(events, s, g, m, n) ==
  /\ IsInjective(events)
  /\ \A e \in ToSet(events) : e.session = s /\ e.gen = g /\ e.at \in m + 1 .. n

LEMMA TracedAppend ==
  ASSUME NEW events \in Seq(Event), NEW s, NEW g, NEW m \in Nat, NEW n \in Nat, m =< n,
         NEW j, NEW next,
         Traced(events, s, g, m, n), next = events \/ next = Append(events, EventOf(s, g, n + 1, j))
  PROVE  Traced(next, s, g, m, n + 1)
<1>1. \A i : i \in m + 1 .. n => i \in m + 1 .. n + 1 /\ i # n + 1
  OBVIOUS
<1>2. CASE next = events
  BY <1>1, <1>2 DEF Traced
<1>3. CASE next = Append(events, EventOf(s, g, n + 1, j))
  <2>1. PICK ev : ev = EventOf(s, g, n + 1, j)
    OBVIOUS
  <2>2. ev.session = s /\ ev.gen = g /\ ev.at = n + 1 /\ n + 1 \in m + 1 .. n + 1
    BY <2>1 DEF EventOf
  <2>3. ToSet(next) = ToSet(events) \cup {ev}
    BY <1>3, <2>1, ToSetAppend
  <2>4. ev \notin ToSet(events)
    BY <1>1, <2>2 DEF Traced
  <2>5. PICK k \in Nat : k = Len(events)
    OBVIOUS
  <2>6. DOMAIN next = 1 .. k + 1 /\ DOMAIN events = 1 .. k /\ next[k + 1] = ev
        /\ \A i \in 1 .. k : next[i] = events[i]
    BY <1>3, <2>1, <2>5
  <2>7. \A i \in 1 .. k : events[i] \in ToSet(events)
    BY <2>6 DEF ToSet
  <2>8. ASSUME NEW a \in 1 .. k + 1, NEW b \in 1 .. k + 1, next[a] = next[b] PROVE a = b
    <3>1. (a \in 1 .. k \/ a = k + 1) /\ (b \in 1 .. k \/ b = k + 1)
      OBVIOUS
    <3>2. CASE a \in 1 .. k /\ b \in 1 .. k
      BY <2>6, <2>8, <3>2 DEF Traced, IsInjective
    <3>3. CASE a = k + 1 \/ b = k + 1
      BY <2>4, <2>6, <2>7, <2>8, <3>1, <3>3
    <3>. QED  BY <3>1, <3>2, <3>3
  <2>9. IsInjective(next)
    BY <2>6, <2>8 DEF IsInjective
  <2>. QED  BY <1>1, <2>2, <2>3, <2>9 DEF Traced
<1>. QED  BY <1>2, <1>3

\* A model is known, or there is no turn that would need it.
Modelled(rows, model) == model \/ \A i \in DOMAIN rows : rows[i].type # "turn"

\* What readNewCodexSessionEvents returns: it has read all rows and, when it
\* starts with what waits behind its cursor, it has the events of the rows
\* behind that and no others, and what waits behind the last.
LEMMA ScanFinds ==
  ASSUME NEW start \in File, NEW s \in Sessions, file[s] \in Seq(Row), gen[s] \in Nat, NEW model \in BOOLEAN
  PROVE  LET from == From(start, s)
             st == ScanFrom(start, s, model)
             rows == file[s]
         IN  /\ from \in File /\ from.offset =< Len(rows)
             /\ st \in ScanState /\ st.at = Len(rows)
             /\ Traced(st.events, s, gen[s], from.offset, Len(rows))
             /\ Waits(from.pending, rows, gen[s], from.offset) /\ Modelled(rows, model) =>
                  /\ Waits(st.pending, rows, gen[s], Len(rows))
                  /\ \A ev : ev \in ToSet(st.events) <=> Within(ev, rows, gen[s], s, from.offset, Len(rows))
<1>1. PICK from : from = From(start, s)
  OBVIOUS
<1>2. PICK rows \in Seq(Row), g \in Nat : rows = file[s] /\ g = gen[s]
  OBVIOUS
<1>3. PICK m \in Nat, len \in Nat : m = from.offset /\ len = Len(rows)
  BY <1>1, ZeroIsFile DEF From, File, Cursor
<1>4. from \in File /\ m =< len
  BY <1>1, <1>2, <1>3, ZeroIsFile DEF From, File, Cursor
<1>5. PICK scan : Scans(from, s, model, scan) /\ ScanFrom(start, s, model) = scan[len]
  BY <1>1, <1>2, <1>3, ScansExist
<1>. DEFINE Knows == Waits(from.pending, rows, g, m) /\ Modelled(rows, model)
            Exact(st, n) == /\ Waits(st.pending, rows, g, n)
                            /\ \A ev : ev \in ToSet(st.events) <=> Within(ev, rows, g, s, m, n)
            Good(n) == /\ scan[n] \in ScanState /\ scan[n].at = n
                       /\ Traced(scan[n].events, s, g, m, n)
                       /\ Knows => Exact(scan[n], n)
            G == {n \in m .. len : Good(n)}
<1>6. m \in G
  <2>1. PICK st : st = Unread(from)
    OBVIOUS
  <2>2. st = scan[m] /\ st \in ScanState /\ st.at = m /\ st.events = <<>> /\ st.pending = from.pending
    BY <1>3, <1>4, <1>5, <2>1, UnreadTypes DEF Scans, Unread
  <2>3. ToSet(st.events) = {} /\ DOMAIN st.events = {}
    BY <2>2 DEF ToSet
  <2>4. Traced(st.events, s, g, m, m)
    BY <2>3 DEF Traced, IsInjective
  <2>5. \A ev : ~Within(ev, rows, g, s, m, m)
    BY DEF Within
  <2>6. Good(m)
    BY <2>2, <2>3, <2>4, <2>5
  <2>. HIDE DEF Good
  <2>. QED  BY <1>4, <2>6
<1>7. ASSUME NEW n \in m .. len, n # len, n \in G PROVE n + 1 \in G
  <2>1. PICK st : st = scan[n]
    OBVIOUS
  <2>2. st \in ScanState /\ st.at = n /\ Traced(st.events, s, g, m, n) /\ (Knows => Exact(st, n))
    BY <1>7, <2>1
  <2>3. n \in Nat /\ m =< n /\ n + 1 \in m .. len /\ n + 1 \in 1 .. len
    BY <1>7
  <2>4. PICK row \in Row : row = rows[n + 1]
    BY <1>3, <2>3
  <2>5. PICK next : next = ScanRow(st, row, s, model)
    OBVIOUS
  <2>6. next = scan[n + 1]
    BY <1>2, <1>3, <1>5, <1>7, <2>1, <2>4, <2>5 DEF Scans
  <2>7. /\ next \in ScanState /\ next.at = n + 1
        /\ \/ next.events = st.events
           \/ \E j \in Nat : next.events = Append(st.events, EventOf(s, g, n + 1, j))
    BY <1>2, <2>2, <2>5, RowStep
  <2>8. st.events \in Seq(Event)
    BY <2>2 DEF ScanState
  <2>9. Traced(next.events, s, g, m, n + 1)
    BY <2>2, <2>3, <2>7, <2>8, TracedAppend
  <2>10. ASSUME Knows PROVE Exact(next, n + 1)
    <3>1. Waits(st.pending, rows, g, n) /\ \A ev : ev \in ToSet(st.events) <=> Within(ev, rows, g, s, m, n)
      BY <2>2, <2>10
    <3>2. model \/ rows[n + 1].type # "turn"
      BY <1>3, <2>3, <2>10 DEF Modelled
    <3>3. /\ Waits(next.pending, rows, g, n + 1)
          /\ \A ev : ev \in ToSet(next.events) <=>
                       ev \in ToSet(st.events) \/ IsOf(ev, rows, g, s, n + 1)
      BY <1>2, <1>3, <2>2, <2>3, <2>4, <2>5, <3>1, <3>2, RowExact
    <3>4. \A ev : Within(ev, rows, g, s, m, n + 1) <=> Within(ev, rows, g, s, m, n) \/ IsOf(ev, rows, g, s, n + 1)
      <4>1. \A i : i \in m + 1 .. n + 1 <=> i \in m + 1 .. n \/ i = n + 1
        BY <2>3
      <4>. QED  BY <1>3, <2>3, <4>1 DEF Within
    <3>. QED  BY <3>1, <3>3, <3>4
  <2>11. Good(n + 1)
    BY <2>6, <2>7, <2>9, <2>10
  <2>. HIDE DEF Good
  <2>. QED  BY <2>3, <2>11
<1>8. Good(len)
  <2>. HIDE DEF G
  <2>1. \A n \in m .. len : n # len /\ n \in G => n + 1 \in G
    BY <1>7
  <2>2. \A n \in m .. len : n \in G
    BY <1>6, <2>1, Induct
  <2>3. len \in G
    BY <1>4, <2>2
  <2>. QED  BY <2>3 DEF G
<1>. QED  BY <1>1, <1>2, <1>3, <1>4, <1>5, <1>8

(***************************************************************************)
(* Type correctness                                                        *)
(***************************************************************************)

ProcState ==
  [pc : {"off", "open", "scan", "truncate", "write", "enqueue", "done"},
   rest : Seq(Sessions), session : Sessions \cup {"none"}, id : Ids, model : BOOLEAN,
   start : File, end : File, events : Seq(Event)]

\* A process has events in hand only between its scan and its end, all of
\* the session it is at.
InOrder(x) ==
  /\ x.pc \notin {"off", "done"} => x.session \in Sessions
  /\ x.pc \in {"off", "open", "scan", "done"} => x.events = <<>>
  /\ x.pc = "enqueue" => x.events # <<>>
  /\ \A e \in ToSet(x.events) : e.session = x.session

Types ==
  /\ file \in [Sessions -> Seq(Row)] /\ byTime \in Seq(Sessions) /\ byTime # <<>>
  /\ gen \in [Sessions -> Nat]
  /\ cursor \in [Sessions -> [Ids -> File \cup {Torn}]]
  /\ proc \in [Procs -> ProcState] /\ \A p \in Procs : InOrder(proc[p])
  /\ queued \subseteq Event /\ dropped \subseteq Event

\* p goes on in the state x; and a state between reading and writing a cursor.
Becomes(p, x) == x \in ProcState /\ InOrder(x) /\ Become(p, x)
Reads(x) == x.pc \in {"scan", "truncate", "write"}

LEMMA TypesImplyTypeOK == Types => TypeOK
<1>. SUFFICES ASSUME Types PROVE TypeOK
  OBVIOUS
<1>1. ASSUME NEW s \in Sessions, NEW i \in Ids, cursor[s][i] # Torn
      PROVE  /\ cursor[s][i] \in Cursor
             /\ \A c, d \in cursor[s][i].pending : c.call = d.call => c = d
  <2>1. cursor[s][i] \in File
    BY <1>1 DEF Types
  <2>. QED  BY <2>1 DEF File, OnePer
<1>2. ASSUME NEW p \in Procs PROVE proc[p].start \in Cursor /\ proc[p].end \in Cursor
  BY DEF Types, ProcState, File
<1>. QED  BY <1>1, <1>2 DEF Types, TypeOK

LEMMA BecomesOne ==
  ASSUME Types, NEW p \in Procs, NEW x, Becomes(p, x)
  PROVE  /\ proc' \in [Procs -> ProcState] /\ \A q \in Procs : InOrder(proc'[q])
         /\ proc'[p] = x /\ \A q \in Procs \ {p} : proc'[q] = proc[q]
BY DEF Types, Becomes, Become

LEMMA OffTypes ==
  ASSUME NEW p
  PROVE  /\ Off \in ProcState /\ InOrder(Off) /\ Off.events = <<>> /\ Off.pc = "off"
         /\ Ended(p) \in ProcState /\ InOrder(Ended(p)) /\ Ended(p).events = <<>>
         /\ Ended(p).pc \in {"off", "done"}
<1>1. ToSet(<<>>) = {}
  BY ToSetEmpty
<1>2. <<>> \in Seq(Sessions) /\ <<>> \in Seq(Event)
  OBVIOUS
<1>3. Off \in ProcState /\ Off.events = <<>> /\ Off.pc = "off"
  BY <1>2, ZeroIsFile DEF Off, ProcState, Ids
<1>4. [Off EXCEPT !.pc = "done"] \in ProcState
  BY <1>3 DEF ProcState
<1>5. [Off EXCEPT !.pc = "done"].events = <<>> /\ [Off EXCEPT !.pc = "done"].pc = "done"
  BY DEF Off
<1>. QED  BY <1>1, <1>3, <1>4, <1>5 DEF InOrder, Ended

\* After its cursor a process enqueues, goes to the next session or ends.
LEMMA DeliverTypes ==
  ASSUME NEW p \in Procs, NEW x \in ProcState, x.session \in Sessions,
         \A e \in ToSet(x.events) : e.session = x.session
  PROVE  LET y == Deliver(p, x)
         IN  /\ y \in ProcState /\ InOrder(y) /\ y.events = x.events
             /\ y.pc \in {"off", "open", "enqueue", "done"}
<1>1. PICK y : y = Deliver(p, x)
  OBVIOUS
<1>2. ToSet(<<>>) = {}
  BY ToSetEmpty
<1>3. CASE x.events # <<>>
  <2>1. y = [x EXCEPT !.pc = "enqueue", !.start = Zero, !.end = Zero]
    BY <1>1, <1>3 DEF Deliver
  <2>2. y \in ProcState /\ y.pc = "enqueue" /\ y.events = x.events /\ y.session = x.session
    BY <2>1, ZeroIsFile DEF ProcState
  <2>. QED  BY <1>1, <1>3, <2>2 DEF InOrder
<1>4. CASE x.events = <<>> /\ p = Tailer /\ x.rest # <<>>
  <2>1. y = [Off EXCEPT !.pc = "open", !.rest = Tail(x.rest), !.session = Head(x.rest)]
    BY <1>1, <1>4 DEF Deliver
  <2>2. x.rest \in Seq(Sessions)
    BY DEF ProcState
  <2>3. Tail(x.rest) \in Seq(Sessions) /\ Head(x.rest) \in Sessions
    BY <1>4, <2>2
  <2>4. y \in ProcState /\ y.pc = "open" /\ y.events = <<>> /\ y.session \in Sessions
    BY <2>1, <2>3, OffTypes DEF ProcState
  <2>. QED  BY <1>1, <1>2, <1>4, <2>4 DEF InOrder
<1>5. CASE x.events = <<>> /\ ~(p = Tailer /\ x.rest # <<>>)
  BY <1>5, OffTypes DEF Deliver
<1>. QED  BY <1>3, <1>4, <1>5

LEMMA InitTypes == Init => Types
<1>. SUFFICES ASSUME Init PROVE Types
  OBVIOUS
<1>1. Beginnings \subseteq Seq(Row)
  <2>1. Bare("meta") \in Row /\ Bare("model") \in Row
    BY DEF Bare, Row
  <2>2. ASSUME NEW c \in Calls
        PROVE  <<Bare("meta"), Bare("model"), [type |-> "call", call |-> c]>> \in Seq(Row)
    <3>1. [type |-> "call", call |-> c] \in Row
      BY DEF Row
    <3>. QED  BY <2>1, <3>1
  <2>3. <<>> \in Seq(Row) /\ <<Bare("meta"), Bare("model")>> \in Seq(Row)
    BY <2>1
  <2>. QED  BY <2>2, <2>3 DEF Beginnings
<1>2. byTime \in Seq(Sessions) /\ byTime # <<>>
  <2>1. PICK n : n = Cardinality(Sessions)
    OBVIOUS
  <2>2. n \in Nat /\ n # 0
    BY <2>1, CodexConstantsOK, FS_EmptySet, FS_CardinalityType
  <2>3. byTime \in [1 .. n -> Sessions]
    BY <2>1 DEF Init, Orders
  <2>4. byTime \in Seq(Sessions) /\ Len(byTime) = n
    BY <2>2, <2>3
  <2>. QED  BY <2>2, <2>4
<1>3. file \in [Sessions -> Seq(Row)]
  BY <1>1 DEF Init
<1>4. cursor \in [Sessions -> [Ids -> File \cup {Torn}]]
  BY DEF Init
<1>5. proc \in [Procs -> ProcState] /\ \A p \in Procs : InOrder(proc[p])
  BY OffTypes DEF Init
<1>. QED  BY <1>2, <1>3, <1>4, <1>5 DEF Init, Types

\* What Codex does to a session.
LEMMA TouchTypes ==
  ASSUME Types, NEW s \in Sessions, Touch(s)
  PROVE  byTime' \in Seq(Sessions) /\ byTime' # <<>>
<1>1. byTime \in Seq(Sessions)
  BY DEF Types
<1>2. PICK i \in 1 .. Len(byTime) : byTime' = Append(RemoveAt(byTime, i), s)
  BY <1>1, LenProperties DEF Touch
<1>3. RemoveAt(byTime, i) \in Seq(Sessions)
  BY <1>1, RemovedOne
<1>. QED  BY <1>2, <1>3

LEMMA AppendSteps ==
  ASSUME Types, NEW s \in Sessions, AppendRow(s)
  PROVE  \E row \in Row :
           /\ file' = [file EXCEPT ![s] = Append(file[s], row)] /\ Types'
           /\ UNCHANGED <<gen, cursor, proc, queued, dropped, excused>>
<1>1. PICK row \in Row : file' = [file EXCEPT ![s] = Append(file[s], row)]
  BY DEF AppendRow
<1>2. file' \in [Sessions -> Seq(Row)]
  <2>1. file[s] \in Seq(Row)
    BY DEF Types
  <2>2. Append(file[s], row) \in Seq(Row)
    BY <2>1
  <2>. QED  BY <1>1, <2>2 DEF Types
<1>3. UNCHANGED <<gen, cursor, proc, queued, dropped, excused>> /\ Touch(s)
  BY DEF AppendRow
<1>. QED  BY <1>1, <1>2, <1>3, TouchTypes DEF Types

LEMMA RotateSteps ==
  ASSUME Types, NEW s \in Sessions, Rotate(s)
  PROVE  /\ gen' = [gen EXCEPT ![s] = gen[s] + 1] /\ Types'
         /\ \A t \in Sessions \ {s} : file'[t] = file[t]
         /\ "repeats" \in excused' /\ excused \subseteq excused'
         /\ UNCHANGED <<cursor, proc, queued, dropped>>
<1>1. PICK n \in Nat : file' = [file EXCEPT ![s] = SubSeq(file[s], 1, n)] /\ n =< Len(file[s])
  <2>1. file[s] \in Seq(Row)
    BY DEF Types
  <2>2. Len(file[s]) \in Nat
    BY <2>1
  <2>3. PICK n : n = IF Len(file[s]) > 2 THEN 2 ELSE 0
    OBVIOUS
  <2>4. n \in Nat /\ n =< Len(file[s])
    BY <2>2, <2>3
  <2>5. file' = [file EXCEPT ![s] = SubSeq(file[s], 1, n)]
    BY <2>3 DEF Rotate
  <2>. QED  BY <2>4, <2>5
<1>2. file' \in [Sessions -> Seq(Row)]
  <2>1. file[s] \in Seq(Row)
    BY DEF Types
  <2>2. \A i \in 1 .. n : file[s][i] \in Row
    BY <1>1, <2>1
  <2>3. SubSeq(file[s], 1, n) \in Seq(Row)
    BY <2>2, SubSeqProperties
  <2>. QED  BY <1>1, <2>3 DEF Types
<1>3. UNCHANGED <<cursor, proc, queued, dropped>> /\ Touch(s)
      /\ "repeats" \in excused' /\ excused \subseteq excused'
      /\ gen' = [gen EXCEPT ![s] = gen[s] + 1]
  BY DEF Rotate
<1>4. gen' \in [Sessions -> Nat]
  BY <1>3 DEF Types
<1>. QED  BY <1>1, <1>2, <1>3, <1>4, TouchTypes DEF Types

LEMMA CursorTypes ==
  ASSUME Types, NEW s \in Sessions, NEW i \in Ids
  PROVE  /\ ReadCursor(s, i) \in File
         /\ ReadCursor(s, i) = Zero \/ (cursor[s][i] # Torn /\ ReadCursor(s, i) = cursor[s][i])
<1>1. cursor[s][i] = Torn \/ cursor[s][i] \in File
  BY DEF Types
<1>. QED  BY <1>1, ZeroIsFile DEF ReadCursor

\* What a process becomes by its steps, before its scan,
LEMMA PollSteps ==
  ASSUME Types, Poll
  PROVE  /\ Tailer \in Procs /\ UNCHANGED <<files, cursor, queued, dropped, excused>>
         /\ proc[Tailer].events = <<>>
         /\ \E x : Becomes(Tailer, x) /\ x.pc = "open" /\ x.events = <<>>
<1>1. Tailer \in Procs
  BY DEF Procs
<1>2. PICK x : x = [Off EXCEPT !.pc = "open", !.rest = Tail(byTime), !.session = Head(byTime)]
  OBVIOUS
<1>3. Tail(byTime) \in Seq(Sessions) /\ Head(byTime) \in Sessions
  BY DEF Types
<1>4. x \in ProcState /\ x.pc = "open" /\ x.events = <<>> /\ x.session \in Sessions
  BY <1>2, <1>3, OffTypes DEF ProcState
<1>5. InOrder(x)
  BY <1>4, ToSetEmpty DEF InOrder
<1>6. proc[Tailer].events = <<>>
  BY <1>1 DEF Poll, Types, InOrder
<1>. QED  BY <1>1, <1>2, <1>4, <1>5, <1>6 DEF Poll, Becomes

Opens(p, s, x) ==
  /\ x.pc = "scan" /\ x.events = <<>> /\ x.session = s /\ x.id \in Ids
  /\ x.start \in {Zero, ReadCursor(s, x.id)}
  /\ \/ /\ x.id = "own" /\ x.start = ReadCursor(s, x.id)
        /\ \A q \in Procs \ {p} : ~(Reads(proc[q]) /\ proc[q].session = s)
     \/ "repeats" \in excused'

LEMMA EnterSteps ==
  ASSUME Types, NEW p \in Procs, NEW s \in Sessions, NEW id \in Ids, NEW model \in BOOLEAN,
         NEW start \in {Zero, ReadCursor(s, id)},
         proc[p].pc \in {"off", "open"}, Enter(p, s, id, model, start),
         \/ /\ id = "own" /\ start = ReadCursor(s, id)
            /\ \A q \in Procs \ {p} : ~(Reads(proc[q]) /\ proc[q].session = s)
         \/ "repeats" \in excused'
  PROVE  /\ UNCHANGED <<files, cursor, queued, dropped>> /\ proc[p].events = <<>>
         /\ \E x : Becomes(p, x) /\ Opens(p, s, x)
<1>1. PICK file_ \in File : file_ = start
  BY CursorTypes, ZeroIsFile
<1>2. PICK y \in ProcState : y = proc[p] /\ y.events = <<>>
  BY DEF Types, InOrder
<1>3. PICK x : x = [y EXCEPT !.pc = "scan", !.session = s, !.id = id, !.model = model, !.start = file_]
  OBVIOUS
<1>4. x.pc = "scan" /\ x.session = s /\ x.id = id /\ x.start = file_ /\ x.events = <<>>
  BY <1>2, <1>3 DEF ProcState
<1>5. x \in ProcState
  BY <1>2, <1>3 DEF ProcState
<1>6. InOrder(x)
  BY <1>4, ToSetEmpty DEF InOrder
<1>7. Become(p, x) /\ UNCHANGED <<files, cursor, queued, dropped>>
  BY <1>1, <1>2, <1>3 DEF Enter
<1>8. Becomes(p, x) /\ Opens(p, s, x)
  BY <1>1, <1>4, <1>5, <1>6, <1>7 DEF Becomes, Opens
<1>. QED  BY <1>2, <1>7, <1>8

LEMMA OpenSteps ==
  ASSUME Types, NEW p \in Procs, NEW s \in Sessions, NEW named \in {"", "own", "other"},
         proc[p].pc \in {"off", "open"}, Open(p, s, named)
  PROVE  /\ UNCHANGED <<files, cursor, queued, dropped>> /\ proc[p].events = <<>>
         /\ excused \subseteq excused'
         /\ \E x : Becomes(p, x) /\ Opens(p, s, x)
<1>1. PICK id \in Ids, model \in BOOLEAN : id = SessionID(s, named) /\ model = Has(s, "model")
  BY DEF SessionID, Ids, Has
<1>2. CASE OpenRead(p, s, named)
  <2>1. /\ Enter(p, s, id, model, ReadCursor(s, id))
        /\ excused' = excused
             \cup {e \in {"repeats"} :
                    id # "own" \/ \E q \in Procs \ {p} : Scanning(q) /\ proc[q].session = s}
    BY <1>1, <1>2 DEF OpenRead
  <2>2. (id = "own" /\ \A q \in Procs \ {p} : ~(Reads(proc[q]) /\ proc[q].session = s))
        \/ "repeats" \in excused'
    BY <2>1 DEF Scanning, Reads
  <2>3. PICK start \in {Zero, ReadCursor(s, id)} : start = ReadCursor(s, id)
    OBVIOUS
  <2>4. /\ UNCHANGED <<files, cursor, queued, dropped>> /\ proc[p].events = <<>>
        /\ \E x : Becomes(p, x) /\ Opens(p, s, x)
    BY <2>1, <2>2, <2>3, EnterSteps
  <2>. QED  BY <2>1, <2>4
<1>3. CASE OpenUnread(p, s, named)
  <2>1. excused' = excused \cup {"repeats"}
    BY <1>3 DEF OpenUnread
  <2>2. PICK i \in Ids : \E m \in BOOLEAN, start \in {Zero, ReadCursor(s, i)} : Enter(p, s, i, m, start)
    <3>1. CASE Enter(p, s, SessionID(s, named), Has(s, "model"), Zero)
      BY <1>1, <3>1
    <3>2. CASE \E i \in {SessionID(s, named), IF named = "" THEN "fresh" ELSE named} :
                 Enter(p, s, i, FALSE, ReadCursor(s, i))
      <4>1. PICK i \in Ids : Enter(p, s, i, FALSE, ReadCursor(s, i))
        BY <1>1, <3>2 DEF Ids
      <4>. QED  BY <4>1
    <3>. QED  BY <1>3, <3>1, <3>2 DEF OpenUnread
  <2>3. "repeats" \in excused'
    BY <2>1
  <2>4. /\ UNCHANGED <<files, cursor, queued, dropped>> /\ proc[p].events = <<>>
        /\ \E x : Becomes(p, x) /\ Opens(p, s, x)
    BY <2>2, <2>3, EnterSteps
  <2>. QED  BY <2>1, <2>4
<1>. QED  BY <1>2, <1>3 DEF Open

\* in its scan,
ScanEnd(p) ==
  LET st == ScanFrom(proc[p].start, proc[p].session, proc[p].model)
  IN  [offset |-> st.at, pending |-> st.pending, gen |-> gen[proc[p].session]]

LEMMA ScanSteps ==
  ASSUME Types, NEW p \in Procs, Scan(p)
  PROVE  LET s == proc[p].session
             start == proc[p].start
             found == ScanFrom(start, s, proc[p].model).events
         IN  /\ proc[p].pc = "scan" /\ s \in Sessions
             /\ UNCHANGED <<files, cursor, queued>> /\ excused \subseteq excused'
             /\ (~proc[p].model /\ Has(s, "turn")) \/ (start.offset \in 1 .. Len(file[s]) /\ start.gen # gen[s])
                => "omits" \in excused'
             /\ dropped \subseteq dropped' /\ dropped' \subseteq dropped \cup ToSet(found)
             /\ found \in Seq(Event) /\ ScanEnd(p) \in File
             /\ \E x : /\ Becomes(p, x)
                       /\ ToSet(x.events) \subseteq ToSet(found)
                       /\ ToSet(found) \subseteq ToSet(x.events) \cup dropped'
                       /\ IsInjective(found) => IsInjective(x.events)
                       /\ \/ /\ WorthWriting(start, ScanEnd(p))
                             /\ x.pc = "truncate" /\ x.session = s /\ x.id = proc[p].id
                             /\ x.start = start /\ x.end = ScanEnd(p)
                          \/ /\ ~WorthWriting(start, ScanEnd(p)) /\ ~Reads(x)
<1>1. PICK s : s = proc[p].session
  OBVIOUS
<1>2. proc[p].pc = "scan" /\ s \in Sessions /\ proc[p] \in ProcState
  BY <1>1 DEF Scan, Types, InOrder
<1>3. PICK start \in File, model \in BOOLEAN : start = proc[p].start /\ model = proc[p].model
  BY <1>2 DEF ProcState
<1>4. PICK st : st = ScanFrom(start, s, model)
  OBVIOUS
<1>5. gen[s] \in Nat /\ file[s] \in Seq(Row)
  BY <1>2 DEF Types
<1>6. st \in ScanState /\ st.at = Len(file[s])
      /\ Traced(st.events, s, gen[s], From(start, s).offset, Len(file[s]))
  BY <1>2, <1>4, <1>5, ScanFinds
<1>7. PICK end : end = [offset |-> st.at, pending |-> st.pending, gen |-> gen[s]]
  OBVIOUS
<1>8. end = ScanEnd(p)
  BY <1>1, <1>3, <1>4, <1>7 DEF ScanEnd
<1>9. st.events \in Seq(Event) /\ (\A e \in ToSet(st.events) : e.session = s)
  BY <1>6 DEF ScanState, Traced
<1>10. end \in File
  <2>1. OnePer(end.pending)
    BY <1>5, <1>6, <1>7 DEF ScanState
  <2>2. ASSUME end.offset = 0 PROVE end.pending = {}
    <3>1. Len(file[s]) = 0 /\ file[s] = <<>>
      BY <1>5, <1>6, <1>7, <2>2
    <3>2. From(start, s) \in File /\ From(start, s).offset =< 0
      BY <1>2, <1>4, <1>5, <3>1, ScanFinds
    <3>3. PICK from \in File : from = From(start, s)
      BY <3>2
    <3>4. from.offset = 0
      BY <3>2, <3>3 DEF File, Cursor
    <3>5. \E scan : Scans(from, s, model, scan) /\ st = scan[0]
      <4>1. \E scan : Scans(From(start, s), s, model, scan) /\ ScanFrom(start, s, model) = scan[Len(file[s])]
        BY <1>2, <1>5, ScansExist
      <4>. QED  BY <1>4, <3>1, <3>3, <4>1
    <3>6. st = Unread(from)
      BY <3>4, <3>5 DEF Scans
    <3>. QED  BY <1>7, <3>4, <3>6 DEF Unread, File
  <2>3. end \in Cursor
    BY <1>5, <1>6, <1>7 DEF ScanState, Cursor
  <2>. QED  BY <2>1, <2>2, <2>3 DEF File
<1>. DEFINE Worth == WorthWriting(start, end)
            At(ev) == [proc[p] EXCEPT !.events = ev]
            After(ev) == IF Worth THEN [At(ev) EXCEPT !.pc = "truncate", !.end = end]
                         ELSE Deliver(p, At(ev))
<1>12. ASSUME NEW ev \in Seq(Event), ToSet(ev) \subseteq ToSet(st.events)
       PROVE  /\ After(ev) \in ProcState /\ InOrder(After(ev)) /\ After(ev).events = ev
              /\ \/ /\ Worth /\ After(ev).pc = "truncate" /\ After(ev).session = s
                    /\ After(ev).id = proc[p].id /\ After(ev).start = start /\ After(ev).end = end
                 \/ ~Worth /\ ~Reads(After(ev))
  <2>1. PICK at : at = At(ev)
    OBVIOUS
  <2>2. /\ at \in ProcState /\ at.events = ev /\ at.session = s /\ at.id = proc[p].id /\ at.start = start
    BY <1>1, <1>2, <1>3, <1>12, <2>1 DEF ProcState
  <2>3. \A e \in ToSet(ev) : e.session = s
    BY <1>9, <1>12
  <2>4. CASE Worth
    <3>1. PICK x : x = [at EXCEPT !.pc = "truncate", !.end = end]
      OBVIOUS
    <3>2. x \in ProcState /\ x.pc = "truncate" /\ x.end = end /\ x.events = ev /\ x.session = s
          /\ x.id = proc[p].id /\ x.start = start
      BY <1>10, <2>2, <3>1 DEF ProcState
    <3>3. InOrder(x)
      BY <1>2, <2>3, <3>2 DEF InOrder
    <3>4. x = After(ev)
      BY <2>1, <2>4, <3>1
    <3>. QED  BY <2>4, <3>2, <3>3, <3>4
  <2>5. CASE ~Worth
    <3>1. PICK y : y = Deliver(p, at)
      OBVIOUS
    <3>2. y \in ProcState /\ InOrder(y) /\ y.events = ev /\ y.pc \in {"off", "open", "enqueue", "done"}
      BY <1>2, <2>2, <2>3, <3>1, DeliverTypes
    <3>3. y = After(ev)
      BY <2>1, <2>5, <3>1
    <3>. QED  BY <2>5, <3>2, <3>3 DEF Reads
  <2>. QED  BY <2>4, <2>5
<1>13. \/ Become(p, After(st.events)) /\ dropped' = dropped
       \/ \E i \in DOMAIN st.events :
            /\ Become(p, After(RemoveAt(st.events, i)))
            /\ dropped' = dropped \cup {st.events[i]}
  BY <1>1, <1>3, <1>4, <1>7 DEF Scan
<1>14. PICK ev : /\ Become(p, After(ev)) /\ ev \in Seq(Event) /\ ToSet(ev) \subseteq ToSet(st.events)
                 /\ ToSet(st.events) \subseteq ToSet(ev) \cup dropped'
                 /\ IsInjective(st.events) => IsInjective(ev)
                 /\ dropped \subseteq dropped' /\ dropped' \subseteq dropped \cup ToSet(st.events)
  <2>. HIDE DEF After
  <2>1. CASE Become(p, After(st.events)) /\ dropped' = dropped
    BY <1>9, <2>1
  <2>2. CASE \E i \in DOMAIN st.events :
               /\ Become(p, After(RemoveAt(st.events, i)))
               /\ dropped' = dropped \cup {st.events[i]}
    <3>1. PICK i \in DOMAIN st.events :
               /\ Become(p, After(RemoveAt(st.events, i)))
               /\ dropped' = dropped \cup {st.events[i]}
      BY <2>2
    <3>2. i \in 1 .. Len(st.events) /\ st.events[i] \in ToSet(st.events)
      BY <1>9, LenProperties DEF ToSet
    <3>3. PICK ev : ev = RemoveAt(st.events, i)
      OBVIOUS
    <3>4. /\ ev \in Seq(Event) /\ ToSet(ev) \subseteq ToSet(st.events)
          /\ ToSet(st.events) \subseteq ToSet(ev) \cup {st.events[i]}
          /\ IsInjective(st.events) => IsInjective(ev)
      BY <1>9, <3>2, <3>3, RemovedOne
    <3>. QED  BY <3>1, <3>2, <3>3, <3>4
  <2>. QED  BY <1>13, <2>1, <2>2
<1>15. PICK x : x = After(ev)
  OBVIOUS
<1>16. /\ x \in ProcState /\ InOrder(x) /\ x.events = ev /\ Become(p, x)
       /\ \/ /\ Worth /\ x.pc = "truncate" /\ x.session = s
             /\ x.id = proc[p].id /\ x.start = start /\ x.end = end
          \/ ~Worth /\ ~Reads(x)
  <2>. HIDE DEF After
  <2>. QED  BY <1>12, <1>14, <1>15
<1>17. /\ UNCHANGED <<files, cursor, queued>> /\ excused \subseteq excused'
       /\ (~model /\ Has(s, "turn")) \/ (start.offset \in 1 .. Len(file[s]) /\ start.gen # gen[s])
          => "omits" \in excused'
  BY <1>1, <1>3 DEF Scan
<1>. HIDE DEF After, At
<1>. QED  BY <1>1, <1>2, <1>3, <1>4, <1>8, <1>9, <1>10, <1>14, <1>16, <1>17 DEF Becomes

\* with its cursor,
LEMMA TruncateSteps ==
  ASSUME Types, NEW p \in Procs, TruncateCursor(p)
  PROVE  /\ proc[p].pc = "truncate" /\ UNCHANGED <<files, queued, dropped, excused>>
         /\ cursor' = [cursor EXCEPT ![proc[p].session][proc[p].id] = Torn]
         /\ \E x : /\ Becomes(p, x) /\ x.pc = "write" /\ x.events = proc[p].events
                   /\ x.session = proc[p].session /\ x.id = proc[p].id
                   /\ x.start = proc[p].start /\ x.end = proc[p].end
<1>1. proc[p].pc = "truncate" /\ proc[p] \in ProcState /\ InOrder(proc[p])
  BY DEF TruncateCursor, Types
<1>2. PICK x : x = [proc[p] EXCEPT !.pc = "write"]
  OBVIOUS
<1>3. /\ x \in ProcState /\ x.pc = "write" /\ x.events = proc[p].events
      /\ x.session = proc[p].session /\ x.id = proc[p].id
      /\ x.start = proc[p].start /\ x.end = proc[p].end
  BY <1>1, <1>2 DEF ProcState
<1>4. InOrder(x)
  BY <1>1, <1>3 DEF InOrder
<1>. QED  BY <1>1, <1>2, <1>3, <1>4 DEF TruncateCursor, Becomes

LEMMA WriteSteps ==
  ASSUME Types, NEW p \in Procs, WriteCursor(p) \/ WriteFails(p)
  PROVE  /\ proc[p].pc \in {"truncate", "write"}
         /\ UNCHANGED <<files, queued, dropped>> /\ excused \subseteq excused'
         /\ \/ /\ proc[p].pc = "write"
               /\ cursor' = [cursor EXCEPT ![proc[p].session][proc[p].id] = proc[p].end]
            \/ cursor' = cursor /\ "repeats" \in excused'
         /\ \E x : Becomes(p, x) /\ ~Reads(x) /\ x.events = proc[p].events
<1>1. proc[p].pc \in {"truncate", "write"} /\ proc[p] \in ProcState /\ InOrder(proc[p])
  BY DEF WriteCursor, WriteFails, Types
<1>2. PICK x : x = Deliver(p, proc[p])
  OBVIOUS
<1>3. x \in ProcState /\ InOrder(x) /\ x.events = proc[p].events /\ ~Reads(x)
  BY <1>1, <1>2, DeliverTypes DEF InOrder, Reads
<1>. QED  BY <1>1, <1>2, <1>3 DEF WriteCursor, WriteFails, Becomes

\* in its loop over the events,
LEMMA TailOfEvents ==
  ASSUME NEW s \in Seq(Event), s # <<>>
  PROVE  /\ Tail(s) \in Seq(Event) /\ Head(s) \in Event
         /\ IsInjective(s) => IsInjective(Tail(s)) /\ Head(s) \notin ToSet(Tail(s))
<1>1. DOMAIN Tail(s) = 1 .. (Len(s) - 1) /\ DOMAIN s = 1 .. Len(s) /\ Len(s) \in Nat \ {0}
  OBVIOUS
<1>2. \A i \in 1 .. (Len(s) - 1) : Tail(s)[i] = s[i + 1]
  OBVIOUS
<1>3. Head(s) = s[1] /\ Tail(s) \in Seq(Event) /\ Head(s) \in Event
  OBVIOUS
<1>4. \A i \in 1 .. (Len(s) - 1) : i + 1 \in 1 .. Len(s) /\ i + 1 # 1 /\ 1 \in 1 .. Len(s)
  BY <1>1
<1>5. ASSUME IsInjective(s) PROVE Head(s) \notin ToSet(Tail(s))
  BY <1>1, <1>2, <1>3, <1>4, <1>5 DEF IsInjective, ToSet
<1>6. ASSUME IsInjective(s) PROVE IsInjective(Tail(s))
  <2>1. ASSUME NEW a \in 1 .. (Len(s) - 1), NEW b \in 1 .. (Len(s) - 1), Tail(s)[a] = Tail(s)[b]
        PROVE  a = b
    <3>1. s[a + 1] = s[b + 1]
      BY <1>2, <2>1
    <3>2. a + 1 = b + 1
      BY <1>1, <1>4, <1>6, <3>1 DEF IsInjective
    <3>. QED  BY <1>1, <3>2
  <2>. QED  BY <1>1, <2>1 DEF IsInjective
<1>. QED  BY <1>3, <1>5, <1>6

LEMMA EnqueueSteps ==
  ASSUME Types, NEW p \in Procs, EnqueueEvent(p) \/ EnqueueFails(p)
  PROVE  LET events == proc[p].events
         IN  /\ proc[p].pc = "enqueue" /\ UNCHANGED <<files, cursor, excused>>
             /\ dropped \subseteq dropped' /\ dropped' \subseteq dropped \cup ToSet(events)
             /\ \E x : /\ Becomes(p, x) /\ ~Reads(x)
                       /\ ToSet(x.events) \subseteq ToSet(events)
                       /\ IsInjective(events) => IsInjective(x.events)
                       /\ \/ /\ queued' = queued \cup {Head(events)}
                             /\ ToSet(events) = {Head(events)} \cup ToSet(x.events)
                             /\ IsInjective(events) => Head(events) \notin ToSet(x.events)
                          \/ /\ queued' = queued /\ ToSet(events) \subseteq dropped' \cup ToSet(x.events)
<1>1. proc[p].pc = "enqueue" /\ proc[p] \in ProcState /\ InOrder(proc[p])
  BY DEF EnqueueEvent, EnqueueFails, Types
<1>2. PICK events \in Seq(Event) : events = proc[p].events
  BY <1>1 DEF ProcState
<1>3. events # <<>> /\ proc[p].session \in Sessions /\ \A e \in ToSet(events) : e.session = proc[p].session
  BY <1>1, <1>2 DEF InOrder
<1>4. PICK rest : rest = Tail(events)
  OBVIOUS
<1>5. /\ rest \in Seq(Event) /\ ToSet(events) = {Head(events)} \cup ToSet(rest)
      /\ IsInjective(events) => IsInjective(rest) /\ Head(events) \notin ToSet(rest)
  BY <1>3, <1>4, ToSetTail, TailOfEvents
<1>6. PICK x : x = Deliver(p, [proc[p] EXCEPT !.events = rest])
  OBVIOUS
<1>7. x \in ProcState /\ InOrder(x) /\ x.events = rest /\ ~Reads(x)
  <2>1. PICK y : y = [proc[p] EXCEPT !.events = rest]
    OBVIOUS
  <2>2. y \in ProcState /\ y.events = rest /\ y.session = proc[p].session
    BY <1>1, <1>5, <2>1 DEF ProcState
  <2>3. \A e \in ToSet(y.events) : e.session = y.session
    BY <1>3, <1>5, <2>2
  <2>4. x \in ProcState /\ InOrder(x) /\ x.events = y.events /\ x.pc \in {"off", "open", "enqueue", "done"}
    BY <1>3, <1>6, <2>1, <2>2, <2>3, DeliverTypes
  <2>. QED  BY <2>2, <2>4 DEF Reads
<1>8. CASE EnqueueEvent(p)
  <2>1. /\ Become(p, x) /\ queued' = queued \cup {Head(events)}
        /\ UNCHANGED <<files, cursor, dropped, excused>>
    BY <1>2, <1>4, <1>6, <1>8 DEF EnqueueEvent
  <2>. QED  BY <1>1, <1>2, <1>5, <1>7, <2>1 DEF Becomes
<1>9. CASE EnqueueFails(p)
  <2>1. UNCHANGED <<files, cursor, queued, excused>>
    BY <1>9 DEF EnqueueFails
  <2>2. \/ Become(p, x) /\ dropped' = dropped \cup {Head(events)}
        \/ Become(p, Ended(p)) /\ dropped' = dropped \cup ToSet(events)
    BY <1>2, <1>4, <1>6, <1>9 DEF EnqueueFails
  <2>3. CASE Become(p, x) /\ dropped' = dropped \cup {Head(events)}
    BY <1>1, <1>2, <1>5, <1>7, <2>1, <2>3 DEF Becomes
  <2>4. CASE Become(p, Ended(p)) /\ dropped' = dropped \cup ToSet(events)
    <3>1. PICK y : y = Ended(p)
      OBVIOUS
    <3>2. Becomes(p, y) /\ ~Reads(y) /\ y.events = <<>>
      BY <2>4, <3>1, OffTypes DEF Becomes, Reads
    <3>3. ToSet(y.events) = {} /\ IsInjective(y.events)
      BY <3>2, ToSetEmpty DEF IsInjective
    <3>4. dropped \subseteq dropped' /\ dropped' \subseteq dropped \cup ToSet(events)
          /\ ToSet(events) \subseteq dropped' \cup ToSet(y.events) /\ queued' = queued
      BY <2>1, <2>4
    <3>. QED  BY <1>1, <1>2, <2>1, <3>2, <3>3, <3>4
  <2>. QED  BY <2>2, <2>3, <2>4
<1>. QED  BY <1>8, <1>9

\* and where it breaks off.
LEMMA EndSteps ==
  ASSUME Types, NEW p \in Procs, ScanFails(p) \/ Crash(p)
  PROVE  /\ UNCHANGED <<files, cursor, queued>> /\ excused \subseteq excused'
         /\ proc[p].pc = "write" => "repeats" \in excused'
         /\ dropped' = dropped \cup ToSet(proc[p].events)
         /\ \E x : Becomes(p, x) /\ ~Reads(x) /\ x.events = <<>>
<1>1. PICK x : x = Ended(p)
  OBVIOUS
<1>2. x \in ProcState /\ InOrder(x) /\ ~Reads(x) /\ x.events = <<>>
  BY <1>1, OffTypes DEF Reads
<1>3. CASE ScanFails(p)
  <2>1. proc[p].pc = "scan" /\ proc[p].events = <<>>
    BY <1>3 DEF ScanFails, Types, InOrder
  <2>. QED  BY <1>1, <1>2, <1>3, <2>1, ToSetEmpty DEF ScanFails, Becomes
<1>4. CASE Crash(p)
  BY <1>1, <1>2, <1>4 DEF Crash, Becomes
<1>. QED  BY <1>3, <1>4

\* Every step is one of these.
LEMMA NextCases ==
  ASSUME Types, [Next]_vars
  PROVE  \/ \E s \in Sessions : AppendRow(s) \/ Rotate(s)
         \/ Poll
         \/ \E p \in Procs, s \in Sessions, named \in {"", "own", "other"} :
              proc[p].pc \in {"off", "open"} /\ Open(p, s, named)
         \/ \E p \in Procs : \/ Scan(p) \/ TruncateCursor(p) \/ WriteCursor(p) \/ WriteFails(p)
                             \/ EnqueueEvent(p) \/ EnqueueFails(p) \/ ScanFails(p) \/ Crash(p)
         \/ UNCHANGED vars
<1>1. Tailer \in Procs /\ Stops \subseteq Procs
  BY DEF Procs
<1>2. CASE OpenSession
  <2>1. proc[Tailer].session \in Sessions /\ proc[Tailer].pc = "open"
    BY <1>1, <1>2 DEF OpenSession, Types, InOrder
  <2>. QED  BY <1>1, <1>2, <2>1 DEF OpenSession
<1>3. CASE \E p \in Stops : Stop(p)
  BY <1>1, <1>3 DEF Stop
<1>4. CASE \E p \in Procs : Step(p) \/ Fault(p)
  BY <1>4 DEF Step, Fault
<1>. QED  BY <1>1, <1>2, <1>3, <1>4 DEF Next, Tailing

LEMMA NextTypes == Types /\ [Next]_vars => Types'
<1>. SUFFICES ASSUME Types, [Next]_vars PROVE Types'
  OBVIOUS
<1>1. CASE \E s \in Sessions : AppendRow(s) \/ Rotate(s)
  BY <1>1, AppendSteps, RotateSteps
<1>2. ASSUME NEW p \in Procs, NEW x, Becomes(p, x), UNCHANGED files,
             cursor' \in [Sessions -> [Ids -> File \cup {Torn}]],
             queued' \subseteq Event, dropped' \subseteq Event
      PROVE  Types'
  BY <1>2, BecomesOne DEF Types, files
<1>3. ASSUME NEW p \in Procs
      PROVE  proc[p] \in ProcState /\ ToSet(proc[p].events) \subseteq Event
  BY DEF Types, ProcState, ToSet
<1>4. cursor \in [Sessions -> [Ids -> File \cup {Torn}]] /\ queued \subseteq Event /\ dropped \subseteq Event
  BY DEF Types
<1>5. CASE Poll
  <2>1. Tailer \in Procs /\ UNCHANGED <<files, cursor, queued, dropped>> /\ \E x : Becomes(Tailer, x)
    BY <1>5, PollSteps
  <2>. QED  BY <1>2, <1>4, <2>1
<1>6. CASE \E p \in Procs, s \in Sessions, named \in {"", "own", "other"} :
             proc[p].pc \in {"off", "open"} /\ Open(p, s, named)
  <2>1. PICK p \in Procs : UNCHANGED <<files, cursor, queued, dropped>> /\ \E x : Becomes(p, x)
    BY <1>6, OpenSteps
  <2>. QED  BY <1>2, <1>4, <2>1
<1>7. ASSUME NEW p \in Procs, Scan(p) PROVE Types'
  <2>1. PICK found : found = ScanFrom(proc[p].start, proc[p].session, proc[p].model).events
    OBVIOUS
  <2>2. /\ UNCHANGED <<files, cursor, queued>> /\ \E x : Becomes(p, x)
        /\ found \in Seq(Event) /\ dropped' \subseteq dropped \cup ToSet(found)
    BY <1>7, <2>1, ScanSteps
  <2>3. ToSet(found) \subseteq Event
    BY <2>2 DEF ToSet
  <2>. QED  BY <1>2, <1>4, <2>2, <2>3
<1>8. ASSUME NEW p \in Procs, TruncateCursor(p) \/ WriteCursor(p) \/ WriteFails(p) PROVE Types'
  <2>1. /\ UNCHANGED <<files, queued, dropped>> /\ \E x : Becomes(p, x)
        /\ \/ cursor' = cursor
           \/ \E c \in {Torn, proc[p].end} : cursor' = [cursor EXCEPT ![proc[p].session][proc[p].id] = c]
    BY <1>8, TruncateSteps, WriteSteps
  <2>2. proc[p].end \in File /\ proc[p].id \in Ids
    BY <1>3 DEF ProcState
  <2>3. cursor' \in [Sessions -> [Ids -> File \cup {Torn}]]
    BY <1>4, <2>1, <2>2
  <2>. QED  BY <1>2, <1>4, <2>1, <2>3
<1>9. ASSUME NEW p \in Procs, EnqueueEvent(p) \/ EnqueueFails(p) PROVE Types'
  <2>1. PICK events : events = proc[p].events
    OBVIOUS
  <2>2. /\ UNCHANGED <<files, cursor>> /\ \E x : Becomes(p, x)
        /\ dropped' \subseteq dropped \cup ToSet(events)
        /\ queued' = queued \/ (queued' = queued \cup {Head(events)} /\ Head(events) \in ToSet(events))
    BY <1>9, <2>1, EnqueueSteps
  <2>. QED  BY <1>2, <1>3, <1>4, <2>1, <2>2
<1>10. ASSUME NEW p \in Procs, ScanFails(p) \/ Crash(p) PROVE Types'
  <2>1. /\ UNCHANGED <<files, cursor, queued>> /\ \E x : Becomes(p, x)
        /\ dropped' = dropped \cup ToSet(proc[p].events)
    BY <1>10, EndSteps
  <2>. QED  BY <1>2, <1>3, <1>4, <2>1
<1>11. CASE UNCHANGED vars
  BY <1>11 DEF vars, Types
<1>. QED  BY <1>1, <1>5, <1>6, <1>7, <1>8, <1>9, <1>10, <1>11, NextCases

\* Every variable of the tail and the hooks stays in its type; a cursor holds
\* one pending call of an id (handleCodexResponseItem's map).
THEOREM TypeCorrect == Spec => []TypeOK
<1>. QED  BY InitTypes, NextTypes, TypesImplyTypeOK, PTL DEF Spec


(***************************************************************************)
(* No row is passed over                                                   *)
(***************************************************************************)

\* What a process has in hand once its cursor is settled, and all events that
\* are accounted for.
InHand(x) == IF Reads(x) THEN {} ELSE ToSet(x.events)
Noted == queued \cup dropped \cup UNION {InHand(proc[p]) : p \in Procs}

\* A cursor of this generation has the calls that wait behind it, and E has the
\* event of every row before it.
Covered(rows, g, s, c, E) ==
  /\ c.gen =< g
  /\ c.gen = g => /\ c.offset =< Len(rows)
                  /\ Waits(c.pending, rows, g, c.offset)
                  /\ \A ev : Within(ev, rows, g, s, 0, c.offset) => ev \in E

\* So are the cursors of the sessions, those that scans start from and, with
\* the events they found, those that scans are about to write.
PassedBy(x) ==
  /\ x.pc = "scan" => Covered(file[x.session], gen[x.session], x.session, x.start, Noted)
  /\ x.pc \in {"truncate", "write"} =>
       Covered(file[x.session], gen[x.session], x.session, x.end, Noted \cup ToSet(x.events))
Passed ==
  /\ \A s \in Sessions, i \in Ids :
       cursor[s][i] # Torn => Covered(file[s], gen[s], s, cursor[s][i], Noted)
  /\ \A p \in Procs : PassedBy(proc[p])
PassedInv == "omits" \in excused \/ Passed

LEMMA CoveredMore ==
  ASSUME NEW rows, NEW g, NEW s, NEW c, NEW E, NEW F, E \subseteq F, Covered(rows, g, s, c, E)
  PROVE  Covered(rows, g, s, c, F)
BY DEF Covered

\* The zero cursor is behind no row.
LEMMA NothingWithin == \A ev, rows, g, s : \A n \in Nat : ~Within(ev, rows, g, s, n, n)
<1>1. \A n \in Nat : \A i \in n + 1 .. n : FALSE
  OBVIOUS
<1>. QED  BY <1>1 DEF Within

LEMMA NothingWaits == \A rows, g : Waits({}, rows, g, 0)
BY DEF Waits

LEMMA ZeroCovered ==
  ASSUME NEW rows \in Seq(Row), NEW g \in Nat, NEW s, NEW E
  PROVE  Covered(rows, g, s, Zero, E)
<1>1. Zero.offset = 0 /\ Zero.pending = {} /\ Zero.gen = 0
  BY ZeroIsFile
<1>2. 0 =< g /\ 0 =< Len(rows)
  OBVIOUS
<1>. QED  BY <1>1, <1>2, NothingWithin, NothingWaits DEF Covered

\* Rows that are not there yet are no part of what a cursor is behind.
LEMMA WithinBefore ==
  ASSUME NEW rows \in Seq(Row), NEW row \in Row, NEW g, NEW s, NEW n \in 0 .. Len(rows), NEW ev,
         Within(ev, Append(rows, row), g, s, 0, n)
  PROVE  Within(ev, rows, g, s, 0, n)
<1>1. PICK more : more = Append(rows, row)
  OBVIOUS
<1>2. PICK i \in 0 + 1 .. n : IsOf(ev, more, g, s, i)
  BY <1>1 DEF Within
<1>3. Len(rows) \in Nat /\ \A k \in 1 .. Len(rows) : more[k] = rows[k]
  BY <1>1
<1>4. i \in 1 .. Len(rows) /\ (\A k \in 1 .. i : more[k] = rows[k])
      /\ \A k \in 1 .. i - 1 : k \in 1 .. i
  BY <1>2, <1>3
<1>5. PICK j \in 0 .. i - 1 : ev = EventOf(s, g, i, j) /\ Begins(more, i, j)
  BY <1>2 DEF IsOf
<1>6. i \in 1 .. i
  BY <1>4
<1>7. Begins(rows, i, j)
  <2>1. CASE j = 0 /\ more[i].type = "turn"
    BY <1>4, <1>6, <2>1 DEF Begins
  <2>2. CASE /\ j \in 1 .. i - 1 /\ more[i].type = "output"
             /\ more[j] = [type |-> "call", call |-> more[i].call]
             /\ \A k \in j + 1 .. i - 1 : more[k].call # more[i].call
    <3>1. \A k \in j + 1 .. i - 1 : k \in 1 .. i
      BY <1>4, <2>2
    <3>2. \A k \in j + 1 .. i - 1 : rows[k].call # rows[i].call
      BY <1>4, <1>6, <2>2, <3>1
    <3>. QED  BY <1>4, <1>6, <2>2, <3>2 DEF Begins
  <2>. QED  BY <1>5, <2>1, <2>2 DEF Begins
<1>. QED  BY <1>2, <1>4, <1>5, <1>7 DEF Within, IsOf

\* What Codex does to a session leaves the cursors covered.
LEMMA CoveredFile ==
  ASSUME Types, NEW t \in Sessions, AppendRow(t) \/ Rotate(t), NEW s \in Sessions, NEW c \in File, NEW E,
         Covered(file[s], gen[s], s, c, E)
  PROVE  Covered(file[s], gen[s], s, c, E)'
<1>1. file[s] \in Seq(Row) /\ gen[s] \in Nat /\ c.offset \in Nat /\ c.gen \in Nat
  BY DEF Types, File, Cursor
<1>2. CASE AppendRow(t)
  <2>1. PICK row \in Row : file' = [file EXCEPT ![t] = Append(file[t], row)] /\ gen' = gen
    BY <1>2, AppendSteps
  <2>2. CASE s # t
    <3>1. file'[s] = file[s] /\ gen'[s] = gen[s]
      BY <2>1, <2>2 DEF Types
    <3>. QED  BY <3>1
  <2>3. CASE s = t
    <3>1. PICK rows \in Seq(Row), g \in Nat : rows = file[s] /\ g = gen[s]
      BY <1>1
    <3>2. PICK more : more = Append(rows, row)
      OBVIOUS
    <3>3. file'[s] = more /\ gen'[s] = g
      BY <2>1, <2>3, <3>1, <3>2 DEF Types
    <3>4. Covered(rows, g, s, c, E)
      BY <3>1
    <3>5. ASSUME c.gen = g
          PROVE  /\ c.offset =< Len(more) /\ Waits(c.pending, more, g, c.offset)
                 /\ \A ev : Within(ev, more, g, s, 0, c.offset) => ev \in E
      <4>1. PICK n \in Nat : n = c.offset
        BY <1>1
      <4>2. n =< Len(rows) /\ Waits(c.pending, rows, g, n) /\ \A ev : Within(ev, rows, g, s, 0, n) => ev \in E
        BY <3>4, <3>5, <4>1 DEF Covered
      <4>3. n \in 0 .. Len(rows) /\ Len(more) = Len(rows) + 1 /\ n =< Len(more)
        BY <3>2, <4>2
      <4>4. Waits(c.pending, more, g, n)
        BY <3>2, <4>2, <4>3, WaitsAppend
      <4>5. \A ev : Within(ev, more, g, s, 0, n) => Within(ev, rows, g, s, 0, n)
        BY <3>2, <4>3, WithinBefore
      <4>. QED  BY <4>1, <4>2, <4>3, <4>4, <4>5
    <3>6. Covered(more, g, s, c, E)
      BY <3>4, <3>5 DEF Covered
    <3>. QED  BY <3>3, <3>6
  <2>. QED  BY <2>2, <2>3
<1>3. CASE Rotate(t)
  <2>1. gen' = [gen EXCEPT ![t] = gen[t] + 1] /\ \A r \in Sessions \ {t} : file'[r] = file[r]
    BY <1>3, RotateSteps
  <2>2. CASE s # t
    <3>1. file'[s] = file[s] /\ gen'[s] = gen[s]
      BY <2>1, <2>2 DEF Types
    <3>. QED  BY <3>1
  <2>3. CASE s = t
    <3>1. gen'[s] = gen[s] + 1
      BY <2>1, <2>3 DEF Types
    <3>2. c.gen =< gen[s]
      BY DEF Covered
    <3>3. c.gen =< gen'[s] /\ c.gen # gen'[s]
      BY <1>1, <3>1, <3>2
    <3>. QED  BY <3>3 DEF Covered
  <2>. QED  BY <2>2, <2>3
<1>. QED  BY <1>2, <1>3

\* A step of one process leaves the others passed if nothing is lost.
LEMMA PassedStep ==
  ASSUME Types, Passed, NEW p \in Procs, NEW x, Becomes(p, x), UNCHANGED files,
         queued \subseteq queued', dropped \subseteq dropped',
         InHand(proc[p]) \subseteq queued' \cup dropped' \cup InHand(x),
         \A s \in Sessions, i \in Ids :
           \/ cursor'[s][i] \in {Torn, cursor[s][i]}
           \/ Covered(file[s], gen[s], s, cursor'[s][i], Noted'),
         x.pc = "scan" => Covered(file[x.session], gen[x.session], x.session, x.start, Noted'),
         x.pc \in {"truncate", "write"} =>
           Covered(file[x.session], gen[x.session], x.session, x.end, Noted' \cup ToSet(x.events))
  PROVE  Passed'
<1>1. proc'[p] = x /\ \A q \in Procs \ {p} : proc'[q] = proc[q]
  BY BecomesOne
<1>2. file' = file /\ gen' = gen
  BY DEF files
<1>3. Noted \subseteq Noted'
  <2>1. ASSUME NEW q \in Procs, NEW e \in InHand(proc[q]) PROVE e \in Noted'
    <3>1. CASE q = p
      <4>1. e \in queued' \cup dropped' \cup InHand(proc'[p])
        BY <1>1, <2>1, <3>1
      <4>. QED  BY <4>1 DEF Noted
    <3>2. CASE q # p
      BY <1>1, <2>1, <3>2 DEF Noted
    <3>. QED  BY <3>1, <3>2
  <2>. QED  BY <2>1 DEF Noted
<1>4. ASSUME NEW s \in Sessions, NEW i \in Ids, cursor'[s][i] # Torn
      PROVE  Covered(file'[s], gen'[s], s, cursor'[s][i], Noted')
  <2>1. CASE cursor'[s][i] = cursor[s][i]
    <3>1. Covered(file[s], gen[s], s, cursor[s][i], Noted)
      BY <1>4, <2>1 DEF Passed
    <3>. QED  BY <1>2, <1>3, <2>1, <3>1, CoveredMore
  <2>2. CASE cursor'[s][i] # cursor[s][i]
    BY <1>2, <1>4, <2>2
  <2>. QED  BY <2>1, <2>2
<1>5. ASSUME NEW q \in Procs PROVE PassedBy(proc[q])'
  <2>1. CASE q = p
    BY <1>1, <1>2, <2>1 DEF PassedBy
  <2>2. CASE q # p
    <3>1. PICK y : y = proc[q]
      OBVIOUS
    <3>2. proc'[q] = y /\ PassedBy(y)
      BY <1>1, <2>2, <3>1 DEF Passed
    <3>3. ToSet(y.events) \subseteq ToSet(y.events) /\ Noted \cup ToSet(y.events) \subseteq Noted' \cup ToSet(y.events)
      BY <1>3
    <3>4. y.pc = "scan" => Covered(file[y.session], gen[y.session], y.session, y.start, Noted')
      BY <1>3, <3>2, CoveredMore DEF PassedBy
    <3>5. y.pc \in {"truncate", "write"} =>
            Covered(file[y.session], gen[y.session], y.session, y.end, Noted' \cup ToSet(y.events))
      BY <3>2, <3>3, CoveredMore DEF PassedBy
    <3>. QED  BY <1>2, <3>2, <3>4, <3>5 DEF PassedBy
  <2>. QED  BY <2>1, <2>2
<1>. QED  BY <1>4, <1>5 DEF Passed

\* What a scan makes of a covered cursor.
LEMMA ScanCovers ==
  ASSUME Types, NEW p \in Procs, proc[p].pc = "scan", NEW E,
         Covered(file[proc[p].session], gen[proc[p].session], proc[p].session, proc[p].start, E),
         WorthWriting(proc[p].start, ScanEnd(p)),
         proc[p].model \/ ~Has(proc[p].session, "turn"),
         ~(proc[p].start.offset \in 1 .. Len(file[proc[p].session])
           /\ proc[p].start.gen # gen[proc[p].session])
  PROVE  LET s == proc[p].session
             start == proc[p].start
             rows == file[s]
             found == ToSet(ScanFrom(start, s, proc[p].model).events)
         IN  /\ start.offset =< Len(rows)
             /\ Covered(rows, gen[s], s, ScanEnd(p), E \cup found)
             /\ ScanEnd(p).offset = Len(rows)
             /\ \A ev \in found : Within(ev, rows, gen[s], s, start.offset, Len(rows))
<1>1. PICK s \in Sessions : s = proc[p].session
  BY DEF Types, InOrder
<1>2. PICK start \in File, model \in BOOLEAN : start = proc[p].start /\ model = proc[p].model
  BY DEF Types, ProcState
<1>3. PICK rows \in Seq(Row), g \in Nat : rows = file[s] /\ g = gen[s]
  BY DEF Types
<1>4. PICK st : st = ScanFrom(start, s, model)
  OBVIOUS
<1>5. PICK n \in Nat, len \in Nat : n = start.offset /\ len = Len(rows)
  BY DEF File, Cursor
<1>6. PICK found : found = ToSet(st.events)
  OBVIOUS
<1>7. st \in ScanState /\ st.at = len
  BY <1>1, <1>3, <1>4, <1>5, ScanFinds
<1>8. ScanEnd(p) = [offset |-> len, pending |-> st.pending, gen |-> g]
  BY <1>1, <1>2, <1>3, <1>4, <1>7 DEF ScanEnd
<1>9. len > n
  BY <1>2, <1>5, <1>8 DEF WorthWriting
<1>10. From(start, s) = start /\ n =< len
  BY <1>3, <1>5, <1>9 DEF From
<1>11. Modelled(rows, model)
  BY <1>1, <1>2, <1>3 DEF Modelled, Has
<1>12. Waits(start.pending, rows, g, n) /\ \A ev : Within(ev, rows, g, s, 0, n) => ev \in E
  <2>1. CASE n = 0
    BY <1>5, <2>1, NothingWithin, NothingWaits DEF File
  <2>2. CASE n # 0
    <3>1. n \in 1 .. len
      BY <1>10, <2>2
    <3>2. start.gen = g
      BY <1>1, <1>2, <1>3, <1>5, <3>1
    <3>3. Covered(rows, g, s, start, E)
      BY <1>1, <1>2, <1>3
    <3>. QED  BY <1>5, <3>2, <3>3 DEF Covered
  <2>. QED  BY <2>1, <2>2
<1>13. /\ Waits(st.pending, rows, g, len)
       /\ \A ev : ev \in found <=> Within(ev, rows, g, s, n, len)
  <2>1. start = From(start, s) /\ Waits(start.pending, rows, g, start.offset) /\ Modelled(rows, model)
    BY <1>5, <1>10, <1>11, <1>12
  <2>2. gen[s] \in Nat /\ file[s] \in Seq(Row)
    BY DEF Types
  <2>3. PICK from : from = From(start, s)
    OBVIOUS
  <2>4. from = start /\ Waits(from.pending, file[s], gen[s], from.offset) /\ Modelled(file[s], model)
    BY <1>3, <2>1, <2>3
  <2>5. /\ Waits(st.pending, file[s], gen[s], Len(file[s]))
        /\ \A ev : ev \in ToSet(st.events) <=>
                     Within(ev, file[s], gen[s], s, from.offset, Len(file[s]))
    BY <1>4, <2>2, <2>3, <2>4, ScanFinds
  <2>. QED  BY <1>3, <1>5, <1>6, <2>4, <2>5
<1>14. ASSUME NEW ev, Within(ev, rows, g, s, 0, len) PROVE ev \in E \cup found
  <2>1. Within(ev, rows, g, s, 0, n) \/ Within(ev, rows, g, s, n, len)
    BY <1>10, <1>14, WithinParts
  <2>. QED  BY <2>1, <1>12, <1>13
<1>15. Covered(rows, g, s, ScanEnd(p), E \cup found) /\ ScanEnd(p).offset = len
  BY <1>5, <1>8, <1>13, <1>14 DEF Covered
<1>16. found = ToSet(ScanFrom(start, s, model).events)
  BY <1>4, <1>6
<1>. QED  BY <1>1, <1>2, <1>3, <1>5, <1>10, <1>13, <1>15, <1>16

LEMMA InitPassed == Init => PassedInv
<1>. SUFFICES ASSUME Init PROVE Passed
  BY DEF PassedInv
<1>1. \A p \in Procs : proc[p].pc = "off"
  BY OffTypes DEF Init
<1>. QED  BY <1>1 DEF Init, Passed, PassedBy

LEMMA NextPassed == Types /\ PassedInv /\ [Next]_vars => PassedInv'
<1>. SUFFICES ASSUME Types, PassedInv, [Next]_vars, "omits" \notin excused' PROVE Passed'
  BY DEF PassedInv
<1>1. ASSUME excused \subseteq excused' PROVE Passed
  BY <1>1 DEF PassedInv
<1>3. ASSUME NEW x, x.events = <<>> PROVE InHand(x) = {}
  BY <1>3, ToSetEmpty DEF InHand
<1>4. CASE \E s \in Sessions : AppendRow(s) \/ Rotate(s)
  <2>1. PICK t \in Sessions : AppendRow(t) \/ Rotate(t)
    BY <1>4
  <2>2. UNCHANGED <<cursor, proc, queued, dropped>> /\ excused \subseteq excused'
    BY <2>1, AppendSteps, RotateSteps
  <2>3. Noted' = Noted /\ Passed
    BY <1>1, <2>2 DEF Noted
  <2>4. \A s \in Sessions, c \in File : \A E : Covered(file[s], gen[s], s, c, E) => Covered(file[s], gen[s], s, c, E)'
    BY <2>1, CoveredFile
  <2>5. ASSUME NEW s \in Sessions, NEW i \in Ids, cursor[s][i] # Torn
        PROVE  Covered(file'[s], gen'[s], s, cursor[s][i], Noted)
    <3>1. cursor[s][i] \in File /\ Covered(file[s], gen[s], s, cursor[s][i], Noted)
      BY <2>3, <2>5 DEF Types, Passed
    <3>. QED  BY <2>4, <3>1
  <2>6. ASSUME NEW p \in Procs PROVE PassedBy(proc[p])'
    <3>1. PICK y : y = proc[p]
      OBVIOUS
    <3>2. y.start \in File /\ y.end \in File /\ (Reads(y) => y.session \in Sessions) /\ PassedBy(y)
      BY <2>3, <3>1 DEF Types, ProcState, InOrder, Reads, Passed
    <3>3. y.pc = "scan" => Covered(file'[y.session], gen'[y.session], y.session, y.start, Noted)
      BY <2>4, <3>2 DEF PassedBy, Reads
    <3>4. y.pc \in {"truncate", "write"} =>
            Covered(file'[y.session], gen'[y.session], y.session, y.end, Noted \cup ToSet(y.events))
      BY <2>4, <3>2 DEF PassedBy, Reads
    <3>5. proc'[p] = y
      BY <2>2, <3>1
    <3>. QED  BY <2>3, <3>3, <3>4, <3>5 DEF PassedBy
  <2>. QED  BY <2>2, <2>3, <2>5, <2>6 DEF Passed
<1>5. CASE Poll
  <2>1. PICK x : /\ Tailer \in Procs /\ UNCHANGED <<files, cursor, queued, dropped, excused>>
                 /\ proc[Tailer].events = <<>> /\ Becomes(Tailer, x) /\ x.pc = "open"
    BY <1>5, PollSteps
  <2>2. InHand(proc[Tailer]) = {}
    BY <1>3, <2>1
  <2>. QED  BY <1>1, <2>1, <2>2, PassedStep
<1>6. CASE \E p \in Procs, s \in Sessions, named \in {"", "own", "other"} :
             proc[p].pc \in {"off", "open"} /\ Open(p, s, named)
  <2>1. PICK p \in Procs, s \in Sessions, named \in {"", "own", "other"} :
             proc[p].pc \in {"off", "open"} /\ Open(p, s, named)
    BY <1>6
  <2>2. PICK x : /\ UNCHANGED <<files, cursor, queued, dropped>> /\ proc[p].events = <<>>
                 /\ excused \subseteq excused'
                 /\ Becomes(p, x) /\ x.pc = "scan" /\ x.session = s
                 /\ x.start \in {Zero, ReadCursor(s, x.id)}
    <3>1. /\ UNCHANGED <<files, cursor, queued, dropped>> /\ proc[p].events = <<>>
          /\ excused \subseteq excused'
      BY <2>1, OpenSteps
    <3>2. PICK x : Becomes(p, x) /\ Opens(p, s, x)
      BY <2>1, OpenSteps
    <3>. QED  BY <3>1, <3>2 DEF Opens
  <2>3. InHand(proc[p]) = {} /\ InHand(x) = {} /\ Passed
    BY <1>1, <1>3, <2>2 DEF InHand, Reads
  <2>4. x.id \in Ids /\ file[s] \in Seq(Row) /\ gen[s] \in Nat
    BY <2>2 DEF Becomes, ProcState, Types
  <2>5. Noted \subseteq Noted'
    <3>1. proc'[p] = x /\ \A q \in Procs \ {p} : proc'[q] = proc[q]
      BY <2>2, BecomesOne
    <3>2. \A q \in Procs : InHand(proc'[q]) = InHand(proc[q])
      BY <2>3, <3>1
    <3>. QED  BY <2>2, <3>2 DEF Noted
  <2>6. Covered(file[s], gen[s], s, x.start, Noted')
    <3>1. CASE x.start = Zero
      BY <2>4, <3>1, ZeroCovered
    <3>2. CASE x.start # Zero
      <4>1. cursor[s][x.id] # Torn /\ x.start = cursor[s][x.id]
        BY <2>2, <2>4, <3>2, CursorTypes
      <4>2. Covered(file[s], gen[s], s, x.start, Noted)
        BY <2>3, <2>4, <4>1 DEF Passed
      <4>. QED  BY <2>5, <4>2, CoveredMore
    <3>. QED  BY <3>1, <3>2
  <2>. QED  BY <2>2, <2>3, <2>6, PassedStep
<1>7. ASSUME NEW p \in Procs, Scan(p) PROVE Passed'
  <2>1. PICK s \in Sessions, start \in File, model \in BOOLEAN :
             s = proc[p].session /\ start = proc[p].start /\ model = proc[p].model
    <3>1. proc[p] \in ProcState /\ proc[p].session \in Sessions
      BY <1>7 DEF Types, InOrder, Scan
    <3>. QED  BY <3>1 DEF ProcState
  <2>2. PICK found : found = ScanFrom(start, s, model).events
    OBVIOUS
  <2>3. /\ proc[p].pc = "scan" /\ UNCHANGED <<files, cursor, queued>> /\ excused \subseteq excused'
        /\ (~model /\ Has(s, "turn")) \/ (start.offset \in 1 .. Len(file[s]) /\ start.gen # gen[s])
           => "omits" \in excused'
        /\ dropped \subseteq dropped'
    BY <1>7, <2>1, ScanSteps
  <2>4. PICK x : /\ Becomes(p, x) /\ ToSet(found) \subseteq ToSet(x.events) \cup dropped'
                 /\ \/ /\ WorthWriting(start, ScanEnd(p))
                       /\ x.pc = "truncate" /\ x.session = s /\ x.end = ScanEnd(p)
                    \/ ~Reads(x)
    BY <1>7, <2>1, <2>2, ScanSteps
  <2>5. InHand(proc[p]) = {} /\ Passed
    BY <1>1, <2>3 DEF InHand, Reads
  <2>6. Noted \subseteq Noted' /\ dropped' \subseteq Noted'
    <3>1. \A q \in Procs \ {p} : proc'[q] = proc[q]
      BY <2>4, BecomesOne
    <3>. QED  BY <2>3, <2>5, <3>1 DEF Noted
  <2>7. ASSUME x.pc \in {"truncate", "write"}
        PROVE  Covered(file[x.session], gen[x.session], x.session, x.end, Noted' \cup ToSet(x.events))
    <3>1. WorthWriting(start, ScanEnd(p)) /\ x.session = s /\ x.end = ScanEnd(p)
      BY <2>4, <2>7 DEF Reads
    <3>2. Covered(file[s], gen[s], s, start, Noted)
      BY <2>1, <2>3, <2>5 DEF Passed, PassedBy
    <3>3. Covered(file[s], gen[s], s, ScanEnd(p), Noted \cup ToSet(found))
      BY <2>1, <2>2, <2>3, <3>1, <3>2, ScanCovers
    <3>4. Noted \cup ToSet(found) \subseteq Noted' \cup ToSet(x.events)
      BY <2>4, <2>6
    <3>. QED  BY <3>1, <3>3, <3>4, CoveredMore
  <2>8. x.pc # "scan"
    BY <2>4 DEF Reads
  <2>. QED  BY <2>3, <2>4, <2>5, <2>7, <2>8, PassedStep
<1>8. ASSUME NEW p \in Procs, TruncateCursor(p) \/ WriteCursor(p) \/ WriteFails(p) PROVE Passed'
  <2>1. PICK y : y = proc[p] /\ y \in ProcState /\ InOrder(y)
    BY DEF Types
  <2>2. CASE TruncateCursor(p)
    <3>1. /\ y.pc = "truncate" /\ UNCHANGED <<files, queued, dropped, excused>>
          /\ cursor' = [cursor EXCEPT ![y.session][y.id] = Torn]
      BY <2>1, <2>2, TruncateSteps
    <3>2. PICK x : /\ Becomes(p, x) /\ x.pc = "write" /\ x.events = y.events
                   /\ x.session = y.session /\ x.end = y.end
      BY <2>1, <2>2, TruncateSteps
    <3>3. InHand(y) = {} /\ InHand(x) = {} /\ Passed
      BY <1>1, <3>1, <3>2 DEF InHand, Reads
    <3>4. Noted \subseteq Noted'
      <4>1. proc'[p] = x /\ \A q \in Procs \ {p} : proc'[q] = proc[q]
        BY <3>2, BecomesOne
      <4>. QED  BY <2>1, <3>1, <3>3, <4>1 DEF Noted
    <3>5. Covered(file[y.session], gen[y.session], y.session, y.end, Noted \cup ToSet(y.events))
      BY <2>1, <3>1, <3>3 DEF Passed, PassedBy
    <3>6. Noted \cup ToSet(y.events) \subseteq Noted' \cup ToSet(x.events)
      BY <3>2, <3>4
    <3>7. Covered(file[x.session], gen[x.session], x.session, x.end, Noted' \cup ToSet(x.events))
      BY <3>2, <3>5, <3>6, CoveredMore
    <3>8. \A s \in Sessions, i \in Ids : cursor'[s][i] \in {Torn, cursor[s][i]}
      BY <3>1 DEF Types
    <3>. QED  BY <2>1, <3>1, <3>2, <3>3, <3>7, <3>8, PassedStep
  <2>3. CASE WriteCursor(p) \/ WriteFails(p)
    <3>1. /\ y.pc \in {"truncate", "write"}
          /\ UNCHANGED <<files, queued, dropped>> /\ excused \subseteq excused'
          /\ cursor' \in {cursor, [cursor EXCEPT ![y.session][y.id] = y.end]}
      BY <2>1, <2>3, WriteSteps
    <3>2. PICK x : Becomes(p, x) /\ ~Reads(x) /\ x.events = y.events
      BY <2>1, <2>3, WriteSteps
    <3>3. InHand(y) = {} /\ InHand(x) = ToSet(y.events) /\ Passed
      BY <1>1, <3>1, <3>2 DEF InHand, Reads
    <3>4. Noted \cup ToSet(y.events) \subseteq Noted'
      <4>1. proc'[p] = x /\ \A q \in Procs \ {p} : proc'[q] = proc[q]
        BY <3>2, BecomesOne
      <4>. QED  BY <2>1, <3>1, <3>3, <4>1 DEF Noted
    <3>5. Covered(file[y.session], gen[y.session], y.session, y.end, Noted \cup ToSet(y.events))
      BY <2>1, <3>1, <3>3 DEF Passed, PassedBy
    <3>6. Covered(file[y.session], gen[y.session], y.session, y.end, Noted')
      BY <3>4, <3>5, CoveredMore
    <3>7. ASSUME NEW s \in Sessions, NEW i \in Ids, cursor'[s][i] # cursor[s][i]
          PROVE  Covered(file[s], gen[s], s, cursor'[s][i], Noted')
      <4>1. cursor \in [Sessions -> [Ids -> File \cup {Torn}]]
        BY DEF Types
      <4>2. PICK c : c = y.end
        OBVIOUS
      <4>3. cursor' = [cursor EXCEPT ![y.session][y.id] = c]
        BY <3>1, <3>7, <4>2
      <4>4. cursor'[s][i] = c /\ s = y.session
        BY <3>7, <4>1, <4>3
      <4>. QED  BY <3>6, <4>2, <4>4
    <3>8. x.pc # "scan" /\ x.pc \notin {"truncate", "write"}
      BY <3>2 DEF Reads
    <3>. QED  BY <2>1, <3>1, <3>2, <3>3, <3>7, <3>8, PassedStep
  <2>. QED  BY <1>8, <2>2, <2>3
<1>9. ASSUME NEW p \in Procs, EnqueueEvent(p) \/ EnqueueFails(p) PROVE Passed'
  <2>1. PICK events : events = proc[p].events
    OBVIOUS
  <2>2. /\ proc[p].pc = "enqueue" /\ UNCHANGED <<files, cursor, excused>> /\ dropped \subseteq dropped'
    BY <1>9, EnqueueSteps
  <2>3. PICK x : /\ Becomes(p, x) /\ ~Reads(x)
                 /\ \/ /\ queued' = queued \cup {Head(events)}
                       /\ ToSet(events) = {Head(events)} \cup ToSet(x.events)
                    \/ /\ queued' = queued /\ ToSet(events) \subseteq dropped' \cup ToSet(x.events)
    BY <1>9, <2>1, EnqueueSteps
  <2>4. InHand(proc[p]) = ToSet(events) /\ InHand(x) = ToSet(x.events) /\ Passed
    BY <1>1, <2>1, <2>2, <2>3 DEF InHand, Reads
  <2>5. queued \subseteq queued' /\ InHand(proc[p]) \subseteq queued' \cup dropped' \cup InHand(x)
    BY <2>3, <2>4
  <2>6. x.pc # "scan" /\ x.pc \notin {"truncate", "write"}
    BY <2>3 DEF Reads
  <2>. QED  BY <2>2, <2>3, <2>4, <2>5, <2>6, PassedStep
<1>10. ASSUME NEW p \in Procs, ScanFails(p) \/ Crash(p) PROVE Passed'
  <2>1. PICK x : /\ UNCHANGED <<files, cursor, queued>> /\ excused \subseteq excused'
                 /\ dropped' = dropped \cup ToSet(proc[p].events)
                 /\ Becomes(p, x) /\ ~Reads(x)
    BY <1>10, EndSteps
  <2>2. InHand(proc[p]) \subseteq dropped'
    BY <2>1 DEF InHand
  <2>3. x.pc # "scan" /\ x.pc \notin {"truncate", "write"}
    BY <2>1 DEF Reads
  <2>. QED  BY <1>1, <2>1, <2>2, <2>3, PassedStep
<1>11. CASE UNCHANGED vars
  <2>1. Noted' = Noted /\ Passed
    BY <1>1, <1>11 DEF Noted, vars
  <2>. QED  BY <1>11, <2>1 DEF vars, Passed, PassedBy
<1>. QED  BY <1>4, <1>5, <1>6, <1>7, <1>8, <1>9, <1>10, <1>11, NextCases

LEMMA PassedImplies == Types /\ PassedInv => NothingPassedOver
<1>. SUFFICES ASSUME Types, Passed, NEW s \in Sessions, ReadCursor(s, "own").gen = gen[s],
                     NEW ev, ev \in Whole(s, ReadCursor(s, "own").offset)
              PROVE  ev \in queued \cup dropped \cup UNION {ToSet(proc[p].events) : p \in Procs}
  BY DEF PassedInv, NothingPassedOver
<1>1. PICK cur \in File, g \in Nat : cur = ReadCursor(s, "own") /\ g = gen[s]
  BY CursorTypes DEF Ids, Types
<1>2. file[s] \in Seq(Row) /\ cur.offset \in Nat /\ Len(file[s]) \in Nat
  <2>1. file[s] \in Seq(Row)
    BY DEF Types
  <2>. QED  BY <2>1 DEF File, Cursor
<1>3. Covered(file[s], g, s, cur, Noted)
  <2>1. CASE cur = Zero
    BY <1>2, <2>1, ZeroCovered
  <2>2. CASE cur # Zero
    <3>1. cursor[s]["own"] # Torn /\ cur = cursor[s]["own"]
      BY <1>1, <2>2, CursorTypes DEF Ids
    <3>. QED  BY <1>1, <3>1 DEF Passed, Ids
  <2>. QED  BY <2>1, <2>2
<1>4. cur.offset =< Len(file[s]) /\ \A e : Within(e, file[s], g, s, 0, cur.offset) => e \in Noted
  BY <1>1, <1>3 DEF Covered
<1>5. PICK n : n = cur.offset
  OBVIOUS
<1>6. n \in 0 .. Len(file[s])
  BY <1>2, <1>4, <1>5
<1>7. Within(ev, file[s], g, s, 0, n)
  BY <1>1, <1>2, <1>5, <1>6, WholeIsWithin
<1>8. ev \in Noted
  BY <1>4, <1>5, <1>7
<1>. QED  BY <1>8 DEF Noted, InHand

\* The event of a row behind a session's cursor is in the queue, in the hands
\* of a process, or was in those of one that failed, however scans, cursors
\* and deliveries of the tail and the hooks interleave and fail.
THEOREM NothingPassedOverTheorem == Spec => []NothingPassedOver
<1>1. Spec => [](Types /\ PassedInv)
  <2>1. Init => Types /\ PassedInv
    BY InitTypes, InitPassed
  <2>2. (Types /\ PassedInv) /\ [Next]_vars => (Types /\ PassedInv)'
    BY NextTypes, NextPassed
  <2>. QED  BY <2>1, <2>2, PTL DEF Spec
<1>2. Types /\ PassedInv => NothingPassedOver
  BY PassedImplies
<1>. QED  BY <1>1, <1>2, PTL

(***************************************************************************)
(* Pieces add up                                                           *)
(***************************************************************************)

\* What is in the queue or on its way there; of the session s, it is from the
\* rows 1 to n.
Settled == queued \cup UNION {InHand(proc[p]) : p \in Procs}
Upto(E, s, n) == \A ev \in E : ev.session = s => Within(ev, file[s], gen[s], s, 0, n)

\* One process at a time has read a session's cursor and may still write it.
OneReader ==
  \A p, q \in Procs :
    Reads(proc[p]) /\ Reads(proc[q]) /\ proc[p].session = proc[q].session => p = q

\* Nothing behind a cursor is settled, except while the cursor is torn.
SettledAt(s) ==
  (\A p \in Procs : ~(proc[p].pc = "write" /\ proc[p].session = s)) =>
    Upto(Settled, s, ReadCursor(s, "own").offset)

\* A process goes on from the cursor, and has what is behind it.
GoesOn(x) ==
  /\ IsInjective(x.events)
  /\ Reads(x) => x.id = "own" /\ Upto(Settled, x.session, x.start.offset)
  /\ x.pc \in {"scan", "truncate"} => x.start = ReadCursor(x.session, "own")
  /\ x.pc \in {"truncate", "write"} =>
       /\ x.start.offset =< x.end.offset
       /\ \A ev \in ToSet(x.events) :
            Within(ev, file[x.session], gen[x.session], x.session, x.start.offset, x.end.offset)

HandsApart ==
  \A p \in Procs :
    /\ InHand(proc[p]) \cap queued = {}
    /\ \A q \in Procs \ {p} : InHand(proc[p]) \cap InHand(proc[q]) = {}

Alone ==
  /\ \A s \in Sessions : gen[s] = 0
  /\ OneReader
  /\ \A s \in Sessions : SettledAt(s)
  /\ \A p \in Procs : GoesOn(proc[p])
  /\ HandsApart
AloneInv == excused = {} => Alone

LEMMA NoneInjective == IsInjective(<<>>)
BY DEF IsInjective

LEMMA InitAlone == Init => AloneInv
<1>. SUFFICES ASSUME Init PROVE Alone
  BY DEF AloneInv
<1>1. \A p \in Procs : proc[p] = Off
  BY DEF Init
<1>2. ~Reads(Off) /\ Off.events = <<>> /\ InHand(Off) = {} /\ Off.pc = "off"
  BY OffTypes, ToSetEmpty DEF Reads, InHand
<1>3. Settled = {}
  BY <1>1, <1>2 DEF Settled, Init
<1>4. \A p \in Procs : GoesOn(proc[p])
  BY <1>1, <1>2, NoneInjective DEF GoesOn
<1>5. \A s \in Sessions : SettledAt(s) /\ gen[s] = 0
  BY <1>3 DEF SettledAt, Upto, Init
<1>6. OneReader /\ HandsApart
  BY <1>1, <1>2 DEF OneReader, HandsApart
<1>. QED  BY <1>4, <1>5, <1>6 DEF Alone

\* A step that writes no cursor, and settles nothing that was not.
LEMMA AloneStep ==
  ASSUME Types, Alone, NEW p \in Procs, NEW x, Becomes(p, x), UNCHANGED <<files, cursor>>,
         proc[p].pc # "write", InHand(x) \subseteq InHand(proc[p]),
         queued' \subseteq queued \cup (InHand(proc[p]) \ InHand(x)),
         Reads(x) => \A q \in Procs \ {p} : ~(Reads(proc[q]) /\ proc[q].session = x.session),
         GoesOn(x)
  PROVE  Alone'
<1>1. proc'[p] = x /\ \A q \in Procs \ {p} : proc'[q] = proc[q]
  BY BecomesOne
<1>2. file' = file /\ gen' = gen /\ cursor' = cursor
  BY DEF files
<1>3. Settled' \subseteq Settled
  <2>1. ASSUME NEW q \in Procs PROVE InHand(proc'[q]) \subseteq InHand(proc[q])
    BY <1>1
  <2>. QED  BY <2>1 DEF Settled
<1>4. \A s, n : Upto(Settled, s, n) => Upto(Settled, s, n)'
  BY <1>2, <1>3 DEF Upto
<1>5. \A s, i : ReadCursor(s, i)' = ReadCursor(s, i)
  BY <1>2 DEF ReadCursor
<1>6. OneReader'
  <2>1. OneReader
    BY DEF Alone
  <2>. QED  BY <1>1, <2>1 DEF OneReader
<1>7. ASSUME NEW s \in Sessions PROVE SettledAt(s)'
  <2>1. SettledAt(s)
    BY DEF Alone
  <2>2. ASSUME \A q \in Procs : ~(proc'[q].pc = "write" /\ proc'[q].session = s)
        PROVE  \A q \in Procs : ~(proc[q].pc = "write" /\ proc[q].session = s)
    BY <1>1, <2>2
  <2>. QED  BY <1>4, <1>5, <2>1, <2>2 DEF SettledAt
<1>8. ASSUME NEW y, GoesOn(y) PROVE GoesOn(y)'
  BY <1>2, <1>4, <1>5, <1>8 DEF GoesOn
<1>9. ASSUME NEW q \in Procs PROVE GoesOn(proc[q])'
  <2>1. PICK y : y = proc'[q] /\ GoesOn(y)
    BY <1>1 DEF Alone
  <2>2. GoesOn(y)'
    BY <1>8, <2>1
  <2>. QED  BY <2>1, <2>2 DEF GoesOn
<1>10. HandsApart'
  <2>1. HandsApart
    BY DEF Alone
  <2>2. ASSUME NEW q \in Procs, NEW e \in InHand(proc'[q]) PROVE e \notin queued'
    <3>1. e \in InHand(proc[q]) /\ e \notin queued
      BY <1>1, <2>1, <2>2 DEF HandsApart
    <3>2. CASE q = p
      BY <1>1, <2>2, <3>1, <3>2
    <3>3. CASE q # p
      <4>1. e \notin InHand(proc[p])
        BY <2>1, <3>1, <3>3 DEF HandsApart
      <4>. QED  BY <3>1, <4>1
    <3>. QED  BY <3>2, <3>3
  <2>3. ASSUME NEW q \in Procs, NEW r \in Procs \ {q} PROVE InHand(proc'[q]) \cap InHand(proc'[r]) = {}
    <3>1. InHand(proc'[q]) \subseteq InHand(proc[q]) /\ InHand(proc'[r]) \subseteq InHand(proc[r])
      BY <1>1
    <3>2. InHand(proc[q]) \cap InHand(proc[r]) = {}
      BY <2>1 DEF HandsApart
    <3>. QED  BY <3>1, <3>2
  <2>. QED  BY <2>2, <2>3 DEF HandsApart
<1>11. \A s \in Sessions : gen'[s] = 0
  BY <1>2 DEF Alone
<1>. QED  BY <1>6, <1>7, <1>9, <1>10, <1>11 DEF Alone

\* Rows that Codex appends are behind all cursors.
LEMMA AloneAppends ==
  ASSUME Types, Alone, NEW t \in Sessions, AppendRow(t)
  PROVE  Alone'
<1>1. PICK row \in Row : file' = [file EXCEPT ![t] = Append(file[t], row)]
                         /\ UNCHANGED <<gen, cursor, proc, queued, dropped, excused>>
  BY AppendSteps
<1>2. Settled' = Settled /\ \A s, i : ReadCursor(s, i)' = ReadCursor(s, i)
  BY <1>1 DEF Settled, ReadCursor
<1>3. ASSUME NEW s \in Sessions, NEW m \in Nat, NEW n \in Nat, NEW ev, Within(ev, file[s], gen[s], s, m, n)
      PROVE  Within(ev, file'[s], gen'[s], s, m, n)
  <2>1. PICK rows \in Seq(Row) : rows = file[s]
    BY DEF Types
  <2>2. CASE s = t
    <3>1. file'[s] = Append(rows, row)
      BY <1>1, <2>1, <2>2 DEF Types
    <3>2. Within(ev, Append(rows, row), gen[s], s, m, n)
      BY <1>3, <2>1, WithinAppend
    <3>. QED  BY <1>1, <3>1, <3>2
  <2>3. CASE s # t
    BY <1>1, <1>3, <2>3 DEF Types
  <2>. QED  BY <2>2, <2>3
<1>4. ASSUME NEW s \in Sessions, NEW n \in Nat, Upto(Settled, s, n) PROVE Upto(Settled, s, n)'
  BY <1>2, <1>3, <1>4 DEF Upto
<1>5. ASSUME NEW s \in Sessions PROVE SettledAt(s)'
  <2>1. SettledAt(s) /\ ReadCursor(s, "own").offset \in Nat
    <3>1. ReadCursor(s, "own") \in File
      BY CursorTypes DEF Ids
    <3>. QED  BY <3>1 DEF Alone, File, Cursor
  <2>2. proc' = proc
    BY <1>1
  <2>. QED  BY <1>2, <1>4, <2>1, <2>2 DEF SettledAt
<1>6. ASSUME NEW p \in Procs PROVE GoesOn(proc[p])'
  <2>1. PICK y : y = proc[p] /\ GoesOn(y) /\ y \in ProcState /\ InOrder(y)
    BY DEF Alone, Types
  <2>2. y.start.offset \in Nat /\ y.end.offset \in Nat
    BY <2>1 DEF ProcState, File, Cursor
  <2>3. Reads(y) => y.session \in Sessions
    BY <2>1 DEF InOrder, Reads
  <2>4. Reads(y) => y.id = "own" /\ Upto(Settled, y.session, y.start.offset)'
    BY <1>4, <2>1, <2>2, <2>3 DEF GoesOn
  <2>5. y.pc \in {"scan", "truncate"} => y.start = ReadCursor(y.session, "own")'
    BY <1>2, <2>1 DEF GoesOn
  <2>6. y.pc \in {"truncate", "write"} =>
          /\ y.start.offset =< y.end.offset
          /\ \A ev \in ToSet(y.events) :
               Within(ev, file'[y.session], gen'[y.session], y.session, y.start.offset, y.end.offset)
    BY <1>3, <2>1, <2>2, <2>3 DEF GoesOn, Reads
  <2>7. IsInjective(y.events)
    BY <2>1 DEF GoesOn
  <2>8. GoesOn(y)'
    BY <2>4, <2>5, <2>6, <2>7 DEF GoesOn
  <2>9. proc'[p] = y
    BY <1>1, <2>1
  <2>. QED  BY <2>8, <2>9 DEF GoesOn
<1>7. OneReader' /\ HandsApart'
  BY <1>1 DEF Alone, OneReader, HandsApart
<1>8. \A s \in Sessions : gen'[s] = 0
  BY <1>1 DEF Alone
<1>. QED  BY <1>5, <1>6, <1>7, <1>8 DEF Alone

\* A process empties the cursor file it has read: no other has.
LEMMA AloneTruncates ==
  ASSUME Types, Alone, NEW p \in Procs, TruncateCursor(p)
  PROVE  Alone'
<1>1. PICK y \in ProcState : y = proc[p] /\ InOrder(y) /\ y.pc = "truncate" /\ GoesOn(y)
  BY DEF Types, Alone, TruncateCursor
<1>2. PICK s \in Sessions : s = y.session
  BY <1>1 DEF InOrder
<1>3. y.id = "own" /\ Reads(y)
  BY <1>1 DEF GoesOn, Reads
<1>4. UNCHANGED <<files, queued>> /\ cursor' = [cursor EXCEPT ![s]["own"] = Torn]
  <2>1. UNCHANGED <<files, queued, dropped, excused>>
        /\ cursor' = [cursor EXCEPT ![proc[p].session][proc[p].id] = Torn]
    BY TruncateSteps
  <2>. QED  BY <1>1, <1>2, <1>3, <2>1
<1>5. PICK x : /\ Becomes(p, x) /\ x.pc = "write" /\ x.events = y.events
               /\ x.session = s /\ x.id = "own" /\ x.start = y.start /\ x.end = y.end
  <2>1. PICK x : /\ Becomes(p, x) /\ x.pc = "write" /\ x.events = proc[p].events
                 /\ x.session = proc[p].session /\ x.id = proc[p].id
                 /\ x.start = proc[p].start /\ x.end = proc[p].end
    BY TruncateSteps
  <2>. QED  BY <1>1, <1>2, <1>3, <2>1
<1>6. proc'[p] = x /\ \A q \in Procs \ {p} : proc'[q] = proc[q]
  BY <1>5, BecomesOne
<1>7. file' = file /\ gen' = gen /\ queued' = queued
  BY <1>4 DEF files
<1>8. Reads(x) /\ \A q \in Procs : InHand(proc'[q]) = InHand(proc[q])
  BY <1>1, <1>3, <1>5, <1>6 DEF InHand, Reads
<1>9. Settled' = Settled
  BY <1>7, <1>8 DEF Settled
<1>10. \A t, n : Upto(Settled, t, n)' <=> Upto(Settled, t, n)
  BY <1>7, <1>9 DEF Upto
<1>11. ASSUME NEW t \in Sessions, t # s PROVE ReadCursor(t, "own")' = ReadCursor(t, "own")
  BY <1>4, <1>11 DEF ReadCursor, Types
<1>12. \A q \in Procs \ {p} : Reads(proc[q]) => proc[q].session # s
  BY <1>1, <1>2, <1>3 DEF Alone, OneReader
<1>13. OneReader'
  BY <1>5, <1>6, <1>12 DEF Alone, OneReader
<1>14. ASSUME NEW t \in Sessions PROVE SettledAt(t)'
  <2>1. CASE t = s
    BY <1>5, <1>6, <2>1 DEF SettledAt
  <2>2. CASE t # s
    <3>1. SettledAt(t)
      BY DEF Alone
    <3>2. ASSUME \A q \in Procs : ~(proc'[q].pc = "write" /\ proc'[q].session = t)
          PROVE  \A q \in Procs : ~(proc[q].pc = "write" /\ proc[q].session = t)
      BY <1>1, <1>6, <3>2
    <3>. QED  BY <1>10, <1>11, <2>2, <3>1, <3>2 DEF SettledAt
  <2>. QED  BY <2>1, <2>2
<1>15. ASSUME NEW q \in Procs PROVE GoesOn(proc[q])'
  <2>1. CASE q = p
    <3>1. GoesOn(x)'
      BY <1>1, <1>2, <1>3, <1>5, <1>7, <1>10 DEF GoesOn
    <3>. QED  BY <1>6, <2>1, <3>1 DEF GoesOn
  <2>2. CASE q # p
    <3>1. PICK z : z = proc[q] /\ z = proc'[q] /\ GoesOn(z) /\ InOrder(z)
      BY <1>6, <2>2 DEF Alone, Types
    <3>2. z.pc \in {"scan", "truncate"} => ReadCursor(z.session, "own")' = ReadCursor(z.session, "own")
      <4>1. Reads(z) => z.session \in Sessions /\ z.session # s
        BY <1>12, <2>2, <3>1 DEF InOrder, Reads
      <4>. QED  BY <1>11, <4>1 DEF Reads
    <3>3. GoesOn(z)'
      BY <1>7, <1>10, <3>1, <3>2 DEF GoesOn
    <3>. QED  BY <3>1, <3>3 DEF GoesOn
  <2>. QED  BY <2>1, <2>2
<1>16. HandsApart'
  BY <1>7, <1>8 DEF Alone, HandsApart
<1>17. \A t \in Sessions : gen'[t] = 0
  BY <1>7 DEF Alone
<1>. QED  BY <1>13, <1>14, <1>15, <1>16, <1>17 DEF Alone

\* What is before a cursor and what is behind it are apart.
LEMMA BeforeBehind ==
  ASSUME NEW ev, NEW rows, NEW g, NEW s, NEW m \in Nat, NEW n \in Nat,
         Within(ev, rows, g, s, 0, m), Within(ev, rows, g, s, m, n)
  PROVE  FALSE
<1>1. ev.at \in 0 + 1 .. m /\ ev.at \in m + 1 .. n
  BY WithinAt
<1>. QED  BY <1>1

\* It writes the cursor: its events are settled, and before the cursor.
LEMMA AloneWrites ==
  ASSUME Types, Alone, NEW p \in Procs, WriteCursor(p) \/ WriteFails(p), "repeats" \notin excused'
  PROVE  Alone'
<1>1. PICK y \in ProcState : y = proc[p] /\ InOrder(y) /\ y.pc = "write" /\ GoesOn(y)
  <2>1. proc[p].pc = "write"
    BY WriteSteps
  <2>. QED  BY <2>1 DEF Types, Alone
<1>2. PICK s \in Sessions : s = y.session
  BY <1>1 DEF InOrder
<1>3. y.id = "own" /\ Reads(y) /\ InHand(y) = {} /\ y.end \in File
  BY <1>1 DEF GoesOn, Reads, InHand, ProcState
<1>4. UNCHANGED <<files, queued>> /\ cursor' = [cursor EXCEPT ![s]["own"] = y.end]
  <2>1. /\ UNCHANGED <<files, queued, dropped>>
        /\ \/ cursor' = [cursor EXCEPT ![proc[p].session][proc[p].id] = proc[p].end]
           \/ cursor' = cursor /\ "repeats" \in excused'
    BY WriteSteps
  <2>. QED  BY <1>1, <1>2, <1>3, <2>1
<1>5. PICK x : Becomes(p, x) /\ ~Reads(x) /\ x.events = y.events
  BY <1>1, WriteSteps
<1>6. proc'[p] = x /\ \A q \in Procs \ {p} : proc'[q] = proc[q]
  BY <1>5, BecomesOne
<1>7. file' = file /\ gen' = gen /\ queued' = queued
  BY <1>4 DEF files
<1>8. InHand(x) = ToSet(y.events) /\ \A e \in ToSet(y.events) : e.session = s
  BY <1>1, <1>2, <1>5 DEF InHand, InOrder
<1>9. Settled' \subseteq Settled \cup ToSet(y.events)
  BY <1>6, <1>7, <1>8 DEF Settled
<1>10. PICK m \in Nat, n \in Nat : m = y.start.offset /\ n = y.end.offset /\ m =< n
  <2>1. y.start.offset \in Nat /\ y.end.offset \in Nat
    BY <1>1 DEF ProcState, File, Cursor
  <2>2. y.start.offset =< y.end.offset
    BY <1>1 DEF GoesOn
  <2>. QED  BY <2>1, <2>2
<1>11. PICK rows, g : rows = file[s] /\ g = gen[s]
  OBVIOUS
<1>12. \A ev \in ToSet(y.events) : Within(ev, rows, g, s, m, n)
  BY <1>1, <1>2, <1>10, <1>11 DEF GoesOn
<1>13. \A ev \in Settled : ev.session = s => Within(ev, rows, g, s, 0, m)
  BY <1>1, <1>2, <1>3, <1>10, <1>11 DEF GoesOn, Upto
<1>14. ASSUME NEW ev \in ToSet(y.events) PROVE ev \notin Settled
  BY <1>8, <1>12, <1>13, BeforeBehind
<1>15. Upto(Settled, s, n)'
  <2>1. \A ev : Within(ev, rows, g, s, 0, n) <=> Within(ev, rows, g, s, 0, m) \/ Within(ev, rows, g, s, m, n)
    BY <1>10, WithinParts
  <2>. QED  BY <1>7, <1>9, <1>11, <1>12, <1>13, <2>1 DEF Upto
<1>16. ASSUME NEW t \in Sessions, t # s, NEW k, Upto(Settled, t, k) PROVE Upto(Settled, t, k)'
  BY <1>7, <1>8, <1>9, <1>16 DEF Upto
<1>17. ASSUME NEW t \in Sessions, t # s PROVE ReadCursor(t, "own")' = ReadCursor(t, "own")
  BY <1>4, <1>17 DEF ReadCursor, Types
<1>18. ReadCursor(s, "own")' = y.end
  <2>1. cursor'[s]["own"] = y.end
    BY <1>4 DEF Types, Ids
  <2>2. y.end # Torn
    BY <1>3, ZeroIsFile
  <2>. QED  BY <2>1, <2>2 DEF ReadCursor
<1>19. \A q \in Procs \ {p} : Reads(proc[q]) => proc[q].session # s
  BY <1>1, <1>2, <1>3 DEF Alone, OneReader
<1>20. OneReader'
  BY <1>5, <1>6 DEF Alone, OneReader
<1>21. ASSUME NEW t \in Sessions PROVE SettledAt(t)'
  <2>1. CASE t = s
    BY <1>10, <1>15, <1>18, <2>1 DEF SettledAt
  <2>2. CASE t # s
    <3>1. SettledAt(t)
      BY DEF Alone
    <3>2. ASSUME \A q \in Procs : ~(proc'[q].pc = "write" /\ proc'[q].session = t)
          PROVE  \A q \in Procs : ~(proc[q].pc = "write" /\ proc[q].session = t)
      BY <1>1, <1>2, <1>6, <2>2, <3>2
    <3>. QED  BY <1>16, <1>17, <2>2, <3>1, <3>2 DEF SettledAt
  <2>. QED  BY <2>1, <2>2
<1>22. ASSUME NEW q \in Procs PROVE GoesOn(proc[q])'
  <2>1. CASE q = p
    <3>1. IsInjective(x.events) /\ ~Reads(x)
      BY <1>1, <1>5 DEF GoesOn
    <3>2. GoesOn(x)'
      BY <3>1 DEF GoesOn, Reads
    <3>. QED  BY <1>6, <2>1, <3>2 DEF GoesOn
  <2>2. CASE q # p
    <3>1. PICK z : z = proc[q] /\ z = proc'[q] /\ GoesOn(z) /\ InOrder(z)
      BY <1>6, <2>2 DEF Alone, Types
    <3>2. Reads(z) => z.session \in Sessions /\ z.session # s
      BY <1>19, <2>2, <3>1 DEF InOrder, Reads
    <3>3. z.pc \in {"scan", "truncate"} => ReadCursor(z.session, "own")' = ReadCursor(z.session, "own")
      BY <1>17, <3>2 DEF Reads
    <3>4. Reads(z) => Upto(Settled, z.session, z.start.offset)'
      BY <1>16, <3>1, <3>2 DEF GoesOn
    <3>5. GoesOn(z)'
      BY <1>7, <3>1, <3>3, <3>4 DEF GoesOn
    <3>. QED  BY <3>1, <3>5 DEF GoesOn
  <2>. QED  BY <2>1, <2>2
<1>23. HandsApart'
  <2>1. HandsApart
    BY DEF Alone
  <2>2. InHand(x) \cap queued = {} /\ \A q \in Procs : InHand(x) \cap InHand(proc[q]) = {}
    BY <1>8, <1>14 DEF Settled
  <2>. QED  BY <1>6, <1>7, <2>1, <2>2 DEF HandsApart
<1>24. \A t \in Sessions : gen'[t] = 0
  BY <1>7 DEF Alone
<1>. QED  BY <1>20, <1>21, <1>22, <1>23, <1>24 DEF Alone

\* It reads a cursor that no other process may still write.
LEMMA AloneOpens ==
  ASSUME Types, Alone, NEW p \in Procs, NEW s \in Sessions, NEW named \in {"", "own", "other"},
         proc[p].pc \in {"off", "open"}, Open(p, s, named), "repeats" \notin excused'
  PROVE  Alone'
<1>1. UNCHANGED <<files, cursor, queued, dropped>> /\ proc[p].events = <<>>
  BY OpenSteps
<1>2. PICK x : Becomes(p, x) /\ Opens(p, s, x)
  BY OpenSteps
<1>3. /\ x.pc = "scan" /\ x.events = <<>> /\ x.session = s /\ x.start = ReadCursor(s, "own")
      /\ x.id = "own" /\ \A q \in Procs \ {p} : ~(Reads(proc[q]) /\ proc[q].session = s)
  BY <1>2 DEF Opens
<1>4. InHand(x) = {} /\ Reads(x) /\ ~Reads(proc[p])
  BY <1>3 DEF InHand, Reads
<1>5. Upto(Settled, s, ReadCursor(s, "own").offset)
  <2>1. \A q \in Procs : ~(proc[q].pc = "write" /\ proc[q].session = s)
    BY <1>3, <1>4 DEF Reads
  <2>. QED  BY <2>1 DEF Alone, SettledAt
<1>6. GoesOn(x)
  BY <1>3, <1>5, NoneInjective DEF GoesOn
<1>7. proc[p].pc # "write"
  OBVIOUS
<1>. QED  BY <1>1, <1>2, <1>3, <1>4, <1>6, <1>7, AloneStep

\* A scan goes on from its cursor: it finds what is behind it, or nothing.
LEMMA AloneScans ==
  ASSUME Types, Passed, Alone, NEW p \in Procs, Scan(p), "omits" \notin excused'
  PROVE  Alone'
<1>1. PICK y \in ProcState : y = proc[p] /\ InOrder(y) /\ y.pc = "scan" /\ GoesOn(y)
  BY DEF Types, Alone, Scan
<1>2. PICK s \in Sessions, start \in File, model \in BOOLEAN :
           s = y.session /\ start = y.start /\ model = y.model
  BY <1>1 DEF InOrder, ProcState
<1>3. PICK found : found = ScanFrom(start, s, model).events
  OBVIOUS
<1>4. /\ UNCHANGED <<files, cursor, queued>>
      /\ ~((~model /\ Has(s, "turn")) \/ (start.offset \in 1 .. Len(file[s]) /\ start.gen # gen[s]))
  BY <1>1, <1>2, ScanSteps
<1>5. PICK x : /\ Becomes(p, x)
               /\ ToSet(x.events) \subseteq ToSet(found)
               /\ IsInjective(found) => IsInjective(x.events)
               /\ \/ /\ WorthWriting(start, ScanEnd(p))
                     /\ x.pc = "truncate" /\ x.session = s /\ x.id = y.id
                     /\ x.start = start /\ x.end = ScanEnd(p)
                  \/ /\ ~WorthWriting(start, ScanEnd(p)) /\ ~Reads(x)
  BY <1>1, <1>2, <1>3, ScanSteps
<1>6. Covered(file[s], gen[s], s, start, Noted)
  BY <1>1, <1>2 DEF Passed, PassedBy
<1>7. /\ Traced(found, s, gen[s], From(start, s).offset, Len(file[s]))
      /\ ScanEnd(p).offset = Len(file[s])
  <2>1. gen[s] \in Nat /\ file[s] \in Seq(Row)
    BY DEF Types
  <2>2. PICK st : st = ScanFrom(start, s, model)
    OBVIOUS
  <2>3. st.at = Len(file[s]) /\ Traced(st.events, s, gen[s], From(start, s).offset, Len(file[s]))
    BY <2>1, <2>2, ScanFinds
  <2>. QED  BY <1>1, <1>2, <1>3, <2>2, <2>3 DEF ScanEnd
<1>8. IsInjective(x.events)
  BY <1>5, <1>7 DEF Traced
<1>9. InHand(y) = {} /\ \A q \in Procs \ {p} : ~(Reads(proc[q]) /\ proc[q].session = s)
  BY <1>1, <1>2 DEF Reads, InHand, Alone, OneReader
<1>10. CASE WorthWriting(start, ScanEnd(p))
  <2>1. /\ x.pc = "truncate" /\ x.session = s /\ x.id = "own" /\ x.start = start /\ x.end = ScanEnd(p)
    BY <1>1, <1>5, <1>10 DEF GoesOn, Reads
  <2>2. /\ start.offset =< Len(file[s])
        /\ \A ev \in ToSet(found) : Within(ev, file[s], gen[s], s, start.offset, Len(file[s]))
    BY <1>1, <1>2, <1>3, <1>4, <1>6, <1>10, ScanCovers
  <2>3. GoesOn(x)
    <3>1. Upto(Settled, s, start.offset) /\ start = ReadCursor(s, "own")
      BY <1>1, <1>2 DEF GoesOn, Reads
    <3>2. \A ev \in ToSet(x.events) : Within(ev, file[s], gen[s], s, start.offset, x.end.offset)
      BY <1>5, <1>7, <2>1, <2>2
    <3>3. start.offset =< x.end.offset
      BY <1>7, <2>1, <2>2
    <3>. QED  BY <1>8, <2>1, <3>1, <3>2, <3>3 DEF GoesOn
  <2>4. InHand(x) = {}
    BY <2>1 DEF InHand, Reads
  <2>. QED  BY <1>1, <1>4, <1>5, <1>9, <2>1, <2>3, <2>4, AloneStep
<1>11. CASE ~WorthWriting(start, ScanEnd(p))
  <2>1. ~Reads(x)
    BY <1>5, <1>11
  <2>2. PICK m \in Nat, n \in Nat : m = start.offset /\ n = Len(file[s])
    <3>1. file[s] \in Seq(Row)
      BY DEF Types
    <3>. QED  BY <3>1 DEF File, Cursor
  <2>3. m =< n
    <3>1. start.gen = gen[s]
      <4>1. gen[s] = 0 /\ start.gen \in Nat /\ start.gen =< gen[s]
        BY <1>6 DEF Alone, File, Cursor, Covered
      <4>. QED  BY <4>1
    <3>. QED  BY <1>6, <2>2, <3>1 DEF Covered
  <2>4. ~(n > m)
    BY <1>7, <1>11, <2>2 DEF WorthWriting
  <2>5. From(start, s).offset = m /\ m = n
    BY <2>2, <2>3, <2>4 DEF From
  <2>6. Traced(found, s, gen[s], n, n)
    BY <1>7, <2>2, <2>5
  <2>7. \A i \in n + 1 .. n : FALSE
    BY <2>2
  <2>8. ToSet(found) = {}
    BY <2>6, <2>7 DEF Traced
  <2>9. InHand(x) = {}
    BY <1>5, <2>8 DEF InHand
  <2>10. GoesOn(x)
    BY <1>8, <2>1 DEF GoesOn, Reads
  <2>. QED  BY <1>1, <1>4, <1>5, <1>9, <2>1, <2>9, <2>10, AloneStep
<1>. QED  BY <1>10, <1>11

LEMMA NextAlone == Types /\ PassedInv /\ AloneInv /\ [Next]_vars => AloneInv'
<1>. SUFFICES ASSUME Types, PassedInv, AloneInv, [Next]_vars, excused' = {} PROVE Alone'
  BY DEF AloneInv
<1>1. ASSUME excused \subseteq excused' PROVE Alone /\ Passed
  BY <1>1 DEF PassedInv, AloneInv
<1>2. "repeats" \notin excused' /\ "omits" \notin excused'
  OBVIOUS
<1>3. ASSUME NEW x, x.events = <<>> PROVE InHand(x) = {} /\ IsInjective(x.events)
  BY <1>3, ToSetEmpty, NoneInjective DEF InHand
<1>4. CASE \E s \in Sessions : AppendRow(s) \/ Rotate(s)
  <2>1. PICK t \in Sessions : AppendRow(t)
    BY <1>2, <1>4, RotateSteps
  <2>2. excused' = excused
    BY <2>1, AppendSteps
  <2>. QED  BY <1>1, <2>1, <2>2, AloneAppends
<1>5. CASE Poll
  <2>1. PICK x : /\ Tailer \in Procs /\ UNCHANGED <<files, cursor, queued, dropped, excused>>
                 /\ Becomes(Tailer, x) /\ x.pc = "open" /\ x.events = <<>>
    BY <1>5, PollSteps
  <2>2. InHand(x) = {} /\ GoesOn(x) /\ ~Reads(x)
    BY <1>3, <2>1 DEF GoesOn, Reads
  <2>3. proc[Tailer].pc # "write"
    BY <1>5 DEF Poll
  <2>. QED  BY <1>1, <2>1, <2>2, <2>3, AloneStep
<1>6. CASE \E p \in Procs, s \in Sessions, named \in {"", "own", "other"} :
             proc[p].pc \in {"off", "open"} /\ Open(p, s, named)
  <2>1. PICK p \in Procs, s \in Sessions, named \in {"", "own", "other"} :
             proc[p].pc \in {"off", "open"} /\ Open(p, s, named)
    BY <1>6
  <2>2. excused \subseteq excused'
    BY <2>1, OpenSteps
  <2>. QED  BY <1>1, <1>2, <2>1, <2>2, AloneOpens
<1>7. ASSUME NEW p \in Procs, Scan(p) PROVE Alone'
  <2>1. excused \subseteq excused'
    BY <1>7, ScanSteps
  <2>. QED  BY <1>1, <1>2, <1>7, <2>1, AloneScans
<1>8. ASSUME NEW p \in Procs, TruncateCursor(p) PROVE Alone'
  <2>1. excused' = excused
    BY <1>8, TruncateSteps
  <2>. QED  BY <1>1, <1>8, <2>1, AloneTruncates
<1>9. ASSUME NEW p \in Procs, WriteCursor(p) \/ WriteFails(p) PROVE Alone'
  <2>1. excused \subseteq excused'
    BY <1>9, WriteSteps
  <2>. QED  BY <1>1, <1>2, <1>9, <2>1, AloneWrites
<1>10. ASSUME NEW p \in Procs, EnqueueEvent(p) \/ EnqueueFails(p) PROVE Alone'
  <2>1. PICK events : events = proc[p].events
    OBVIOUS
  <2>2. proc[p].pc = "enqueue" /\ UNCHANGED <<files, cursor, excused>>
    BY <1>10, EnqueueSteps
  <2>3. Alone
    BY <1>1, <2>2
  <2>4. IsInjective(events)
    BY <2>1, <2>3 DEF Alone, GoesOn
  <2>5. PICK x : /\ Becomes(p, x) /\ ~Reads(x)
                 /\ ToSet(x.events) \subseteq ToSet(events)
                 /\ IsInjective(events) => IsInjective(x.events)
                 /\ \/ /\ queued' = queued \cup {Head(events)}
                       /\ ToSet(events) = {Head(events)} \cup ToSet(x.events)
                       /\ IsInjective(events) => Head(events) \notin ToSet(x.events)
                    \/ queued' = queued
    BY <1>10, <2>1, EnqueueSteps
  <2>6. InHand(proc[p]) = ToSet(events) /\ InHand(x) = ToSet(x.events)
    BY <2>1, <2>2, <2>5 DEF InHand, Reads
  <2>7. queued' \subseteq queued \cup (InHand(proc[p]) \ InHand(x)) /\ InHand(x) \subseteq InHand(proc[p])
    BY <2>4, <2>5, <2>6
  <2>8. GoesOn(x)
    BY <2>4, <2>5 DEF GoesOn, Reads
  <2>. QED  BY <2>2, <2>3, <2>5, <2>7, <2>8, AloneStep
<1>11. ASSUME NEW p \in Procs, ScanFails(p) \/ Crash(p) PROVE Alone'
  <2>1. /\ UNCHANGED <<files, cursor, queued>> /\ excused \subseteq excused'
        /\ proc[p].pc = "write" => "repeats" \in excused'
    BY <1>11, EndSteps
  <2>2. PICK x : Becomes(p, x) /\ ~Reads(x) /\ x.events = <<>>
    BY <1>11, EndSteps
  <2>3. InHand(x) = {} /\ GoesOn(x)
    BY <1>3, <2>2 DEF GoesOn, Reads
  <2>. QED  BY <1>1, <1>2, <2>1, <2>2, <2>3, AloneStep
<1>12. CASE UNCHANGED vars
  <2>1. Alone
    BY <1>1, <1>12 DEF vars
  <2>2. Settled' = Settled
    BY <1>12 DEF Settled, vars
  <2>. QED  BY <1>12, <2>1, <2>2 DEF vars, Alone, OneReader, SettledAt, Upto, ReadCursor, GoesOn, HandsApart
<1>. QED  BY <1>4, <1>5, <1>6, <1>7, <1>8, <1>9, <1>10, <1>11, <1>12, NextCases

\* The rows before a session's cursor, when none of its processes failed.
LEMMA OwnCursor ==
  ASSUME Types, Passed, Alone, NEW s \in Sessions
  PROVE  \E n \in 0 .. Len(file[s]) :
           /\ n = ReadCursor(s, "own").offset
           /\ \A ev : Within(ev, file[s], gen[s], s, 0, n) => ev \in Noted
<1>1. PICK cur \in File : cur = ReadCursor(s, "own")
  BY CursorTypes DEF Ids
<1>2. file[s] \in Seq(Row) /\ gen[s] \in Nat /\ gen[s] = 0 /\ cur.offset \in Nat /\ cur.gen \in Nat
  <2>1. file[s] \in Seq(Row) /\ gen[s] \in Nat /\ gen[s] = 0
    BY DEF Types, Alone
  <2>. QED  BY <2>1 DEF File, Cursor
<1>3. Covered(file[s], gen[s], s, cur, Noted)
  <2>1. CASE cur = Zero
    BY <1>2, <2>1, ZeroCovered
  <2>2. CASE cur # Zero
    <3>1. cursor[s]["own"] # Torn /\ cur = cursor[s]["own"]
      BY <1>1, <2>2, CursorTypes DEF Ids
    <3>. QED  BY <3>1 DEF Passed, Ids
  <2>. QED  BY <2>1, <2>2
<1>4. cur.gen = gen[s]
  BY <1>2, <1>3 DEF Covered
<1>5. cur.offset =< Len(file[s]) /\ \A ev : Within(ev, file[s], gen[s], s, 0, cur.offset) => ev \in Noted
  BY <1>3, <1>4 DEF Covered
<1>6. cur.offset \in 0 .. Len(file[s])
  BY <1>2, <1>5
<1>. QED  BY <1>1, <1>5, <1>6

LEMMA AloneImplies == Types /\ PassedInv /\ AloneInv => PiecesAddUp
<1>. SUFFICES ASSUME Types, Passed, Alone
              PROVE  /\ \A p \in Procs : IsInjective(proc[p].events) /\ ToSet(proc[p].events) \cap queued = {}
                     /\ (dropped = {} /\ \A p \in Procs : ~Running(p)) =>
                          queued = UNION {Whole(s, ReadCursor(s, "own").offset) : s \in Sessions}
  BY DEF PassedInv, AloneInv, PiecesAddUp
<1>1. ASSUME NEW p \in Procs PROVE IsInjective(proc[p].events) /\ ToSet(proc[p].events) \cap queued = {}
  <2>1. PICK y \in ProcState : y = proc[p] /\ InOrder(y) /\ GoesOn(y)
    BY DEF Types, Alone
  <2>2. CASE ~Reads(y)
    BY <2>1, <2>2 DEF InHand, GoesOn, Alone, HandsApart
  <2>3. CASE y.pc = "scan"
    BY <2>1, <2>3, ToSetEmpty DEF InOrder, GoesOn
  <2>4. CASE y.pc \in {"truncate", "write"}
    <3>1. y.start.offset \in Nat /\ y.end.offset \in Nat
      BY <2>1 DEF ProcState, File, Cursor
    <3>2. ASSUME NEW ev \in ToSet(y.events), ev \in queued PROVE FALSE
      <4>1. ev.session = y.session /\ ev \in Settled
        BY <2>1, <3>2 DEF InOrder, Settled
      <4>2. Within(ev, file[y.session], gen[y.session], y.session, 0, y.start.offset)
        BY <2>1, <2>4, <4>1 DEF GoesOn, Reads, Upto
      <4>3. Within(ev, file[y.session], gen[y.session], y.session, y.start.offset, y.end.offset)
        BY <2>1, <2>4 DEF GoesOn
      <4>. QED  BY <3>1, <4>2, <4>3, BeforeBehind
    <3>. QED  BY <2>1, <3>2 DEF GoesOn
  <2>. QED  BY <2>1, <2>2, <2>3, <2>4 DEF Reads
<1>2. ASSUME dropped = {}, \A p \in Procs : ~Running(p)
      PROVE  queued = UNION {Whole(s, ReadCursor(s, "own").offset) : s \in Sessions}
  <2>1. \A p \in Procs : proc[p].pc \in {"off", "done"} /\ InHand(proc[p]) = {}
    BY <1>2, ToSetEmpty DEF Running, Types, InOrder, InHand
  <2>2. Noted = queued /\ Settled = queued
    BY <1>2, <2>1 DEF Noted, Settled
  <2>3. ASSUME NEW s \in Sessions
        PROVE  \A ev : ev \in Whole(s, ReadCursor(s, "own").offset) <=> ev \in queued /\ ev.session = s
    <3>1. PICK n \in 0 .. Len(file[s]) :
               /\ n = ReadCursor(s, "own").offset
               /\ \A ev : Within(ev, file[s], gen[s], s, 0, n) => ev \in queued
      BY <2>2, OwnCursor
    <3>2. file[s] \in Seq(Row) /\ n \in Nat
      BY DEF Types
    <3>3. \A ev : ev \in Whole(s, n) <=> Within(ev, file[s], gen[s], s, 0, n)
      BY <3>2, WholeIsWithin
    <3>4. Upto(queued, s, n)
      BY <2>1, <2>2, <3>1 DEF Alone, SettledAt
    <3>5. \A ev : Within(ev, file[s], gen[s], s, 0, n) => ev.session = s
      BY <3>2, WithinAt
    <3>. QED  BY <3>1, <3>3, <3>4, <3>5 DEF Upto
  <2>4. \A ev \in queued : ev.session \in Sessions
    BY DEF Types, Event
  <2>5. PICK Look : Look = [s \in Sessions |-> Whole(s, ReadCursor(s, "own").offset)]
    OBVIOUS
  <2>6. queued = UNION {Look[s] : s \in Sessions}
    BY <2>3, <2>4, <2>5
  <2>. QED  BY <2>5, <2>6
<1>. QED  BY <1>1, <1>2

\* However the scans of the tail and the hooks cut the sessions, the events in
\* the queue are those of one look at the rows behind the cursors, each once.
THEOREM PiecesAddUpTheorem == Spec => []PiecesAddUp
<1>1. Spec => [](Types /\ PassedInv /\ AloneInv)
  <2>1. Init => Types /\ PassedInv /\ AloneInv
    BY InitTypes, InitPassed, InitAlone
  <2>2. (Types /\ PassedInv /\ AloneInv) /\ [Next]_vars => (Types /\ PassedInv /\ AloneInv)'
    BY NextTypes, NextPassed, NextAlone
  <2>. QED  BY <2>1, <2>2, PTL DEF Spec
<1>2. Types /\ PassedInv /\ AloneInv => PiecesAddUp
  BY AloneImplies
<1>. QED  BY <1>1, <1>2, PTL
=============================================================================
