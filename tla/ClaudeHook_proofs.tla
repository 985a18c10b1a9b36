------------------------- MODULE ClaudeHook_proofs -------------------------
(***************************************************************************)
(* Proofs about ClaudeHook: type correctness, that no turn is passed over, *)
(* that a message is billed once, and that the tokens billed add up.       *)
(*                                                                         *)
(* What a scan finds is proved by induction over the lines it reads: the   *)
(* least line at which a claim about the scan fails (WFMin, from the       *)
(* library's theorems on well-founded orders) is not the first, and        *)
(* ScanLine carries the claim over to it.  The sums over sets are tables   *)
(* with an entry for every subset, built by induction on the cardinality.  *)
(***************************************************************************)
EXTENDS ClaudeHook, FiniteSetTheorems, SequenceTheorems, WellFoundedInduction, TLAPS

(***************************************************************************)
(* Induction                                                               *)
(***************************************************************************)

\* A set of numbers that is not empty has a least member.
LEMMA Least ==
  ASSUME NEW S \in SUBSET Nat, S # {}
  PROVE  \E x \in S : \A y \in S : x =< y
<1>1. IsWellFoundedOn({ss \in Nat \X Nat : ss[1] < ss[2]}, Nat)
  BY NatLessThanWellFounded DEF OpToRel
<1>2. PICK x \in S : \A y \in S : ~(<<y, x>> \in {ss \in Nat \X Nat : ss[1] < ss[2]})
  <2>1. S \subseteq Nat
    OBVIOUS
  <2>. QED  BY <1>1, <2>1, WFMin, Zenon
<1>3. ASSUME NEW y \in S PROVE x =< y
  <2>1. x \in Nat /\ y \in Nat /\ <<y, x>> \in Nat \X Nat
    OBVIOUS
  <2>2. ~(<<y, x>>[1] < <<y, x>>[2])
    BY <1>2, <2>1, Zenon
  <2>. QED  BY <2>1, <2>2
<1>. QED  BY <1>3

\* A set that has a number, and with a number its successor, has all of them.
LEMMA Induct ==
  ASSUME NEW a \in Nat, NEW n \in Nat, NEW S,
         a \in S, \A k \in a .. n : k # n /\ k \in S => k + 1 \in S
  PROVE  \A k \in a .. n : k \in S
<1>. DEFINE T == {k \in a .. n : k \notin S}
<1>. SUFFICES ASSUME T # {} PROVE FALSE
  OBVIOUS
<1>1. PICK x \in T : \A y \in T : x =< y
  <2>. HIDE DEF T
  <2>1. T \in SUBSET Nat
    BY DEF T
  <2>. QED  BY <2>1, Least
<1>2. x # a /\ x - 1 \in a .. n /\ x - 1 # n /\ x = (x - 1) + 1
  BY <1>1
<1>3. x - 1 \notin T
  BY <1>1
<1>4. x - 1 \in S
  BY <1>2, <1>3
<1>. QED  BY <1>1, <1>2, <1>4

(***************************************************************************)
(* The scan                                                                *)
(***************************************************************************)

\* What a scan has found of a turn, and what it knows between two lines.
Turn == [gen : Nat, at : Nat, key : Nat, delta : Nat]
SeenKeys == {s \in Seq(Nat \ {0}) : Len(s) =< MaxSeen}
ScanState == [turns : Seq(Turn), prior : Nat, seen : SeenKeys, known : SUBSET Nat, at : Nat]

\* What a cursor file holds: keys of messages, so never 0.
File == [offset : Nat, prior : Nat, seen : SeenKeys, gen : Nat]

\* The scans up to each line, one per line.
Scans(from, s) ==
  /\ s[from.offset] = Unread(from)
  /\ \A n \in from.offset .. Len(transcript) :
       n # Len(transcript) => s[n + 1] = ScanLine(s[n], transcript[n + 1])

LEMMA SeenTypes ==
  ASSUME NEW seen \in SeenKeys, NEW key \in Nat
  PROVE  Remember(seen, key) \in SeenKeys
<1>. USE ClaudeConstantsOK
<1>1. CASE key = 0 \/ key \in ToSet(seen)
  BY <1>1 DEF Remember
<1>2. CASE ~(key = 0 \/ key \in ToSet(seen))
  <2>. DEFINE all == Append(seen, key)
  <2>1. all \in Seq(Nat \ {0}) /\ Len(all) = Len(seen) + 1
    BY <1>2 DEF SeenKeys
  <2>2. Tail(all) \in Seq(Nat \ {0}) /\ Len(Tail(all)) = Len(seen)
    BY <2>1 DEF SeenKeys
  <2>3. Remember(seen, key) = IF Len(all) > MaxSeen THEN Tail(all) ELSE all
    BY <1>2 DEF Remember
  <2>. HIDE DEF all
  <2>. QED  BY <2>1, <2>2, <2>3 DEF SeenKeys
<1>. QED  BY <1>1, <1>2

LEMMA ZeroIsFile == Zero \in File /\ Zero.seen = <<>> /\ Zero.offset = 0
<1>1. <<>> \in SeenKeys
  BY ClaudeConstantsOK DEF SeenKeys
<1>. QED  BY <1>1 DEF Zero, File

LEMMA UnreadTypes ==
  ASSUME NEW from \in File
  PROVE  Unread(from) \in ScanState
BY DEF Unread, ScanState, File, SeenKeys, ToSet

LEMMA LineTypes ==
  ASSUME NEW st \in ScanState, NEW line \in Line, gen \in Nat
  PROVE  ScanLine(st, line) \in ScanState /\ ScanLine(st, line).at = st.at + 1
<1>. DEFINE on == [st EXCEPT !.at = @ + 1]
            new == [gen |-> gen, at |-> on.at, key |-> line.key,
                    delta |-> Delta(line.effIn, st.prior)]
<1>1. on \in ScanState /\ on.at = st.at + 1
  BY DEF ScanState
<1>2. line.key \in Nat /\ line.effIn \in Nat /\ st.prior \in Nat /\ st.seen \in SeenKeys
      /\ st.known \in SUBSET Nat /\ st.turns \in Seq(Turn)
  BY DEF Line, ScanState
<1>3. Delta(line.effIn, st.prior) \in Nat
  BY <1>2 DEF Delta
<1>4. new \in Turn
  BY <1>1, <1>2, <1>3 DEF Turn, ScanState
<1>5. Remember(st.seen, line.key) \in SeenKeys
  BY <1>2, SeenTypes
<1>6. Append(st.turns, new) \in Seq(Turn)
  BY <1>2, <1>4
<1>7. st.known \cup {line.key} \in SUBSET Nat
  BY <1>2
<1>8. CASE ~line.turn \/ (line.key # 0 /\ line.key \in st.known)
  BY <1>1, <1>8 DEF ScanLine
<1>9. CASE ~(~line.turn \/ (line.key # 0 /\ line.key \in st.known))
  <2>. HIDE DEF new
  <2>1. ScanLine(st, line) =
          [turns |-> Append(st.turns, new), prior |-> line.effIn,
           seen |-> Remember(st.seen, line.key), known |-> st.known \cup {line.key},
           at |-> st.at + 1]
    BY <1>9, <1>1 DEF ScanLine, ScanState, new
  <2>. QED  BY <1>1, <1>2, <1>5, <1>6, <1>7, <2>1 DEF ScanState
<1>. QED  BY <1>8, <1>9

\* The recursion of ScanFrom is well founded: there is a scan up to every line.
LEMMA ScansExist ==
  ASSUME NEW start \in File, transcript \in Seq(Line)
  PROVE  \E s : Scans(From(start), s) /\ ScanFrom(start) = s[Len(transcript)]
<1>. DEFINE from == From(start)
            a == from.offset
            n == Len(transcript)
            Whole(s) == s = [k \in a .. n |-> IF k = a THEN Unread(from)
                                              ELSE ScanLine(s[k - 1], transcript[k])]
            Part(s, m) == s = [k \in a .. m |-> IF k = a THEN Unread(from)
                                                ELSE ScanLine(s[k - 1], transcript[k])]
            Done_ == {m \in a .. n : \E s : Part(s, m)}
<1>1. a \in Nat /\ n \in Nat /\ a =< n
  BY ZeroIsFile DEF From, File
<1>2. a \in Done_
  <2>. DEFINE s == [k \in a .. a |-> Unread(from)]
  <2>1. Part(s, a)
    BY <1>1
  <2>2. a \in a .. n
    BY <1>1
  <2>. HIDE DEF s, a, n
  <2>. QED  BY <2>1, <2>2
<1>3. ASSUME NEW m \in a .. n, m # n, m \in Done_ PROVE m + 1 \in Done_
  <2>1. PICK s : Part(s, m)
    BY <1>3
  <2>. DEFINE t == [k \in a .. (m + 1) |-> IF k = m + 1 THEN ScanLine(s[m], transcript[m + 1])
                                           ELSE s[k]]
  <2>2. ASSUME NEW k \in a .. (m + 1)
        PROVE  t[k] = IF k = a THEN Unread(from) ELSE ScanLine(t[k - 1], transcript[k])
    <3>1. CASE k = m + 1
      <4>1. t[m] = s[m] /\ k - 1 = m /\ k # a
        BY <1>1, <3>1
      <4>. QED  BY <4>1, <3>1
    <3>2. CASE k # m + 1
      <4>1. k \in a .. m /\ t[k] = s[k]
        BY <1>1, <3>2
      <4>2. s[k] = IF k = a THEN Unread(from) ELSE ScanLine(s[k - 1], transcript[k])
        BY <4>1, <2>1
      <4>3. k # a => t[k - 1] = s[k - 1]
        BY <1>1, <4>1
      <4>. QED  BY <4>1, <4>2, <4>3
    <3>. QED  BY <3>1, <3>2
  <2>3. Part(t, m + 1)
    BY <2>2
  <2>4. m + 1 \in a .. n
    BY <1>1, <1>3
  <2>. QED  BY <2>3, <2>4
<1>4. n \in Done_
  <2>. HIDE DEF Done_
  <2>1. \A m \in a .. n : m # n /\ m \in Done_ => m + 1 \in Done_
    BY <1>3
  <2>2. \A k \in a .. n : k \in Done_
    BY <1>1, <1>2, <2>1, Induct
  <2>. QED  BY <1>1, <2>2
<1>5. \E s : Whole(s)
  BY <1>4
<1>6. ScanFrom(start) = (CHOOSE s : Whole(s))[n]
  BY DEF ScanFrom
<1>7. Whole(CHOOSE s : Whole(s))
  BY <1>5
<1>. HIDE DEF a, n, from
<1>8. PICK s : Whole(s) /\ ScanFrom(start) = s[n]
  BY <1>6, <1>7
<1>9. s[a] = Unread(from)
  BY <1>8, <1>1
<1>10. ASSUME NEW k \in a .. n, k # n PROVE s[k + 1] = ScanLine(s[k], transcript[k + 1])
  <2>1. k + 1 \in a .. n /\ k + 1 # a /\ (k + 1) - 1 = k
    BY <1>1, <1>10
  <2>. QED  BY <1>8, <2>1
<1>. QED  BY <1>8, <1>9, <1>10 DEF Scans, a, n, from

\* A line that adds no turn to a scan.
Skips(st, line) == ~line.turn \/ (line.key # 0 /\ line.key \in st.known)

LEMMA LineSkipped ==
  ASSUME NEW st \in ScanState, NEW line \in Line, Skips(st, line)
  PROVE  LET next == ScanLine(st, line)
         IN  /\ next.turns = st.turns /\ next.seen = st.seen
             /\ next.known = st.known /\ next.at = st.at + 1 /\ next.prior = st.prior
BY DEF ScanLine, Skips, ScanState

LEMMA LineTaken ==
  ASSUME NEW st \in ScanState, NEW line \in Line, gen \in Nat, ~Skips(st, line)
  PROVE  LET next == ScanLine(st, line)
         IN  \E t \in Turn : 
               /\ t.gen = gen /\ t.at = st.at + 1 /\ t.key = line.key
               /\ t.delta = Delta(line.effIn, st.prior) /\ next.prior = line.effIn
               /\ next.turns = Append(st.turns, t) /\ next.seen = Remember(st.seen, line.key)
               /\ next.known = st.known \cup {line.key} /\ next.at = st.at + 1
<1>. DEFINE t == [gen |-> gen, at |-> st.at + 1, key |-> line.key,
                  delta |-> Delta(line.effIn, st.prior)]
<1>1. t \in Turn /\ t.gen = gen /\ t.at = st.at + 1 /\ t.key = line.key
  BY DEF Turn, Line, ScanState, Delta
<1>2. [st EXCEPT !.at = @ + 1].at = st.at + 1
  BY DEF ScanState
<1>4. t.delta = Delta(line.effIn, st.prior)
  OBVIOUS
<1>3. LET next == ScanLine(st, line)
      IN  /\ next.turns = Append(st.turns, t) /\ next.seen = Remember(st.seen, line.key)
          /\ next.known = st.known \cup {line.key} /\ next.at = st.at + 1
          /\ next.prior = line.effIn
  BY <1>2 DEF ScanLine, Skips, ScanState
<1>. HIDE DEF t
<1>. QED  BY <1>1, <1>3, <1>4

\* Two events that would bill one turn, or one message, twice.
Clash(e, f) == e.at = f.at \/ (e.key # 0 /\ e.key = f.key)

\* A turn the scan found, or knows from the cursor.
Found(from, st, i) ==
  \/ \E t \in ToSet(st.turns) : SameTurn(t, i)
  \/ transcript[i].key # 0 /\ transcript[i].key \in ToSet(from.seen)

Complete(from, st) ==
  /\ \A i \in (from.offset + 1) .. st.at : transcript[i].turn => Found(from, st, i)
  /\ \A k \in st.known : k # 0 => k \in ToSet(from.seen) \/ \E t \in ToSet(st.turns) : t.key = k
  /\ ToSet(st.seen) \cup ToSet(from.seen) \subseteq st.known

Unique(from, st) ==
  /\ \A t \in ToSet(st.turns) :
       /\ t.gen = gen /\ t.at \in (from.offset + 1) .. st.at
       /\ t.key \in st.known /\ t.key \notin ToSet(from.seen)
  /\ \A i, j \in DOMAIN st.turns : i # j => ~Clash(st.turns[i], st.turns[j])

\* The keys in the list are those in the map, or there are more in the map.
KeysMatch(seen, known) ==
  \/ known \ {0} = ToSet(seen) /\ Cardinality(known \ {0}) = Len(seen)
  \/ Cardinality(known \ {0}) > Len(seen)

Remembered(st) == IsFiniteSet(st.known) /\ KeysMatch(st.seen, st.known)

LEMMA ToSetAppend ==
  ASSUME NEW S, NEW s \in Seq(S), NEW e
  PROVE  ToSet(Append(s, e)) = ToSet(s) \cup {e}
<1>1. DOMAIN Append(s, e) = 1 .. (Len(s) + 1) /\ DOMAIN s = 1 .. Len(s) /\ Len(s) \in Nat
  OBVIOUS
<1>2. \A i \in 1 .. Len(s) : Append(s, e)[i] = s[i]
  OBVIOUS
<1>3. Append(s, e)[Len(s) + 1] = e
  OBVIOUS
<1>. QED  BY <1>1, <1>2, <1>3 DEF ToSet

LEMMA ToSetTail ==
  ASSUME NEW S, NEW s \in Seq(S), s # <<>>
  PROVE  ToSet(s) = {Head(s)} \cup ToSet(Tail(s))
<1>1. DOMAIN Tail(s) = 1 .. (Len(s) - 1) /\ DOMAIN s = 1 .. Len(s) /\ Len(s) \in Nat \ {0}
  OBVIOUS
<1>2. \A i \in 1 .. (Len(s) - 1) : Tail(s)[i] = s[i + 1]
  OBVIOUS
<1>3. Head(s) = s[1]
  OBVIOUS
<1>4. ASSUME NEW x \in ToSet(s) PROVE x \in {Head(s)} \cup ToSet(Tail(s))
  <2>1. PICK i \in 1 .. Len(s) : x = s[i]
    BY <1>1 DEF ToSet
  <2>2. i # 1 => i - 1 \in 1 .. (Len(s) - 1) /\ Tail(s)[i - 1] = s[i]
    BY <1>1, <1>2
  <2>. QED  BY <1>1, <1>3, <2>1, <2>2 DEF ToSet
<1>5. ASSUME NEW x \in ToSet(Tail(s)) PROVE x \in ToSet(s)
  <2>1. PICK i \in 1 .. (Len(s) - 1) : x = Tail(s)[i]
    BY <1>1 DEF ToSet
  <2>2. i + 1 \in 1 .. Len(s) /\ x = s[i + 1]
    BY <1>1, <1>2, <2>1
  <2>. QED  BY <1>1, <2>2 DEF ToSet
<1>6. Head(s) \in ToSet(s)
  BY <1>1, <1>3 DEF ToSet
<1>. QED  BY <1>4, <1>5, <1>6

LEMMA LineComplete ==
  ASSUME NEW from \in File, NEW st \in ScanState, gen \in Nat, transcript \in Seq(Line),
         st.at + 1 \in DOMAIN transcript, Complete(from, st)
  PROVE  Complete(from, ScanLine(st, transcript[st.at + 1]))
<1>. DEFINE n == st.at + 1
<1>1. PICK line \in Line : line = transcript[n]
  OBVIOUS
<1>2. PICK next : next = ScanLine(st, line)
  OBVIOUS
<1>3. st.at \in Nat /\ n \in Nat /\ from.offset \in Nat /\ st.turns \in Seq(Turn)
      /\ st.seen \in Seq(Nat \ {0}) /\ line.key \in Nat
  <2>1. st.at \in Nat /\ st.turns \in Seq(Turn) /\ st.seen \in Seq(Nat \ {0})
    BY DEF ScanState, SeenKeys
  <2>2. from.offset \in Nat
    BY DEF File
  <2>3. line.key \in Nat
    BY DEF Line
  <2>. QED  BY <2>1, <2>2, <2>3
<1>4. CASE Skips(st, line)
  <2>1. next.turns = st.turns /\ next.seen = st.seen /\ next.known = st.known /\ next.at = n
    BY <1>2, <1>4, LineSkipped
  <2>2. ASSUME line.turn PROVE Found(from, st, n)
    <3>1. line.key # 0 /\ line.key \in st.known
      BY <1>4, <2>2 DEF Skips
    <3>2. line.key \in ToSet(from.seen) \/ \E t \in ToSet(st.turns) : t.key = line.key
      BY <3>1 DEF Complete
    <3>. QED  BY <1>1, <3>1, <3>2 DEF Found, SameTurn
  <2>3. ASSUME NEW i \in (from.offset + 1) .. n, transcript[i].turn PROVE Found(from, next, i)
    <3>1. i = n \/ i \in (from.offset + 1) .. st.at
      BY <1>3
    <3>2. Found(from, st, i)
      BY <1>1, <2>2, <2>3, <3>1 DEF Complete
    <3>. QED  BY <2>1, <3>2 DEF Found
  <2>4. Complete(from, next)
    BY <2>1, <2>3 DEF Complete
  <2>. QED  BY <1>1, <1>2, <2>4
<1>5. CASE ~Skips(st, line)
  <2>1. PICK t \in Turn :
          /\ t.gen = gen /\ t.at = n /\ t.key = line.key
          /\ next.turns = Append(st.turns, t) /\ next.seen = Remember(st.seen, line.key)
          /\ next.known = st.known \cup {line.key} /\ next.at = n
    BY <1>2, <1>5, LineTaken
  <2>2. ToSet(next.turns) = ToSet(st.turns) \cup {t}
    BY <1>3, <2>1, ToSetAppend
  <2>3. ToSet(next.seen) \subseteq ToSet(st.seen) \cup {line.key}
    <3>1. CASE line.key = 0
      BY <2>1, <3>1 DEF Remember
    <3>2. CASE line.key # 0
      <4>. DEFINE all == Append(st.seen, line.key)
      <4>1. all # <<>> /\ all \in Seq(Nat \ {0})
        BY <1>3, <3>2
      <4>2. ToSet(all) = ToSet(st.seen) \cup {line.key}
        BY <1>3, ToSetAppend
      <4>3. next.seen \in {st.seen, all, Tail(all)}
        BY <2>1 DEF Remember
      <4>. HIDE DEF all
      <4>4. ToSet(Tail(all)) \subseteq ToSet(all)
        BY <4>1, ToSetTail
      <4>. QED  BY <4>2, <4>3, <4>4
    <3>. QED  BY <3>1, <3>2
  <2>4. SameTurn(t, n)
    BY <1>1, <2>1 DEF SameTurn
  <2>5. ASSUME NEW i \in (from.offset + 1) .. n, transcript[i].turn PROVE Found(from, next, i)
    <3>1. i = n \/ i \in (from.offset + 1) .. st.at
      BY <1>3
    <3>2. i # n => Found(from, st, i)
      BY <2>5, <3>1 DEF Complete
    <3>. QED  BY <2>2, <2>4, <3>2 DEF Found
  <2>6. ASSUME NEW k \in next.known, k # 0
        PROVE  k \in ToSet(from.seen) \/ \E u \in ToSet(next.turns) : u.key = k
    <3>1. CASE k = line.key
      BY <2>1, <2>2, <3>1
    <3>2. CASE k \in st.known
      BY <2>2, <2>6, <3>2 DEF Complete
    <3>. QED  BY <2>1, <3>1, <3>2
  <2>7. ToSet(next.seen) \cup ToSet(from.seen) \subseteq next.known
    BY <2>1, <2>3 DEF Complete
  <2>8. Complete(from, next)
    BY <2>1, <2>5, <2>6, <2>7 DEF Complete
  <2>. QED  BY <1>1, <1>2, <2>8
<1>. QED  BY <1>4, <1>5

LEMMA LineUnique ==
  ASSUME NEW from \in File, NEW st \in ScanState, gen \in Nat, transcript \in Seq(Line),
         st.at + 1 \in DOMAIN transcript, from.offset =< st.at,
         Complete(from, st), Unique(from, st)
  PROVE  Unique(from, ScanLine(st, transcript[st.at + 1]))
<1>. DEFINE n == st.at + 1
<1>1. PICK line \in Line : line = transcript[n]
  OBVIOUS
<1>2. PICK next : next = ScanLine(st, line)
  OBVIOUS
<1>3. st.at \in Nat /\ n \in Nat /\ from.offset \in Nat /\ st.turns \in Seq(Turn) /\ line.key \in Nat
      /\ from.seen \in Seq(Nat \ {0})
  <2>1. st.at \in Nat /\ st.turns \in Seq(Turn)
    BY DEF ScanState
  <2>2. from.offset \in Nat /\ from.seen \in Seq(Nat \ {0})
    BY DEF File, SeenKeys
  <2>3. line.key \in Nat
    BY DEF Line
  <2>. QED  BY <2>1, <2>2, <2>3
<1>4. CASE Skips(st, line)
  <2>1. next.turns = st.turns /\ next.known = st.known /\ next.at = n
    BY <1>2, <1>4, LineSkipped
  <2>2. Unique(from, next)
    BY <1>3, <2>1 DEF Unique
  <2>. QED  BY <1>1, <1>2, <2>2
<1>5. CASE ~Skips(st, line)
  <2>1. PICK t \in Turn :
          /\ t.gen = gen /\ t.at = n /\ t.key = line.key
          /\ next.turns = Append(st.turns, t)
          /\ next.known = st.known \cup {line.key} /\ next.at = n
    BY <1>2, <1>5, LineTaken
  <2>2. ToSet(next.turns) = ToSet(st.turns) \cup {t}
    BY <1>3, <2>1, ToSetAppend
  <2>3. t.key # 0 => t.key \notin st.known
    BY <1>5, <2>1 DEF Skips
  <2>4. t.key \notin ToSet(from.seen)
    <3>1. 0 \notin ToSet(from.seen)
      BY <1>3 DEF ToSet
    <3>. QED  BY <2>3, <3>1 DEF Complete
  <2>5. ASSUME NEW u \in ToSet(next.turns)
        PROVE  /\ u.gen = gen /\ u.at \in (from.offset + 1) .. n
               /\ u.key \in next.known /\ u.key \notin ToSet(from.seen)
    <3>1. CASE u = t
      <4>1. n \in (from.offset + 1) .. n
        BY <1>3
      <4>2. u.gen = gen /\ u.at = n /\ u.key \in next.known /\ u.key \notin ToSet(from.seen)
        BY <2>1, <2>4, <3>1
      <4>. QED  BY <4>1, <4>2
    <3>2. CASE u \in ToSet(st.turns)
      <4>1. u.gen = gen /\ u.at \in (from.offset + 1) .. st.at /\ u.key \in st.known
            /\ u.key \notin ToSet(from.seen)
        BY <3>2 DEF Unique
      <4>2. (from.offset + 1) .. st.at \subseteq (from.offset + 1) .. n
        BY <1>3
      <4>. QED  BY <2>1, <4>1, <4>2
    <3>. QED  BY <2>2, <3>1, <3>2
  <2>6. ASSUME NEW u \in ToSet(st.turns) PROVE ~Clash(u, t) /\ ~Clash(t, u)
    <3>1. u.at \in (from.offset + 1) .. st.at /\ u.key \in st.known
      BY DEF Unique
    <3>. QED  BY <1>3, <2>1, <2>3, <3>1 DEF Clash
  <2>7. DOMAIN next.turns = 1 .. (Len(st.turns) + 1) /\ DOMAIN st.turns = 1 .. Len(st.turns)
        /\ Len(st.turns) \in Nat /\ next.turns[Len(st.turns) + 1] = t
        /\ \A i \in DOMAIN st.turns : next.turns[i] = st.turns[i]
    <3>1. next.turns = Append(st.turns, t) /\ st.turns \in Seq(Turn) /\ t \in Turn
      BY <1>3, <2>1
    <3>. QED  BY <3>1, AppendProperties, LenProperties
  <2>8. ASSUME NEW i \in DOMAIN next.turns, NEW j \in DOMAIN next.turns, i # j
        PROVE  ~Clash(next.turns[i], next.turns[j])
    <3>1. \A k \in DOMAIN next.turns :
            k # Len(st.turns) + 1 => /\ k \in DOMAIN st.turns /\ next.turns[k] = st.turns[k]
                                     /\ st.turns[k] \in ToSet(st.turns)
      BY <2>7 DEF ToSet
    <3>2. CASE i = Len(st.turns) + 1
      BY <2>6, <2>7, <2>8, <3>1, <3>2
    <3>3. CASE j = Len(st.turns) + 1
      BY <2>6, <2>7, <2>8, <3>1, <3>3
    <3>4. CASE i # Len(st.turns) + 1 /\ j # Len(st.turns) + 1
      BY <2>8, <3>1, <3>4 DEF Unique
    <3>. QED  BY <3>2, <3>3, <3>4
  <2>9. Unique(from, next)
    BY <2>1, <2>5, <2>8 DEF Unique
  <2>. QED  BY <1>1, <1>2, <2>9
<1>. QED  BY <1>4, <1>5

LEMMA LineRemembered ==
  ASSUME NEW from \in File, NEW st \in ScanState, NEW line \in Line, gen \in Nat,
         ToSet(st.seen) \subseteq st.known, Remembered(st)
  PROVE  Remembered(ScanLine(st, line))
<1>1. PICK next : next = ScanLine(st, line)
  OBVIOUS
<1>2. st.seen \in Seq(Nat \ {0}) /\ Len(st.seen) \in Nat /\ line.key \in Nat
  BY DEF ScanState, SeenKeys, Line
<1>3. CASE Skips(st, line)
  <2>1. next.seen = st.seen /\ next.known = st.known
    BY <1>1, <1>3, LineSkipped
  <2>. QED  BY <1>1, <2>1 DEF Remembered
<1>4. CASE ~Skips(st, line)
  <2>1. next.seen = Remember(st.seen, line.key) /\ next.known = st.known \cup {line.key}
    BY <1>1, <1>4, LineTaken
  <2>2. IsFiniteSet(next.known) /\ IsFiniteSet(st.known \ {0})
    BY <2>1, FS_AddElement, FS_RemoveElement DEF Remembered
  <2>3. CASE line.key = 0
    <3>1. next.seen = st.seen /\ next.known \ {0} = st.known \ {0}
      BY <2>1, <2>3 DEF Remember
    <3>2. KeysMatch(next.seen, next.known)
      BY <3>1 DEF Remembered, KeysMatch
    <3>. QED  BY <1>1, <2>2, <3>2 DEF Remembered
  <2>4. CASE line.key # 0
    <3>. DEFINE all == Append(st.seen, line.key)
                old == st.known \ {0}
                new == next.known \ {0}
    <3>1. line.key \notin st.known /\ line.key \notin ToSet(st.seen)
      BY <1>4, <2>4 DEF Skips
    <3>2. new = old \cup {line.key} /\ line.key \notin old
      BY <2>1, <2>4, <3>1
    <3>3. Cardinality(old) \in Nat /\ Cardinality(new) = Cardinality(old) + 1
      BY <2>2, <3>2, FS_AddElement, FS_CardinalityType
    <3>4. ToSet(all) = ToSet(st.seen) \cup {line.key}
      BY <1>2, ToSetAppend
    <3>5. Len(all) = Len(st.seen) + 1 /\ Len(Tail(all)) = Len(st.seen)
      BY <1>2, <2>4
    <3>6. next.seen = all \/ next.seen = Tail(all)
      BY <2>1, <2>4, <3>1 DEF Remember
    <3>7. \/ old = ToSet(st.seen) /\ Cardinality(old) = Len(st.seen)
          \/ Cardinality(old) > Len(st.seen)
      BY DEF Remembered, KeysMatch
    <3>. HIDE DEF all, old, new
    <3>8. \/ new = ToSet(next.seen) /\ Cardinality(new) = Len(next.seen)
          \/ Cardinality(new) > Len(next.seen)
      <4>1. CASE next.seen = all
        <5>1. ToSet(next.seen) = ToSet(st.seen) \cup {line.key} /\ Len(next.seen) = Len(st.seen) + 1
          BY <3>4, <3>5, <4>1
        <5>. QED  BY <1>2, <3>2, <3>3, <3>7, <5>1
      <4>2. CASE next.seen = Tail(all)
        <5>1. Len(next.seen) = Len(st.seen)
          BY <3>5, <4>2
        <5>. QED  BY <1>2, <3>3, <3>7, <5>1
      <4>. QED  BY <3>6, <4>1, <4>2
    <3>9. KeysMatch(next.seen, next.known)
      BY <3>8 DEF KeysMatch, new
    <3>. QED  BY <1>1, <2>2, <3>9 DEF Remembered
  <2>. QED  BY <2>3, <2>4
<1>. QED  BY <1>3, <1>4
\* A list of keys without repetition.
KeysKnown(file) ==
  IsFiniteSet(ToSet(file.seen)) /\ Cardinality(ToSet(file.seen)) = Len(file.seen)

LEMMA UnreadFound ==
  ASSUME NEW from \in File, from.offset =< Len(transcript), transcript \in Seq(Line)
  PROVE  /\ Complete(from, Unread(from)) /\ Unique(from, Unread(from))
         /\ KeysKnown(from) => Remembered(Unread(from))
<1>1. PICK st : st = Unread(from)
  OBVIOUS
<1>2. /\ st.turns = <<>> /\ st.seen = from.seen /\ st.known = ToSet(from.seen)
      /\ st.at = from.offset
  BY <1>1 DEF Unread
<1>3. from.offset \in Nat /\ from.seen \in Seq(Nat \ {0})
  BY DEF File, SeenKeys
<1>4. ToSet(st.turns) = {} /\ DOMAIN st.turns = {}
  BY <1>2 DEF ToSet
<1>5. Complete(from, st)
  BY <1>2, <1>3 DEF Complete
<1>6. Unique(from, st)
  BY <1>4 DEF Unique
<1>7. ASSUME KeysKnown(from) PROVE Remembered(st)
  <2>1. ToSet(from.seen) \ {0} = ToSet(from.seen)
    BY <1>3 DEF ToSet
  <2>. QED  BY <1>2, <1>7, <2>1 DEF Remembered, KeysMatch, KeysKnown
<1>. QED  BY <1>1, <1>5, <1>6, <1>7

\* What readNewAssistantUsageLines returns: it has read all lines, and it has
\* every turn behind the cursor it started with, unless it knew it, once.
LEMMA ScanFinds ==
  ASSUME NEW start \in File, gen \in Nat, transcript \in Seq(Line)
  PROVE  LET from == From(start)
             st == ScanFrom(start)
         IN  /\ from \in File /\ from.offset =< Len(transcript)
             /\ st \in ScanState /\ st.at = Len(transcript)
             /\ Complete(from, st) /\ Unique(from, st)
             /\ KeysKnown(from) => Remembered(st)
<1>1. PICK from : from = From(start)
  OBVIOUS
<1>2. from \in File /\ from.offset \in Nat /\ from.offset =< Len(transcript) /\ Len(transcript) \in Nat
  BY <1>1, ZeroIsFile DEF From, File
<1>3. PICK s : Scans(from, s) /\ ScanFrom(start) = s[Len(transcript)]
  BY <1>1, ScansExist
<1>. DEFINE Good(n) == /\ s[n] \in ScanState /\ s[n].at = n
                       /\ Complete(from, s[n]) /\ Unique(from, s[n])
                       /\ KeysKnown(from) => Remembered(s[n])
            G == {n \in from.offset .. Len(transcript) : Good(n)}
<1>4. from.offset \in G
  <2>1. s[from.offset] = Unread(from) /\ Unread(from).at = from.offset
    BY <1>3 DEF Scans, Unread
  <2>2. Good(from.offset)
    BY <1>2, <2>1, UnreadTypes, UnreadFound
  <2>. HIDE DEF Good
  <2>. QED  BY <1>2, <2>2
<1>5. ASSUME NEW n \in from.offset .. Len(transcript), n # Len(transcript), n \in G
      PROVE  n + 1 \in G
  <2>1. Good(n)
    BY <1>5
  <2>2. s[n + 1] = ScanLine(s[n], transcript[n + 1])
    BY <1>3, <1>5 DEF Scans
  <2>3. n + 1 \in from.offset .. Len(transcript) /\ n + 1 \in DOMAIN transcript
        /\ transcript[n + 1] \in Line /\ from.offset =< n
    BY <1>2, <1>5
  <2>4. s[n + 1] \in ScanState /\ s[n + 1].at = n + 1
    BY <2>1, <2>2, <2>3, LineTypes
  <2>5. Complete(from, s[n + 1])
    BY <1>2, <2>1, <2>2, <2>3, LineComplete
  <2>6. Unique(from, s[n + 1])
    BY <1>2, <2>1, <2>2, <2>3, LineUnique
  <2>7. ASSUME KeysKnown(from) PROVE Remembered(s[n + 1])
    <3>1. ToSet(s[n].seen) \subseteq s[n].known
      BY <2>1 DEF Complete
    <3>. QED  BY <1>2, <2>1, <2>2, <2>3, <2>7, <3>1, LineRemembered
  <2>8. Good(n + 1)
    BY <2>4, <2>5, <2>6, <2>7
  <2>. HIDE DEF Good
  <2>. QED  BY <2>3, <2>8
<1>6. Good(Len(transcript))
  <2>. HIDE DEF G
  <2>1. \A n \in from.offset .. Len(transcript) : n # Len(transcript) /\ n \in G => n + 1 \in G
    BY <1>5
  <2>2. PICK len \in Nat : len = Len(transcript)
    BY <1>2
  <2>3. \A n \in from.offset .. len : n \in G
    BY <1>2, <1>4, <2>1, <2>2, Induct
  <2>4. Len(transcript) \in G
    BY <1>2, <2>2, <2>3
  <2>. QED  BY <2>4 DEF G
<1>. QED  BY <1>1, <1>2, <1>3, <1>6

(***************************************************************************)
(* Type correctness                                                        *)
(***************************************************************************)

HookState ==
  [pc : {"off", "tool", "cursor", "scan", "truncate", "write", "open", "enqueue", "done"},
   kind : {"stop", "post"}, start : File, end : File, todo : Seq(Turn)]

Types ==
  /\ transcript \in Seq(Line) /\ written \in 0 .. MaxLines /\ gen \in 0 .. MaxRotations
  /\ cursor = Torn \/ cursor \in File
  /\ hook \in [Hooks -> HookState]
  /\ queued \subseteq TurnEvent

LEMMA TornIsNoFile == Torn \notin File
BY DEF Torn, File

LEMMA NotStartedTypes == NotStarted \in HookState /\ Done \in HookState
<1>1. NotStarted \in HookState
  BY ZeroIsFile DEF NotStarted, HookState
<1>2. Done \in HookState
  BY <1>1 DEF Done, HookState
<1>. QED  BY <1>1, <1>2

LEMMA DeliverTypes ==
  ASSUME NEW kind, NEW turns \in Seq(Turn)
  PROVE  /\ Deliver(kind, turns) \in HookState /\ Deliver(kind, turns).todo = turns
         /\ Deliver(kind, turns).pc \in {"open", "enqueue", "done"}
         /\ Deliver(kind, turns).pc = "done" <=> turns = <<>>
BY ZeroIsFile DEF Deliver, Done, NotStarted, HookState

\* The event of a turn is the turn, with the hook it came from.
LEMMA EventOfTurn ==
  ASSUME NEW t \in Turn, NEW h \in Hooks
  PROVE  LET ev == EventOf(t, h)
         IN  /\ ev \in TurnEvent /\ ev.gen = t.gen /\ ev.at = t.at /\ ev.key = t.key
             /\ ev.delta = t.delta
BY DEF EventOf, Turn, TurnEvent

LEMMA TypesImplyTypeOK == Types => TypeOK
<1>. SUFFICES ASSUME Types PROVE TypeOK
  OBVIOUS
<1>1. ASSUME NEW file \in File PROVE file \in Cursor /\ Len(file.seen) =< MaxSeen
  <2>1. file.seen \in Seq(Nat) /\ Len(file.seen) =< MaxSeen
    BY DEF File, SeenKeys
  <2>. QED  BY <2>1 DEF File, Cursor
<1>2. cursor # Torn => cursor \in Cursor /\ Len(cursor.seen) =< MaxSeen
  BY <1>1 DEF Types
<1>3. ASSUME NEW h \in Hooks PROVE hook[h].start \in Cursor /\ hook[h].end \in Cursor
  BY <1>1 DEF Types, HookState
<1>. QED  BY <1>2, <1>3 DEF Types, TypeOK

LEMMA InitTypes == Init => Types
BY ClaudeConstantsOK, NotStartedTypes DEF Init, Types
LEMMA Becomes ==
  ASSUME NEW h \in Hooks, NEW state \in HookState, hook \in [Hooks -> HookState], Become(h, state)
  PROVE  /\ hook' \in [Hooks -> HookState] /\ hook'[h] = state
         /\ \A g \in Hooks \ {h} : hook'[g] = hook[g]
BY DEF Become

\* What Claude Code writes is a line.
LEMMA AppendTypes ==
  ASSUME Types, NewTurn \/ OtherLine \/ SameMessage
  PROVE  \E line \in Line : AppendLine(line)
<1>1. written \in Nat /\ transcript \in Seq(Line) /\ Sizes \subseteq Nat
  BY ClaudeConstantsOK DEF Types
<1>2. CASE NewTurn
  <2>1. PICK n \in Sizes, k \in {0, written + 1} : AppendLine([turn |-> TRUE, key |-> k, effIn |-> n])
    BY <1>2 DEF NewTurn
  <2>2. [turn |-> TRUE, key |-> k, effIn |-> n] \in Line
    BY <1>1 DEF Line
  <2>. QED  BY <2>1, <2>2
<1>3. CASE OtherLine
  BY <1>3 DEF OtherLine, Other, Line
<1>4. CASE SameMessage
  <2>1. PICK l \in ToSet(transcript) : AppendLine(l)
    BY <1>4 DEF SameMessage
  <2>2. l \in Line
    BY <1>1 DEF ToSet
  <2>. QED  BY <2>1, <2>2
<1>. QED  BY <1>2, <1>3, <1>4

\* What a scan that is done leaves for its hook to do.
ScanEnd(start) ==
  LET st == ScanFrom(start)
  IN  [offset |-> st.at, prior |-> st.prior, seen |-> st.seen, gen |-> gen]

\* The hook does or does not write the cursor.
LEMMA ScanSteps ==
  ASSUME Types, NEW h \in Hooks, Scan(h)
  PROVE  LET end == ScanEnd(hook[h].start)
             turns == ScanFrom(hook[h].start).turns
         IN  /\ end \in File /\ turns \in Seq(Turn)
             /\ hook' \in [Hooks -> HookState]
             /\ \A g \in Hooks \ {h} : hook'[g] = hook[g]
             /\ \/ /\ WorthWriting(hook[h].start, end)
                   /\ hook'[h].pc = "truncate" /\ hook'[h].end = end /\ hook'[h].todo = turns
                \/ /\ ~WorthWriting(hook[h].start, end)
                   /\ hook'[h] = Deliver(hook[h].kind, turns)
<1>1. hook[h] \in HookState /\ gen \in Nat /\ transcript \in Seq(Line)
  BY ClaudeConstantsOK DEF Types
<1>2. PICK start \in File : start = hook[h].start
  BY <1>1 DEF HookState
<1>3. PICK st : st = ScanFrom(start)
  OBVIOUS
<1>4. st \in ScanState
  BY <1>1, <1>3, ScanFinds
<1>5. PICK end : end = ScanEnd(start)
  OBVIOUS
<1>6. end \in File /\ st.turns \in Seq(Turn)
  BY <1>1, <1>3, <1>4, <1>5 DEF ScanEnd, ScanState, File
<1>7. PICK written_ : written_ = [hook[h] EXCEPT !.pc = "truncate", !.start = Zero,
                                                 !.end = end, !.todo = st.turns]
  OBVIOUS
<1>8. written_ \in HookState /\ written_.pc = "truncate" /\ written_.end = end
      /\ written_.todo = st.turns
  BY <1>1, <1>6, <1>7, ZeroIsFile DEF HookState
<1>9. PICK delivered : delivered = Deliver(hook[h].kind, st.turns)
  OBVIOUS
<1>10. delivered \in HookState
  BY <1>6, <1>9, DeliverTypes
<1>11. Become(h, IF WorthWriting(start, end) THEN written_ ELSE delivered)
  BY <1>2, <1>3, <1>5, <1>7, <1>9 DEF Scan, ScanEnd
<1>12. CASE WorthWriting(start, end)
  <2>1. Become(h, written_)
    BY <1>11, <1>12
  <2>2. hook' \in [Hooks -> HookState] /\ hook'[h] = written_
        /\ \A g \in Hooks \ {h} : hook'[g] = hook[g]
    BY <1>8, <2>1, Becomes DEF Types
  <2>. QED  BY <1>2, <1>3, <1>5, <1>6, <1>8, <1>12, <2>2
<1>13. CASE ~WorthWriting(start, end)
  <2>1. Become(h, delivered)
    BY <1>11, <1>13
  <2>2. hook' \in [Hooks -> HookState] /\ hook'[h] = delivered
        /\ \A g \in Hooks \ {h} : hook'[g] = hook[g]
    BY <1>10, <2>1, Becomes DEF Types
  <2>. QED  BY <1>2, <1>3, <1>5, <1>6, <1>9, <1>13, <2>2
<1>. QED  BY <1>12, <1>13

\* The steps of a hook but its scan: what the hook becomes.
LEMMA HookSteps ==
  ASSUME Types, NEW h \in Hooks
  PROVE  /\ PostToolUse(h) => \E s \in HookState : Become(h, s) /\ s.pc = "tool" /\ s.todo = <<>>
         /\ Stop(h) => \E s \in HookState : Become(h, s) /\ s.pc = "cursor" /\ s.todo = <<>>
         /\ EnqueueTool(h) =>
              \E s \in HookState : /\ Become(h, s) /\ s.pc \in {"cursor", "done"}
                                   /\ s.todo \in {<<>>, hook[h].todo}
         /\ TakeCursor(h) =>
              \E s \in HookState : /\ Become(h, s) /\ s.pc = "scan" /\ s.start = ReadCursor
                                   /\ s.todo = hook[h].todo
         /\ CursorUnread(h) =>
              \E s \in HookState : /\ Become(h, s) /\ s.pc = "scan" /\ s.start = Zero
                                   /\ s.todo = hook[h].todo
         /\ TruncateCursor(h) =>
              \E s \in HookState : /\ Become(h, s) /\ s.pc = "write" /\ s.end = hook[h].end
                                   /\ s.todo = hook[h].todo
         /\ WriteCursor(h) \/ WriteFails(h) =>
              \E s \in HookState : /\ Become(h, s) /\ s.pc \in {"open", "enqueue", "done"}
                                   /\ s.todo = hook[h].todo /\ (s.pc = "done" <=> s.todo = <<>>)
         /\ ScanFails(h) \/ Crash(h) =>
              \E s \in HookState : Become(h, s) /\ s.pc = "done" /\ s.todo = <<>>
         /\ OpenQueue(h) =>
              \E s \in HookState :
                /\ Become(h, s)
                /\ \/ s.pc = "enqueue" /\ s.todo = hook[h].todo /\ dropped' = dropped
                   \/ s.pc = "done" /\ s.todo = <<>> /\ dropped' = dropped \cup ToSet(hook[h].todo)
<1>1. hook[h] \in HookState
  BY DEF Types
<1>2. NotStarted \in HookState /\ Done \in HookState /\ Done.pc = "done"
      /\ Done.todo = <<>> /\ NotStarted.todo = <<>>
  BY NotStartedTypes DEF NotStarted, Done
<1>3. PostToolUse(h) => \E s \in HookState : Become(h, s) /\ s.pc = "tool" /\ s.todo = <<>>
  <2>. DEFINE s == [NotStarted EXCEPT !.pc = "tool", !.kind = "post"]
  <2>1. s \in HookState /\ s.pc = "tool" /\ s.todo = <<>>
    BY <1>2 DEF HookState
  <2>2. PostToolUse(h) => Become(h, s)
    BY DEF PostToolUse
  <2>. HIDE DEF s
  <2>. QED  BY <2>1, <2>2
<1>4. Stop(h) => \E s \in HookState : Become(h, s) /\ s.pc = "cursor" /\ s.todo = <<>>
  <2>. DEFINE s == [NotStarted EXCEPT !.pc = "cursor", !.kind = "stop"]
  <2>1. s \in HookState /\ s.pc = "cursor" /\ s.todo = <<>>
    BY <1>2 DEF HookState
  <2>2. Stop(h) => Become(h, s)
    BY DEF Stop
  <2>. HIDE DEF s
  <2>. QED  BY <2>1, <2>2
<1>5. EnqueueTool(h) =>
        \E s \in HookState : /\ Become(h, s) /\ s.pc \in {"cursor", "done"}
                             /\ s.todo \in {<<>>, hook[h].todo}
  <2>. DEFINE s == [hook[h] EXCEPT !.pc = "cursor"]
  <2>1. s \in HookState /\ s.pc = "cursor" /\ s.todo = hook[h].todo
    BY <1>1 DEF HookState
  <2>2. EnqueueTool(h) => Become(h, s) \/ Become(h, Done)
    BY DEF EnqueueTool
  <2>. HIDE DEF s
  <2>. QED  BY <1>2, <2>1, <2>2
<1>6. TakeCursor(h) =>
        \E s \in HookState : /\ Become(h, s) /\ s.pc = "scan" /\ s.start = ReadCursor
                             /\ s.todo = hook[h].todo
  <2>. DEFINE s == [hook[h] EXCEPT !.pc = "scan", !.start = ReadCursor]
  <2>1. ReadCursor \in File
    BY ZeroIsFile DEF Types, ReadCursor
  <2>2. s \in HookState /\ s.pc = "scan" /\ s.start = ReadCursor /\ s.todo = hook[h].todo
    BY <1>1, <2>1 DEF HookState
  <2>3. TakeCursor(h) => Become(h, s)
    BY DEF TakeCursor
  <2>. HIDE DEF s
  <2>. QED  BY <2>2, <2>3
<1>u. CursorUnread(h) =>
        \E s \in HookState : /\ Become(h, s) /\ s.pc = "scan" /\ s.start = Zero
                             /\ s.todo = hook[h].todo
  <2>. DEFINE s == [hook[h] EXCEPT !.pc = "scan", !.start = Zero]
  <2>1. s \in HookState /\ s.pc = "scan" /\ s.start = Zero /\ s.todo = hook[h].todo
    BY <1>1, ZeroIsFile DEF HookState
  <2>2. CursorUnread(h) => Become(h, s)
    BY DEF CursorUnread
  <2>. HIDE DEF s
  <2>. QED  BY <2>1, <2>2
<1>7. TruncateCursor(h) =>
        \E s \in HookState : /\ Become(h, s) /\ s.pc = "write" /\ s.end = hook[h].end
                             /\ s.todo = hook[h].todo
  <2>. DEFINE s == [hook[h] EXCEPT !.pc = "write"]
  <2>1. s \in HookState /\ s.pc = "write" /\ s.end = hook[h].end /\ s.todo = hook[h].todo
    BY <1>1 DEF HookState
  <2>2. TruncateCursor(h) => Become(h, s)
    BY DEF TruncateCursor
  <2>. HIDE DEF s
  <2>. QED  BY <2>1, <2>2
<1>8. WriteCursor(h) \/ WriteFails(h) =>
        \E s \in HookState : /\ Become(h, s) /\ s.pc \in {"open", "enqueue", "done"}
                             /\ s.todo = hook[h].todo /\ (s.pc = "done" <=> s.todo = <<>>)
  <2>. DEFINE s == Deliver(hook[h].kind, hook[h].todo)
  <2>1. hook[h].todo \in Seq(Turn)
    BY <1>1 DEF HookState
  <2>2. s \in HookState /\ s.pc \in {"open", "enqueue", "done"} /\ s.todo = hook[h].todo
        /\ (s.pc = "done" <=> s.todo = <<>>)
    BY <2>1, DeliverTypes
  <2>3. WriteCursor(h) \/ WriteFails(h) => Become(h, s)
    BY DEF WriteCursor, WriteFails
  <2>. HIDE DEF s
  <2>. QED  BY <2>2, <2>3
<1>9. ScanFails(h) \/ Crash(h) =>
        \E s \in HookState : Become(h, s) /\ s.pc = "done" /\ s.todo = <<>>
  BY <1>2 DEF ScanFails, Crash
<1>10. OpenQueue(h) =>
        \E s \in HookState :
          /\ Become(h, s)
          /\ \/ s.pc = "enqueue" /\ s.todo = hook[h].todo /\ dropped' = dropped
             \/ s.pc = "done" /\ s.todo = <<>> /\ dropped' = dropped \cup ToSet(hook[h].todo)
  <2>. DEFINE s == [hook[h] EXCEPT !.pc = "enqueue"]
  <2>1. s \in HookState /\ s.pc = "enqueue" /\ s.todo = hook[h].todo
    BY <1>1 DEF HookState
  <2>2. OpenQueue(h) => \/ Become(h, s) /\ dropped' = dropped
                        \/ Become(h, Done) /\ dropped' = dropped \cup ToSet(hook[h].todo)
    BY DEF OpenQueue
  <2>. HIDE DEF s
  <2>. QED  BY <1>2, <2>1, <2>2
<1>. QED  BY <1>3, <1>4, <1>5, <1>6, <1>u, <1>7, <1>8, <1>9, <1>10

\* A hook has turns to enqueue, or to write a cursor for, and no others.
Handing ==
  \A h \in Hooks :
    /\ hook[h].pc \in {"open", "enqueue"} => hook[h].todo # <<>>
    /\ hook[h].pc \in {"off", "tool", "cursor", "scan", "done"} => hook[h].todo = <<>>

\* t is s without its first k elements.
Rest(t, s, k) ==
  /\ k \in 1 .. Len(s) /\ Len(t) = Len(s) - k
  /\ \A i \in 1 .. Len(t) : t[i] = s[i + k]

\* A sequence is what is in front of a place in it, and the rest.
LEMMA SplitAt ==
  ASSUME NEW S, NEW s \in Seq(S), NEW k \in 1 .. Len(s)
  PROVE  LET rest == SubSeq(s, k + 1, Len(s))
             gone == SubSeq(s, 1, k)
         IN  rest \in Seq(S) /\ Rest(rest, s, k) /\ ToSet(s) \subseteq ToSet(gone) \cup ToSet(rest)
<1>1. Len(s) \in Nat /\ k \in Nat /\ k =< Len(s) /\ DOMAIN s = 1 .. Len(s)
      /\ \A i \in 1 .. Len(s) : s[i] \in S
  BY LenProperties, ElementOfSeq
<1>2. PICK rest : rest = SubSeq(s, k + 1, Len(s))
  OBVIOUS
<1>3. PICK gone : gone = SubSeq(s, 1, k)
  OBVIOUS
<1>4. rest \in Seq(S) /\ Len(rest) = Len(s) - k /\ \A i \in 1 .. (Len(s) - k) : rest[i] = s[i + k]
  <2>1. \A i \in (k + 1) .. Len(s) : s[i] \in S
    BY <1>1
  <2>2. /\ rest \in Seq(S)
        /\ Len(rest) = IF k + 1 =< Len(s) THEN Len(s) - (k + 1) + 1 ELSE 0
        /\ \A i \in 1 .. (Len(s) - (k + 1) + 1) : rest[i] = s[(k + 1) + i - 1]
    BY <1>1, <1>2, <2>1, SubSeqProperties
  <2>3. Len(s) - (k + 1) + 1 = Len(s) - k
        /\ (IF k + 1 =< Len(s) THEN Len(s) - (k + 1) + 1 ELSE 0) = Len(s) - k
    <3>1. PICK n \in Nat : n = Len(s)
      BY <1>1
    <3>2. n - (k + 1) + 1 = n - k
      BY <1>1
    <3>3. k \in Nat /\ k =< n
      BY <1>1, <3>1
    <3>4. k + 1 =< n \/ k = n
      BY <3>3
    <3>5. k = n => n - k = 0
      BY <3>3
    <3>. QED  BY <3>1, <3>2, <3>4, <3>5
  <2>4. ASSUME NEW i \in 1 .. (Len(s) - k) PROVE rest[i] = s[i + k]
    <3>1. (k + 1) + i - 1 = i + k
      BY <1>1
    <3>. QED  BY <2>2, <2>3, <3>1
  <2>. QED  BY <2>2, <2>3, <2>4
<1>5. DOMAIN gone = 1 .. k /\ \A i \in 1 .. k : gone[i] = s[i]
  <2>1. \A i \in 1 .. k : s[i] \in S
    BY <1>1
  <2>2. /\ gone \in Seq(S)
        /\ Len(gone) = IF 1 =< k THEN k - 1 + 1 ELSE 0
        /\ \A i \in 1 .. (k - 1 + 1) : gone[i] = s[1 + i - 1]
    BY <1>1, <1>3, <2>1, SubSeqProperties
  <2>3. k - 1 + 1 = k /\ \A i \in Nat : 1 + i - 1 = i
    BY <1>1
  <2>. QED  BY <1>1, <2>2, <2>3, LenProperties
<1>6. DOMAIN rest = 1 .. (Len(s) - k)
  BY <1>4, LenProperties
<1>7. ASSUME NEW x \in ToSet(s) PROVE x \in ToSet(gone) \cup ToSet(rest)
  <2>1. PICK i \in 1 .. Len(s) : x = s[i]
    BY <1>1 DEF ToSet
  <2>2. CASE i =< k
    BY <1>1, <1>5, <2>1, <2>2 DEF ToSet
  <2>3. CASE i > k
    <3>1. i - k \in 1 .. (Len(s) - k) /\ (i - k) + k = i
      BY <1>1, <2>3
    <3>. QED  BY <1>4, <1>6, <2>1, <3>1 DEF ToSet
  <2>. QED  BY <1>1, <2>2, <2>3
<1>8. Rest(rest, s, k)
  BY <1>1, <1>4 DEF Rest
<1>. QED  BY <1>2, <1>3, <1>4, <1>7, <1>8

\* An event goes to the queue or is lost, alone or with all behind it.
LEMMA EnqueueSteps ==
  ASSUME Types, Handing, NEW h \in Hooks, EnqueueTurn(h) \/ EnqueueFails(h)
  PROVE  \E s \in HookState :
           /\ Become(h, s) /\ s.pc \in {"open", "enqueue", "done"} /\ (s.pc = "done" <=> s.todo = <<>>)
           /\ \E k \in Nat : Rest(s.todo, hook[h].todo, k)
           /\ \/ /\ queued' = queued \cup {EventOf(Head(hook[h].todo), h)} /\ dropped' = dropped
                 /\ ToSet(hook[h].todo) = {Head(hook[h].todo)} \cup ToSet(s.todo)
                 /\ Rest(s.todo, hook[h].todo, 1)
              \/ /\ queued' = queued /\ dropped \subseteq dropped'
                 /\ ToSet(hook[h].todo) \subseteq dropped' \cup ToSet(s.todo)
<1>1. hook[h].pc = "enqueue" /\ hook[h] \in HookState
  BY DEF EnqueueTurn, EnqueueFails, Types
<1>2. PICK todo \in Seq(Turn) : todo = hook[h].todo
  BY <1>1 DEF HookState
<1>3. todo # <<>> /\ Len(todo) \in Nat \ {0}
  BY <1>1, <1>2 DEF Handing
<1>4. CASE EnqueueTurn(h)
  <2>1. PICK rest : rest = Tail(todo)
    OBVIOUS
  <2>2. rest \in Seq(Turn) /\ Rest(rest, todo, 1)
    BY <1>3, <2>1 DEF Rest
  <2>3. ToSet(todo) = {Head(todo)} \cup ToSet(rest)
    BY <1>3, <2>1, ToSetTail
  <2>4. PICK s : s = Deliver("post", rest)
    OBVIOUS
  <2>5. s \in HookState /\ s.todo = rest /\ s.pc \in {"open", "enqueue", "done"}
        /\ (s.pc = "done" <=> s.todo = <<>>)
    BY <2>2, <2>4, DeliverTypes
  <2>6. Become(h, s) /\ queued' = queued \cup {EventOf(Head(todo), h)} /\ dropped' = dropped
    BY <1>2, <1>4, <2>1, <2>4 DEF EnqueueTurn
  <2>. QED  BY <1>2, <2>2, <2>3, <2>5, <2>6
<1>5. CASE EnqueueFails(h)
  <2>1. PICK lost \in {1, Len(todo)} :
          /\ Become(h, Deliver("post", SubSeq(todo, lost + 1, Len(todo))))
          /\ dropped' = dropped \cup ToSet(SubSeq(todo, 1, lost)) /\ queued' = queued
    BY <1>2, <1>5 DEF EnqueueFails
  <2>2. PICK rest : rest = SubSeq(todo, lost + 1, Len(todo))
    OBVIOUS
  <2>3. PICK gone : gone = SubSeq(todo, 1, lost)
    OBVIOUS
  <2>4. lost \in 1 .. Len(todo)
    BY <1>3
  <2>5. rest \in Seq(Turn) /\ Rest(rest, todo, lost) /\ ToSet(todo) \subseteq ToSet(gone) \cup ToSet(rest)
    BY <2>2, <2>3, <2>4, SplitAt
  <2>9. PICK s : s = Deliver("post", rest)
    OBVIOUS
  <2>10. s \in HookState /\ s.todo = rest /\ s.pc \in {"open", "enqueue", "done"}
        /\ (s.pc = "done" <=> s.todo = <<>>)
    BY <2>5, <2>9, DeliverTypes
  <2>11. Become(h, s)
    BY <2>1, <2>2, <2>9
  <2>12. queued' = queued /\ dropped \subseteq dropped' /\ ToSet(todo) \subseteq dropped' \cup ToSet(s.todo)
    BY <2>1, <2>3, <2>5, <2>10
  <2>13. lost \in Nat
    BY <1>3, <2>4
  <2>. QED  BY <1>2, <2>5, <2>10, <2>11, <2>12, <2>13
<1>. QED  BY <1>4, <1>5

\* What a hook does after its scan, and what it did before.
Acts(h) ==
  \/ PostToolUse(h) \/ Stop(h) \/ EnqueueTool(h) \/ TakeCursor(h) \/ CursorUnread(h)
  \/ Scan(h) \/ ScanFails(h) \/ TruncateCursor(h) \/ WriteCursor(h) \/ WriteFails(h)
  \/ OpenQueue(h) \/ EnqueueTurn(h) \/ EnqueueFails(h) \/ Crash(h)

\* A step of a hook changes the state of this hook, and keeps the turns in
\* its hands and what it has to do in step.
LEMMA ActTypes ==
  ASSUME Types, Handing, NEW h \in Hooks, Acts(h)
  PROVE  /\ hook' \in [Hooks -> HookState]
         /\ \A g \in Hooks \ {h} : hook'[g] = hook[g]
         /\ hook'[h].pc \in {"open", "enqueue"} => hook'[h].todo # <<>>
         /\ hook'[h].pc \in {"off", "tool", "cursor", "scan", "done"} => hook'[h].todo = <<>>
         /\ queued' \subseteq TurnEvent
         /\ UNCHANGED <<transcript, written, gen>>
<1>1. UNCHANGED <<transcript, written, gen>>
  BY DEF Acts, PostToolUse, Stop, EnqueueTool, TakeCursor, CursorUnread, Scan, ScanFails, TruncateCursor,
         WriteCursor, WriteFails, OpenQueue, EnqueueTurn, EnqueueFails, Crash
<1>2. CASE Scan(h)
  <2>1. PICK end : end = ScanEnd(hook[h].start)
    OBVIOUS
  <2>2. PICK turns : turns = ScanFrom(hook[h].start).turns
    OBVIOUS
  <2>3. /\ turns \in Seq(Turn)
        /\ hook' \in [Hooks -> HookState]
        /\ \A g \in Hooks \ {h} : hook'[g] = hook[g]
        /\ \/ hook'[h].pc = "truncate" /\ hook'[h].todo = turns
           \/ hook'[h] = Deliver(hook[h].kind, turns)
    BY <1>2, <2>1, <2>2, ScanSteps
  <2>4. /\ hook'[h].pc \in {"truncate", "open", "enqueue", "done"}
        /\ hook'[h].pc # "truncate" => (hook'[h].pc = "done" <=> hook'[h].todo = <<>>)
    BY <2>3, DeliverTypes
  <2>5. queued' = queued
    BY <1>2 DEF Scan
  <2>. QED  BY <1>1, <2>3, <2>4, <2>5 DEF Types
<1>3. CASE EnqueueTurn(h) \/ EnqueueFails(h)
  <2>1. PICK s \in HookState :
           /\ Become(h, s) /\ s.pc \in {"open", "enqueue", "done"} /\ (s.pc = "done" <=> s.todo = <<>>)
           /\ \/ queued' = queued \cup {EventOf(Head(hook[h].todo), h)}
              \/ queued' = queued
    BY <1>3, EnqueueSteps
  <2>2. hook' \in [Hooks -> HookState] /\ hook'[h] = s /\ \A g \in Hooks \ {h} : hook'[g] = hook[g]
    BY <2>1, Becomes DEF Types
  <2>3. hook[h].todo \in Seq(Turn) /\ hook[h].todo # <<>>
    BY <1>3 DEF Types, HookState, Handing, EnqueueTurn, EnqueueFails
  <2>4. Head(hook[h].todo) \in Turn
    BY <2>3
  <2>5. EventOf(Head(hook[h].todo), h) \in TurnEvent
    BY <2>4, EventOfTurn
  <2>6. queued' \subseteq TurnEvent
    BY <2>1, <2>5 DEF Types
  <2>. QED  BY <1>1, <2>1, <2>2, <2>6
<1>4. CASE ~(Scan(h) \/ EnqueueTurn(h) \/ EnqueueFails(h))
  <2>1. queued' = queued
    BY <1>4 DEF Acts, PostToolUse, Stop, EnqueueTool, TakeCursor, CursorUnread, ScanFails, TruncateCursor,
         WriteCursor, WriteFails, OpenQueue, Crash
  <2>2. PICK s \in HookState :
          /\ Become(h, s)
          /\ s.pc \in {"open", "enqueue"} => s.todo # <<>>
          /\ s.pc \in {"off", "tool", "cursor", "scan", "done"} => s.todo = <<>>
    <3>1. CASE PostToolUse(h) \/ Stop(h)
      BY <3>1, HookSteps
    <3>2. CASE EnqueueTool(h)
      <4>1. hook[h].todo = <<>>
        BY <3>2 DEF EnqueueTool, Handing
      <4>2. PICK s \in HookState : /\ Become(h, s) /\ s.pc \in {"cursor", "done"}
                                   /\ s.todo \in {<<>>, hook[h].todo}
        BY <3>2, HookSteps
      <4>. QED  BY <4>1, <4>2
    <3>3. CASE TakeCursor(h) \/ CursorUnread(h)
      <4>1. hook[h].todo = <<>>
        BY <3>3 DEF TakeCursor, CursorUnread, Handing
      <4>2. PICK s \in HookState : Become(h, s) /\ s.pc = "scan" /\ s.todo = hook[h].todo
        BY <3>3, HookSteps
      <4>. QED  BY <4>1, <4>2
    <3>4. CASE TruncateCursor(h)
      <4>1. PICK s \in HookState : Become(h, s) /\ s.pc = "write"
        BY <3>4, HookSteps
      <4>. QED  BY <4>1
    <3>5. CASE WriteCursor(h) \/ WriteFails(h)
      <4>1. PICK s \in HookState : /\ Become(h, s) /\ s.pc \in {"open", "enqueue", "done"}
                                   /\ (s.pc = "done" <=> s.todo = <<>>)
        BY <3>5, HookSteps
      <4>. QED  BY <4>1
    <3>6. CASE ScanFails(h) \/ Crash(h)
      <4>1. PICK s \in HookState : Become(h, s) /\ s.pc = "done" /\ s.todo = <<>>
        BY <3>6, HookSteps
      <4>. QED  BY <4>1
    <3>7. CASE OpenQueue(h)
      <4>1. hook[h].todo # <<>>
        BY <3>7 DEF OpenQueue, Handing
      <4>2. PICK s \in HookState :
              /\ Become(h, s)
              /\ \/ s.pc = "enqueue" /\ s.todo = hook[h].todo
                 \/ s.pc = "done" /\ s.todo = <<>>
        BY <3>7, HookSteps
      <4>. QED  BY <4>1, <4>2
    <3>. QED  BY <1>4, <3>1, <3>2, <3>3, <3>4, <3>5, <3>6, <3>7 DEF Acts
  <2>3. hook' \in [Hooks -> HookState] /\ hook'[h] = s /\ \A g \in Hooks \ {h} : hook'[g] = hook[g]
    BY <2>2, Becomes DEF Types
  <2>. QED  BY <1>1, <2>1, <2>2, <2>3 DEF Types
<1>. QED  BY <1>2, <1>3, <1>4

\* Which step of a hook leads where.
LEMMA HookPcs ==
  ASSUME Types, Handing, NEW h \in Hooks, Acts(h)
  PROVE  /\ hook'[h].pc = "scan" => TakeCursor(h) \/ CursorUnread(h)
         /\ hook'[h].pc = "truncate" => Scan(h)
         /\ hook'[h].pc = "write" => TruncateCursor(h)
<1>1. CASE Scan(h)
  <2>1. PICK turns : turns = ScanFrom(hook[h].start).turns
    OBVIOUS
  <2>2. turns \in Seq(Turn) /\ (hook'[h].pc = "truncate" \/ hook'[h] = Deliver(hook[h].kind, turns))
    BY <1>1, <2>1, ScanSteps
  <2>3. hook'[h].pc \in {"truncate", "open", "enqueue", "done"}
    BY <2>2, DeliverTypes
  <2>. QED  BY <1>1, <2>3
<1>2. CASE EnqueueTurn(h) \/ EnqueueFails(h)
  <2>1. PICK s \in HookState : Become(h, s) /\ s.pc \in {"open", "enqueue", "done"}
    BY <1>2, EnqueueSteps
  <2>2. hook'[h] = s
    BY <2>1, Becomes DEF Types
  <2>. QED  BY <2>1, <2>2
<1>3. CASE ~(Scan(h) \/ EnqueueTurn(h) \/ EnqueueFails(h))
  <2>1. \E s \in HookState : /\ Become(h, s)
                             /\ s.pc = "scan" => TakeCursor(h) \/ CursorUnread(h)
                             /\ s.pc = "truncate" => Scan(h)
                             /\ s.pc = "write" => TruncateCursor(h)
    <3>1. CASE PostToolUse(h) \/ Stop(h)
      BY <3>1, HookSteps
    <3>2. CASE EnqueueTool(h)
      <4>1. PICK s \in HookState : Become(h, s) /\ s.pc \in {"cursor", "done"}
        BY <3>2, HookSteps
      <4>. QED  BY <4>1
    <3>3. CASE TakeCursor(h) \/ CursorUnread(h)
      <4>1. PICK s \in HookState : Become(h, s) /\ s.pc = "scan"
        BY <3>3, HookSteps
      <4>. QED  BY <3>3, <4>1
    <3>4. CASE TruncateCursor(h)
      <4>1. PICK s \in HookState : Become(h, s) /\ s.pc = "write"
        BY <3>4, HookSteps
      <4>. QED  BY <3>4, <4>1
    <3>5. CASE WriteCursor(h) \/ WriteFails(h)
      <4>1. PICK s \in HookState : Become(h, s) /\ s.pc \in {"open", "enqueue", "done"}
        BY <3>5, HookSteps
      <4>. QED  BY <4>1
    <3>6. CASE ScanFails(h) \/ Crash(h)
      <4>1. PICK s \in HookState : Become(h, s) /\ s.pc = "done"
        BY <3>6, HookSteps
      <4>. QED  BY <4>1
    <3>7. CASE OpenQueue(h)
      <4>1. PICK s \in HookState : Become(h, s) /\ s.pc \in {"enqueue", "done"}
        BY <3>7, HookSteps
      <4>. QED  BY <4>1
    <3>. QED  BY <1>3, <3>1, <3>2, <3>3, <3>4, <3>5, <3>6, <3>7 DEF Acts
  <2>2. PICK s \in HookState : /\ Become(h, s)
                               /\ s.pc = "scan" => TakeCursor(h) \/ CursorUnread(h)
                               /\ s.pc = "truncate" => Scan(h)
                               /\ s.pc = "write" => TruncateCursor(h)
    BY <2>1
  <2>3. hook'[h] = s
    BY <2>2, Becomes DEF Types
  <2>. QED  BY <2>2, <2>3
<1>. QED  BY <1>1, <1>2, <1>3

LEMMA ActCursor ==
  ASSUME Types, NEW h \in Hooks, Acts(h)
  PROVE  /\ cursor' \in {cursor, Torn} \/ (hook[h].pc = "write" /\ cursor' = hook[h].end)
         /\ cursor' = Torn \/ cursor' \in File
<1>1. cursor' \in {cursor, Torn} \/ (hook[h].pc = "write" /\ cursor' = hook[h].end)
  <2>1. CASE WriteCursor(h)
    BY <2>1 DEF WriteCursor
  <2>2. CASE TruncateCursor(h)
    BY <2>2 DEF TruncateCursor
  <2>3. CASE ~(WriteCursor(h) \/ TruncateCursor(h))
    <3>1. cursor' = cursor
      BY <2>3 DEF Acts, PostToolUse, Stop, EnqueueTool, TakeCursor, CursorUnread, Scan, ScanFails,
                  WriteFails, OpenQueue, EnqueueTurn, EnqueueFails, Crash
    <3>. QED  BY <3>1
  <2>. QED  BY <2>1, <2>2, <2>3
<1>2. hook[h].end \in File
  BY DEF Types, HookState
<1>. QED  BY <1>1, <1>2 DEF Types

LEMMA NextCases ==
  ASSUME [Next]_vars
  PROVE  \/ NewTurn \/ OtherLine \/ SameMessage
         \/ Rotate
         \/ \E h \in Hooks : Acts(h)
         \/ UNCHANGED vars
BY DEF Next, Acts

LEMMA NextTypes ==
  ASSUME Types, Handing, [Next]_vars
  PROVE  Types' /\ Handing'
<1>1. CASE NewTurn \/ OtherLine \/ SameMessage
  <2>1. PICK line \in Line : AppendLine(line)
    BY <1>1, AppendTypes
  <2>2. transcript' \in Seq(Line) /\ written' \in 0 .. MaxLines
    BY <2>1, ClaudeConstantsOK DEF AppendLine, Types
  <2>3. UNCHANGED <<gen, cursor, hook, queued>>
    BY <2>1 DEF AppendLine
  <2>. QED  BY <2>2, <2>3 DEF Types, Handing
<1>2. CASE Rotate
  BY <1>2, ClaudeConstantsOK DEF Rotate, Types, Handing
<1>3. ASSUME NEW h \in Hooks, Acts(h) PROVE Types' /\ Handing'
  <2>1. hook' \in [Hooks -> HookState] /\ queued' \subseteq TurnEvent
        /\ UNCHANGED <<transcript, written, gen>>
    BY <1>3, ActTypes
  <2>2. cursor' = Torn \/ cursor' \in File
    BY <1>3, ActCursor
  <2>3. Types'
    BY <2>1, <2>2 DEF Types
  <2>4. Handing'
    BY <1>3, ActTypes DEF Handing
  <2>. QED  BY <2>3, <2>4
<1>4. CASE UNCHANGED vars
  BY <1>4 DEF vars, Types, Handing
<1>. QED  BY <1>1, <1>2, <1>3, <1>4, NextCases

LEMMA InitHanding == Init => Handing
BY DEF Init, Handing, NotStarted

\* The variables stay in their types, whatever the constants are: in
\* particular no cursor file ever holds more than MaxSeen keys.
THEOREM TypeCorrect == Spec => []TypeOK
<1>1. Init => Types /\ Handing
  BY InitTypes, InitHanding
<1>2. Types /\ Handing /\ [Next]_vars => Types' /\ Handing'
  BY NextTypes
<1>3. Types => TypeOK
  BY TypesImplyTypeOK
<1>. QED  BY <1>1, <1>2, <1>3, PTL DEF Spec
(***************************************************************************)
(* No turn is passed over                                                  *)
(***************************************************************************)

\* The turns a hook has found and reported in the cursor, or need not.
InHand(h) == IF Scanning(h) THEN {} ELSE ToSet(hook[h].todo)
Noted == queued \cup dropped \cup UNION {InHand(h) : h \in Hooks}

SameFinding(e, f) == f.gen = e.gen /\ f.at = e.at /\ f.key = e.key
Keeps(E, F) == \A e \in E : \E f \in F : SameFinding(e, f)

\* Every turn behind the cursor c, and every message it has the key of, is in E.
Covered(c, E) ==
  /\ c.gen =< gen /\ (c.gen = gen => c.offset =< Len(transcript))
  /\ \A i \in Turns : c.gen = gen /\ i =< c.offset => \E ev \in E : SameTurn(ev, i)
  /\ \A k \in ToSet(c.seen) : k # 0 => \E ev \in E : ev.key = k

\* The inductive invariant: the cursor in the file, and those the hooks have
\* read and are going to write, cover only what is noted - the last together
\* with what their hooks have just found.
Passed ==
  /\ cursor # Torn => Covered(cursor, Noted)
  /\ \A h \in Hooks :
       /\ hook[h].pc = "scan" => Covered(hook[h].start, Noted)
       /\ hook[h].pc \in {"truncate", "write"} =>
            Covered(hook[h].end, Noted \cup ToSet(hook[h].todo))
PassedInv == "unnoticed" \in mishaps \/ Passed

LEMMA KeepsByHook ==
  ASSUME NEW h \in Hooks, \A g \in Hooks \ {h} : hook'[g] = hook[g],
         queued \subseteq queued', dropped \subseteq dropped',
         \A e \in InHand(h) : \E f \in queued' \cup dropped' \cup InHand(h)' : SameFinding(e, f)
  PROVE  Keeps(Noted, Noted')
<1>1. ASSUME NEW e \in Noted PROVE \E f \in Noted' : SameFinding(e, f)
  <2>1. CASE e \in queued \cup dropped
    BY <2>1 DEF Noted, SameFinding
  <2>2. CASE e \in InHand(h)
    BY <2>2 DEF Noted
  <2>3. ASSUME NEW g \in Hooks \ {h}, e \in InHand(g) PROVE e \in Noted'
    <3>1. InHand(g)' = InHand(g)
      BY DEF InHand, Scanning
    <3>. QED  BY <2>3, <3>1 DEF Noted
  <2>. QED  BY <2>1, <2>2, <2>3 DEF Noted, SameFinding
<1>. QED  BY <1>1 DEF Keeps

LEMMA KeepsSubset ==
  ASSUME NEW E, NEW F, E \subseteq F PROVE Keeps(E, F)
BY DEF Keeps, SameFinding

\* A hook loses sight of no turn it has noted.
LEMMA NotedKept ==
  ASSUME Types, Handing, NEW h \in Hooks, Acts(h)
  PROVE  Keeps(Noted, Noted')
<1>1. /\ hook' \in [Hooks -> HookState] /\ hook[h] \in HookState
      /\ \A g \in Hooks \ {h} : hook'[g] = hook[g]
  BY ActTypes DEF Types
<1>2. queued \subseteq queued' /\ dropped \subseteq dropped'
  BY DEF Acts, PostToolUse, Stop, EnqueueTool, TakeCursor, CursorUnread, Scan, ScanFails, TruncateCursor,
         WriteCursor, WriteFails, OpenQueue, EnqueueTurn, EnqueueFails, Crash
<1>3. ASSUME NEW e \in InHand(h) PROVE \E f \in queued' \cup dropped' \cup InHand(h)' : SameFinding(e, f)
  <2>1. ~Scanning(h) /\ e \in ToSet(hook[h].todo) /\ hook[h].todo # <<>>
    BY <1>3 DEF InHand, ToSet
  <2>2. hook[h].pc \in {"open", "enqueue"}
    BY <1>1, <2>1 DEF Handing, HookState, Scanning
  <2>3. CASE OpenQueue(h)
    <3>1. PICK s \in HookState :
            /\ Become(h, s)
            /\ \/ s.pc = "enqueue" /\ s.todo = hook[h].todo
               \/ dropped' = dropped \cup ToSet(hook[h].todo)
      BY <2>3, HookSteps
    <3>2. hook'[h] = s
      BY <3>1, Becomes DEF Types
    <3>3. s.pc = "enqueue" /\ s.todo = hook[h].todo => e \in InHand(h)'
      BY <2>1, <3>2 DEF InHand, Scanning
    <3>. QED  BY <2>1, <3>1, <3>3 DEF SameFinding
  <2>4. CASE EnqueueTurn(h) \/ EnqueueFails(h)
    <3>1. PICK head : head = Head(hook[h].todo)
      OBVIOUS
    <3>2. PICK s \in HookState :
            /\ Become(h, s) /\ s.pc \in {"open", "enqueue", "done"}
            /\ \/ /\ queued' = queued \cup {EventOf(head, h)}
                  /\ ToSet(hook[h].todo) = {head} \cup ToSet(s.todo)
               \/ ToSet(hook[h].todo) \subseteq dropped' \cup ToSet(s.todo)
      BY <2>4, <3>1, EnqueueSteps
    <3>3. hook'[h] = s
      BY <3>2, Becomes DEF Types
    <3>4. InHand(h)' = ToSet(s.todo)
      BY <3>2, <3>3 DEF InHand, Scanning
    <3>5. head \in Turn
      <4>1. hook[h].todo \in Seq(Turn) /\ hook[h].todo # <<>>
        BY <1>1, <2>1 DEF HookState
      <4>. QED  BY <3>1, <4>1
    <3>6. PICK ev : ev = EventOf(head, h)
      OBVIOUS
    <3>7. SameFinding(head, ev)
      BY <3>5, <3>6, EventOfTurn DEF SameFinding
    <3>. QED  BY <2>1, <3>2, <3>4, <3>6, <3>7 DEF SameFinding
  <2>5. CASE Crash(h)
    <3>1. dropped' = dropped \cup ToSet(hook[h].todo)
      BY <2>1, <2>5 DEF Crash
    <3>. QED  BY <2>1, <3>1 DEF SameFinding
  <2>. QED
    BY <2>2, <2>3, <2>4, <2>5
    DEF Acts, PostToolUse, Stop, EnqueueTool, TakeCursor, CursorUnread, Scan, ScanFails, TruncateCursor,
        WriteCursor, WriteFails
<1>. QED  BY <1>1, <1>2, <1>3, KeepsByHook

\* A cursor stays covered while findings are kept, lines are appended, and
\* when the transcript is replaced.
LEMMA CoveredKept ==
  ASSUME NEW c \in File, NEW E, NEW F, Keeps(E, F), Covered(c, E), Types,
         \/ UNCHANGED <<transcript, gen>>
         \/ \E line \in Line : transcript' = Append(transcript, line) /\ gen' = gen
         \/ transcript' = <<>> /\ gen' = gen + 1
  PROVE  Covered(c, F)'
<1>1. c.offset \in Nat /\ c.gen \in Nat /\ gen \in Nat /\ transcript \in Seq(Line)
  BY ClaudeConstantsOK DEF File, Types
<1>2. \A k \in ToSet(c.seen) : k # 0 => \E ev \in F : ev.key = k
  BY DEF Covered, Keeps, SameFinding
<1>3. CASE UNCHANGED <<transcript, gen>>
  <2>1. \A i \in Turns : c.gen = gen /\ i =< c.offset => \E ev \in F : SameTurn(ev, i)
    BY DEF Covered, Keeps, SameFinding, SameTurn
  <2>. QED  BY <1>2, <1>3, <2>1 DEF Covered, Turns, SameTurn
<1>4. ASSUME NEW line \in Line, transcript' = Append(transcript, line), gen' = gen
      PROVE  Covered(c, F)'
  <2>1. /\ DOMAIN transcript' = 1 .. (Len(transcript) + 1) /\ DOMAIN transcript = 1 .. Len(transcript)
        /\ Len(transcript') = Len(transcript) + 1 /\ Len(transcript) \in Nat
        /\ \A i \in DOMAIN transcript : transcript'[i] = transcript[i]
    BY <1>1, <1>4
  <2>2. ASSUME NEW i \in Turns', c.gen = gen', i =< c.offset PROVE \E ev \in F : SameTurn(ev, i)'
    <3>1. i \in DOMAIN transcript /\ i \in Turns /\ transcript'[i] = transcript[i]
      <4>1. i \in 1 .. (Len(transcript) + 1) /\ transcript'[i].turn
        BY <2>1, <2>2 DEF Turns
      <4>2. c.offset =< Len(transcript)
        BY <1>4, <2>2 DEF Covered
      <4>3. i \in 1 .. Len(transcript)
        BY <1>1, <2>1, <2>2, <4>1, <4>2
      <4>. QED  BY <2>1, <4>1, <4>3 DEF Turns
    <3>2. PICK e \in E : SameTurn(e, i)
      BY <1>4, <2>2, <3>1 DEF Covered
    <3>3. PICK f \in F : SameFinding(e, f)
      BY DEF Keeps
    <3>. QED  BY <1>4, <3>1, <3>2, <3>3 DEF SameTurn, SameFinding
  <2>3. \A i \in Turns' : c.gen = gen' /\ i =< c.offset => \E ev \in F : SameTurn(ev, i)'
    BY <2>2
  <2>4. c.gen =< gen' /\ (c.gen = gen' => c.offset =< Len(transcript'))
    <3>1. c.gen =< gen /\ (c.gen = gen => c.offset =< Len(transcript))
      BY DEF Covered
    <3>2. c.offset =< Len(transcript) => c.offset =< Len(transcript')
      BY <1>1, <2>1
    <3>. QED  BY <1>4, <3>1, <3>2
  <2>. HIDE DEF Turns
  <2>. QED  BY <1>2, <2>3, <2>4 DEF Covered
<1>5. CASE transcript' = <<>> /\ gen' = gen + 1
  BY <1>1, <1>2, <1>5 DEF Covered
<1>. QED  BY <1>3, <1>4, <1>5

\* The scan of a hook whose cursor was covered covers all lines.
LEMMA ScanCovers ==
  ASSUME Types, NEW start \in File, NEW E, Covered(start, E),
         ~(start.offset \in 1 .. Len(transcript) /\ start.gen # gen)
  PROVE  Covered(ScanEnd(start), E \cup ToSet(ScanFrom(start).turns))
<1>1. gen \in Nat /\ transcript \in Seq(Line) /\ Len(transcript) \in Nat /\ start.offset \in Nat
  BY ClaudeConstantsOK DEF Types, File
<1>2. PICK from : from = From(start)
  OBVIOUS
<1>3. PICK st : st = ScanFrom(start)
  OBVIOUS
<1>4. from \in File /\ from.offset =< Len(transcript) /\ st \in ScanState /\ st.at = Len(transcript)
      /\ Complete(from, st)
  BY <1>1, <1>2, <1>3, ScanFinds
<1>5. PICK end : end = ScanEnd(start)
  OBVIOUS
<1>6. end.offset = Len(transcript) /\ end.gen = gen /\ end.seen = st.seen
  BY <1>3, <1>4, <1>5 DEF ScanEnd
<1>7. PICK F : F = E \cup ToSet(st.turns)
  OBVIOUS
<1>8. from = start \/ from = Zero
  BY <1>2 DEF From
<1>9. \A k \in ToSet(from.seen) : k # 0 => \E ev \in F : ev.key = k
  <2>1. CASE from = start
    BY <1>7, <2>1 DEF Covered
  <2>2. CASE from = Zero
    BY <2>2 DEF Zero, ToSet
  <2>. QED  BY <1>8, <2>1, <2>2
<1>10. ASSUME NEW i \in Turns PROVE \E ev \in F : SameTurn(ev, i)
  <2>1. i \in 1 .. Len(transcript) /\ transcript[i].turn
    BY <1>1 DEF Turns
  <2>2. CASE i > from.offset
    <3>1. i \in (from.offset + 1) .. st.at
      BY <1>4, <2>1, <2>2 DEF File
    <3>2. Found(from, st, i)
      BY <1>4, <2>1, <3>1 DEF Complete
    <3>3. CASE \E t \in ToSet(st.turns) : SameTurn(t, i)
      BY <1>7, <3>3
    <3>4. CASE transcript[i].key # 0 /\ transcript[i].key \in ToSet(from.seen)
      <4>1. PICK ev \in F : ev.key = transcript[i].key
        BY <1>9, <3>4
      <4>. QED  BY <3>4, <4>1 DEF SameTurn
    <3>. QED  BY <3>2, <3>3, <3>4 DEF Found
  <2>3. CASE i =< from.offset
    <3>1. from # Zero /\ from = start
      BY <1>8, <2>1, <2>3 DEF Zero
    <3>2. start.gen = gen
      BY <1>1, <1>4, <2>1, <2>3, <3>1
    <3>. QED  BY <1>7, <2>3, <3>1, <3>2 DEF Covered
  <2>. QED  BY <1>4, <2>1, <2>2, <2>3 DEF File
<1>11. ASSUME NEW k \in ToSet(st.seen), k # 0 PROVE \E ev \in F : ev.key = k
  <2>1. k \in st.known
    BY <1>4 DEF Complete
  <2>2. k \in ToSet(from.seen) \/ \E t \in ToSet(st.turns) : t.key = k
    BY <1>4, <1>11, <2>1 DEF Complete
  <2>. QED  BY <1>7, <1>9, <1>11, <2>2
<1>12. Covered(end, F)
  BY <1>1, <1>6, <1>10, <1>11 DEF Covered
<1>. QED  BY <1>3, <1>5, <1>7, <1>12

LEMMA CoveredMore ==
  ASSUME NEW c, NEW E, NEW F, Covered(c, E), E \subseteq F PROVE Covered(c, F)
BY DEF Covered

LEMMA ZeroCovered ==
  ASSUME Types
  PROVE  Zero \in File /\ Covered(Zero, Noted)
<1>1. gen \in Nat /\ transcript \in Seq(Line) /\ Len(transcript) \in Nat
  BY ClaudeConstantsOK DEF Types
<1>2. \A i \in Turns : ~(i =< 0)
  BY <1>1 DEF Turns
<1>3. Zero.gen = 0 /\ Zero.offset = 0 /\ ToSet(Zero.seen) = {}
  BY DEF Zero, ToSet
<1>4. Covered(Zero, Noted)
  BY <1>1, <1>2, <1>3 DEF Covered
<1>. QED  BY <1>4, ZeroIsFile

\* What a hook reads covers no more than is noted, whether it can read or not.
LEMMA ReadCovered ==
  ASSUME Types, Passed
  PROVE  ReadCursor \in File /\ Covered(ReadCursor, Noted)
<1>1. CASE cursor = Torn
  BY <1>1, ZeroCovered DEF ReadCursor
<1>2. CASE cursor # Torn
  BY <1>2 DEF ReadCursor, Passed, Types
<1>. QED  BY <1>1, <1>2

LEMMA CoveredWith ==
  ASSUME NEW c \in File, NEW E, NEW X, Keeps(E, Noted'), Covered(c, E \cup X), Types,
         UNCHANGED <<transcript, gen>>
  PROVE  \A F : F = Noted' \cup X => Covered(c, F)'
<1>1. TAKE F
<1>2. HAVE F = Noted' \cup X
<1>3. Keeps(E \cup X, F)
  BY <1>2 DEF Keeps, SameFinding
<1>. QED  BY <1>3, CoveredKept

LEMMA PassedByHook ==
  ASSUME Types, Handing, Passed, NEW h \in Hooks, Acts(h), "unnoticed" \notin mishaps'
  PROVE  Passed'
<1>1. /\ hook' \in [Hooks -> HookState] /\ hook[h] \in HookState
      /\ \A g \in Hooks \ {h} : hook'[g] = hook[g]
      /\ UNCHANGED <<transcript, gen>>
  BY ActTypes DEF Types
<1>2. Keeps(Noted, Noted')
  BY NotedKept
<1>3. PICK noted : noted = Noted'
  OBVIOUS
<1>4. ASSUME NEW c \in File, Covered(c, Noted) PROVE Covered(c, noted)'
  BY <1>1, <1>2, <1>3, <1>4, CoveredKept
<1>5. ASSUME cursor' # Torn PROVE Covered(cursor, Noted)'
  <2>1. PICK c : c = cursor'
    OBVIOUS
  <2>2. CASE cursor' = cursor
    <3>1. c \in File /\ Covered(c, Noted)
      BY <1>5, <2>1, <2>2 DEF Types, Passed
    <3>2. Covered(c, noted)'
      BY <1>4, <3>1
    <3>. QED  BY <1>3, <2>1, <3>2
  <2>3. CASE cursor' # cursor
    <3>1. WriteCursor(h)
      BY <1>5, <2>3 DEF Acts, PostToolUse, Stop, EnqueueTool, TakeCursor, CursorUnread, Scan, ScanFails,
           TruncateCursor, WriteFails, OpenQueue, EnqueueTurn, EnqueueFails, Crash
    <3>2. PICK todo : todo = hook[h].todo
      OBVIOUS
    <3>3. c \in File /\ Covered(c, Noted \cup ToSet(todo))
      BY <1>1, <2>1, <3>1, <3>2 DEF WriteCursor, Passed, HookState
    <3>4. PICK s \in HookState : /\ Become(h, s) /\ s.pc \in {"open", "enqueue", "done"}
                                 /\ s.todo = todo
      BY <3>1, <3>2, HookSteps
    <3>5. hook'[h] = s
      BY <3>4, Becomes DEF Types
    <3>6. ToSet(todo) \subseteq noted
      BY <1>3, <3>4, <3>5 DEF Noted, InHand, Scanning
    <3>7. Keeps(Noted \cup ToSet(todo), noted)
      BY <1>2, <1>3, <3>6 DEF Keeps, SameFinding
    <3>8. Covered(c, noted)'
      BY <1>1, <3>3, <3>7, CoveredKept
    <3>. QED  BY <1>3, <2>1, <3>8
  <2>. QED  BY <2>2, <2>3
<1>6. ASSUME NEW g \in Hooks, hook'[g].pc = "scan" PROVE Covered(hook[g].start, Noted)'
  <2>1. PICK c : c = hook'[g].start
    OBVIOUS
  <2>2. c \in File /\ Covered(c, Noted)
    <3>1. CASE hook'[g] = hook[g]
      BY <1>1, <1>6, <2>1, <3>1 DEF Passed, HookState
    <3>2. CASE hook'[g] # hook[g]
      <4>1. g = h /\ (TakeCursor(h) \/ CursorUnread(h))
        <5>1. g = h
          BY <1>1, <3>2
        <5>2. TakeCursor(h) \/ CursorUnread(h)
          BY <1>6, <5>1, HookPcs
        <5>. QED  BY <5>1, <5>2
      <4>2. PICK s \in HookState : Become(h, s) /\ s.start \in {ReadCursor, Zero}
        BY <4>1, HookSteps
      <4>3. hook'[h] = s
        BY <4>2, Becomes DEF Types
      <4>. QED  BY <2>1, <4>1, <4>2, <4>3, ReadCovered, ZeroCovered
    <3>. QED  BY <3>1, <3>2
  <2>3. Covered(c, noted)'
    BY <1>4, <2>2
  <2>. QED  BY <1>3, <2>1, <2>3
<1>7. ASSUME NEW g \in Hooks, hook'[g].pc \in {"truncate", "write"}
      PROVE  Covered(hook[g].end, Noted \cup ToSet(hook[g].todo))'
  <2>1. PICK c : c = hook'[g].end
    OBVIOUS
  <2>2. PICK todo : todo = hook'[g].todo
    OBVIOUS
  <2>3. c \in File /\ Covered(c, Noted \cup ToSet(todo))
    <3>1. CASE hook'[g] = hook[g]
      BY <1>1, <1>7, <2>1, <2>2, <3>1 DEF Passed, HookState
    <3>2. CASE hook'[g] # hook[g] /\ Scan(h)
      <4>1. g = h
        BY <1>1, <3>2
      <4>2. PICK start \in File : start = hook[h].start
        BY <1>1 DEF HookState
      <4>3. Covered(start, Noted)
        BY <3>2, <4>2 DEF Scan, Passed
      <4>4. ~(start.offset \in 1 .. Len(transcript) /\ start.gen # gen)
        BY <3>2, <4>2 DEF Scan
      <4>5. Covered(ScanEnd(start), Noted \cup ToSet(ScanFrom(start).turns))
        BY <4>3, <4>4, ScanCovers
      <4>6. /\ hook'[h].end = ScanEnd(start) /\ ScanEnd(start) \in File
            /\ hook'[h].todo = ScanFrom(start).turns
        <5>1. \/ /\ hook'[h].end = ScanEnd(start) /\ hook'[h].todo = ScanFrom(start).turns
                 /\ ScanEnd(start) \in File
              \/ \E turns \in Seq(Turn) : hook'[h] = Deliver(hook[h].kind, turns)
          BY <3>2, <4>2, ScanSteps
        <5>2. \A turns \in Seq(Turn) : hook'[h] # Deliver(hook[h].kind, turns)
          BY <1>7, <4>1, DeliverTypes
        <5>. QED  BY <5>1, <5>2
      <4>. QED  BY <2>1, <2>2, <4>1, <4>5, <4>6
    <3>3. CASE hook'[g] # hook[g] /\ ~Scan(h)
      <4>1. g = h
        BY <1>1, <3>3
      <4>2. TruncateCursor(h)
        BY <1>7, <3>3, <4>1, HookPcs
      <4>3. PICK s \in HookState : Become(h, s) /\ s.end = hook[h].end /\ s.todo = hook[h].todo
        BY <4>2, HookSteps
      <4>4. hook'[h] = s
        BY <4>3, Becomes DEF Types
      <4>5. Covered(hook[h].end, Noted \cup ToSet(hook[h].todo)) /\ hook[h].end \in File
        BY <1>1, <4>2 DEF TruncateCursor, Passed, HookState
      <4>. QED  BY <2>1, <2>2, <4>1, <4>3, <4>4, <4>5
    <3>. QED  BY <3>1, <3>2, <3>3
  <2>4. PICK whole : whole = Noted' \cup ToSet(todo)
    OBVIOUS
  <2>5. Covered(c, whole)'
    <3>1. PICK X : X = ToSet(todo)
      OBVIOUS
    <3>2. PICK E : E = Noted
      OBVIOUS
    <3>. QED  BY <1>1, <1>2, <2>3, <2>4, <3>1, <3>2, CoveredWith
  <2>6. whole = (Noted \cup ToSet(hook[g].todo))'
    BY <2>2, <2>4
  <2>. QED  BY <2>1, <2>5, <2>6
<1>. QED  BY <1>5, <1>6, <1>7 DEF Passed

LEMMA PassedByWriter ==
  ASSUME Types, Passed, \/ \E line \in Line : AppendLine(line)
                        \/ Rotate
  PROVE  Passed'
<1>1. UNCHANGED <<cursor, hook, queued, dropped>>
  BY DEF AppendLine, Rotate
<1>2. \/ \E line \in Line : transcript' = Append(transcript, line) /\ gen' = gen
      \/ transcript' = <<>> /\ gen' = gen + 1
  BY DEF AppendLine, Rotate
<1>3. Noted' = Noted
  BY <1>1 DEF Noted, InHand, Scanning
<1>4. ASSUME NEW c \in File, NEW E, Covered(c, E) PROVE Covered(c, E)'
  <2>1. Keeps(E, E)
    BY KeepsSubset
  <2>. QED  BY <1>2, <1>4, <2>1, CoveredKept
<1>5. PICK noted : noted = Noted
  OBVIOUS
<1>6. ASSUME cursor' # Torn PROVE Covered(cursor, Noted)'
  <2>1. PICK c : c = cursor
    OBVIOUS
  <2>2. c \in File /\ Covered(c, noted)
    BY <1>1, <1>5, <1>6, <2>1 DEF Types, Passed
  <2>3. Covered(c, noted)'
    BY <1>4, <2>2
  <2>. QED  BY <1>1, <1>3, <1>5, <2>1, <2>3
<1>7. ASSUME NEW h \in Hooks, hook'[h].pc = "scan" PROVE Covered(hook[h].start, Noted)'
  <2>1. PICK c : c = hook[h].start
    OBVIOUS
  <2>2. c \in File /\ Covered(c, noted)
    BY <1>1, <1>5, <1>7, <2>1 DEF Types, HookState, Passed
  <2>3. Covered(c, noted)'
    BY <1>4, <2>2
  <2>. QED  BY <1>1, <1>3, <1>5, <2>1, <2>3
<1>8. ASSUME NEW h \in Hooks, hook'[h].pc \in {"truncate", "write"}
      PROVE  Covered(hook[h].end, Noted \cup ToSet(hook[h].todo))'
  <2>1. PICK c : c = hook[h].end
    OBVIOUS
  <2>2. PICK whole : whole = Noted \cup ToSet(hook[h].todo)
    OBVIOUS
  <2>3. c \in File /\ Covered(c, whole)
    BY <1>1, <1>8, <2>1, <2>2 DEF Types, HookState, Passed
  <2>4. Covered(c, whole)'
    BY <1>4, <2>3
  <2>5. whole = (Noted \cup ToSet(hook[h].todo))'
    BY <1>1, <1>3, <2>2
  <2>. QED  BY <1>1, <2>1, <2>4, <2>5
<1>. QED  BY <1>6, <1>7, <1>8 DEF Passed

\* A mishap is not forgotten.
LEMMA MishapsKept ==
  ASSUME [Next]_vars
  PROVE  mishaps \subseteq mishaps'
<1>1. CASE NewTurn \/ OtherLine \/ SameMessage
  BY <1>1 DEF NewTurn, OtherLine, SameMessage, AppendLine
<1>2. CASE Rotate
  BY <1>2 DEF Rotate
<1>3. ASSUME NEW h \in Hooks, Acts(h) PROVE mishaps \subseteq mishaps'
  BY <1>3 DEF Acts, PostToolUse, Stop, EnqueueTool, TakeCursor, CursorUnread, Scan, ScanFails, TruncateCursor,
         WriteCursor, WriteFails, OpenQueue, EnqueueTurn, EnqueueFails, Crash
<1>4. CASE UNCHANGED vars
  BY <1>4 DEF vars
<1>. QED  BY <1>1, <1>2, <1>3, <1>4, NextCases

LEMMA NextPassed ==
  ASSUME Types, Handing, PassedInv, [Next]_vars
  PROVE  PassedInv'
<1>. SUFFICES ASSUME "unnoticed" \notin mishaps' PROVE Passed'
  BY DEF PassedInv
<1>1. Passed
  BY MishapsKept DEF PassedInv
<1>2. CASE NewTurn \/ OtherLine \/ SameMessage
  BY <1>1, <1>2, AppendTypes, PassedByWriter
<1>3. CASE Rotate
  BY <1>1, <1>3, PassedByWriter
<1>4. ASSUME NEW h \in Hooks, Acts(h) PROVE Passed'
  BY <1>1, <1>4, PassedByHook
<1>5. CASE UNCHANGED vars
  BY <1>1, <1>5 DEF vars, Passed, Covered, Noted, InHand, Scanning, Turns, SameTurn
<1>. QED  BY <1>2, <1>3, <1>4, <1>5, NextCases

LEMMA InitPassed == Init => PassedInv
BY DEF Init, PassedInv, Passed, NotStarted

\* However the hooks of a session overlap, fail and crash, no turn behind the
\* cursor is one that no hook ever had: unless a transcript was replaced and
\* grew past the old cursor before the next scan.
THEOREM NothingPassedOverTheorem == Spec => []NothingPassedOver
<1>1. Init => Types /\ Handing /\ PassedInv
  BY InitTypes, InitHanding, InitPassed
<1>2. Types /\ Handing /\ PassedInv /\ [Next]_vars => (Types /\ Handing /\ PassedInv)'
  BY NextTypes, NextPassed
<1>3. Types /\ PassedInv => NothingPassedOver
  <2>. SUFFICES ASSUME Types, Passed, NEW i \in Behind
                PROVE  \E ev \in queued \cup dropped \cup UNION {ToSet(hook[h].todo) : h \in Hooks} :
                         SameTurn(ev, i)
    BY DEF PassedInv, NothingPassedOver
  <2>1. PICK ev \in Noted : SameTurn(ev, i)
    BY DEF Behind, Passed, Covered
  <2>2. ASSUME NEW h \in Hooks, ev \in InHand(h) PROVE ev \in ToSet(hook[h].todo)
    BY <2>2 DEF InHand
  <2>. QED  BY <2>1, <2>2 DEF Noted
<1>. QED  BY <1>1, <1>2, <1>3, PTL DEF Spec

(***************************************************************************)
(* A message is billed once                                                *)
(***************************************************************************)

\* The turns that are in the queue or on the way there.
Settled == queued \cup UNION {InHand(h) : h \in Hooks}

\* The cursor c is of the transcript as it is, and behind it is all of E.
Past(c, ev) == ev.at =< c.offset /\ (ev.key # 0 => ev.key \in ToSet(c.seen))
Bounds(c, E) ==
  c.gen = 0 /\ c.offset =< Len(transcript) /\ KeysKnown(c) /\ \A ev \in E : Past(c, ev)

\* No event of s bills what another of s, or one of E, bills.
Parted(s, E) ==
  \A i \in DOMAIN s :
    (\A ev \in E : ~Clash(s[i], ev)) /\ (\A j \in DOMAIN s : i # j => ~Clash(s[i], s[j]))

\* The inductive invariant, as long as there is no mishap: at most one hook
\* is between reading and writing the cursor, and the cursor - that in the
\* file, unless a hook is writing it, or that in the hook - bounds every
\* event there is.
Alone ==
  /\ gen = 0
  /\ \A g, h \in Hooks : Scanning(g) /\ Scanning(h) => g = h
  /\ (\A h \in Hooks : hook[h].pc # "write") => Bounds(ReadCursor, Settled)
  /\ \A h \in Hooks :
       /\ hook[h].pc = "scan" => hook[h].start = ReadCursor
       /\ hook[h].pc \in {"truncate", "write"} =>
            Bounds(hook[h].end, Settled \cup ToSet(hook[h].todo))
       /\ Parted(hook[h].todo, queued)
       /\ \A g \in Hooks \ {h} : Parted(hook[h].todo, ToSet(hook[g].todo))
  /\ \A ev, other \in queued : ev # other => ~Clash(ev, other)
AloneInv == mishaps = {} => Alone

LEMMA BoundsKept ==
  ASSUME NEW c \in File, NEW E, NEW F, Keeps(F, E), Bounds(c, E), transcript \in Seq(Line),
         transcript' = transcript \/ \E line \in Line : transcript' = Append(transcript, line)
  PROVE  Bounds(c, F)'
<1>1. Len(transcript) \in Nat /\ Len(transcript') >= Len(transcript) /\ Len(transcript') \in Nat
  BY AppendProperties, LenProperties
<1>2. c.offset \in Nat /\ c.offset =< Len(transcript)
  BY DEF File, Bounds
<1>3. c.offset =< Len(transcript')
  BY <1>1, <1>2
<1>4. ASSUME NEW ev \in F PROVE Past(c, ev)
  BY DEF Keeps, SameFinding, Bounds, Past
<1>. QED  BY <1>3, <1>4 DEF Bounds, KeysKnown, Past

LEMMA PartedOfRest ==
  ASSUME NEW s \in Seq(Turn), NEW t \in Seq(Turn), NEW k \in Nat, Rest(t, s, k), NEW E, Parted(s, E)
  PROVE  /\ Parted(t, E) /\ ToSet(t) \subseteq ToSet(s)
         /\ k = 1 => Parted(t, E \cup {s[1]})
<1>1. DOMAIN t = 1 .. Len(t) /\ DOMAIN s = 1 .. Len(s) /\ Len(t) \in Nat /\ Len(s) \in Nat
  BY LenProperties
<1>2. ASSUME NEW i \in DOMAIN t PROVE i \in Nat \ {0} /\ i + k \in DOMAIN s /\ t[i] = s[i + k]
  BY <1>1 DEF Rest
<1>3. ASSUME NEW i \in DOMAIN t, NEW j \in DOMAIN t, i # j PROVE ~Clash(t[i], t[j])
  <2>1. i + k # j + k
    BY <1>2, <1>3
  <2>. QED  BY <1>2, <2>1 DEF Parted
<1>4. Parted(t, E)
  BY <1>2, <1>3 DEF Parted
<1>5. ToSet(t) \subseteq ToSet(s)
  BY <1>2 DEF ToSet
<1>6. ASSUME k = 1, NEW i \in DOMAIN t PROVE ~Clash(t[i], s[1])
  <2>1. i + k # 1 /\ 1 \in DOMAIN s
    BY <1>1, <1>2, <1>6 DEF Rest
  <2>. QED  BY <1>2, <2>1 DEF Parted
<1>7. k = 1 => Parted(t, E \cup {s[1]})
  BY <1>3, <1>4, <1>6 DEF Parted
<1>. QED  BY <1>4, <1>5, <1>7

LEMMA EmptyParted == ASSUME NEW E PROVE Parted(<<>>, E) /\ ToSet(<<>>) = {}
BY DEF Parted, ToSet

\* Only a sole scanning hook can change what the other hooks rely on.
LEMMA QuietStep ==
  ASSUME Types, Handing, Alone, NEW h \in Hooks, Acts(h),
         cursor' = cursor, ~Scanning(h)', hook[h].pc # "write",
         Keeps(Settled', Settled),
         \A g \in Hooks : /\ Parted(hook'[g].todo, queued')
                          /\ \A f \in Hooks \ {g} : Parted(hook'[g].todo, ToSet(hook'[f].todo)),
         \A ev, other \in queued' : ev # other => ~Clash(ev, other)
  PROVE  Alone'
<1>1. /\ hook' \in [Hooks -> HookState]
      /\ \A g \in Hooks \ {h} : hook'[g] = hook[g]
      /\ UNCHANGED <<transcript, gen>> /\ transcript \in Seq(Line)
  BY ActTypes DEF Types
<1>2. \A g \in Hooks : Scanning(g)' => g # h /\ Scanning(g) /\ hook'[g] = hook[g]
  BY <1>1 DEF Scanning
<1>3. ASSUME NEW c \in File, Bounds(c, Settled) PROVE \A F : F = Settled' => Bounds(c, F)'
  BY <1>1, <1>3, BoundsKept
<1>4. ASSUME \A g \in Hooks : hook'[g].pc # "write" PROVE Bounds(ReadCursor, Settled)'
  <2>1. PICK c : c = ReadCursor
    OBVIOUS
  <2>2. c \in File /\ c = ReadCursor'
    BY <2>1, ZeroIsFile DEF ReadCursor, Types
  <2>3. \A g \in Hooks : hook[g].pc # "write"
    BY <1>1, <1>4
  <2>4. Bounds(c, Settled)
    BY <2>1, <2>3 DEF Alone
  <2>5. PICK F : F = Settled'
    OBVIOUS
  <2>6. Bounds(c, F)'
    BY <1>3, <2>2, <2>4, <2>5
  <2>. QED  BY <2>2, <2>5, <2>6
<1>5. ASSUME NEW g \in Hooks, hook'[g].pc = "scan" PROVE hook'[g].start = ReadCursor'
  <2>1. hook'[g] = hook[g]
    BY <1>2, <1>5 DEF Scanning
  <2>. QED  BY <1>5, <2>1 DEF Alone, ReadCursor
<1>6. ASSUME NEW g \in Hooks, hook'[g].pc \in {"truncate", "write"}
      PROVE  Bounds(hook[g].end, Settled \cup ToSet(hook[g].todo))'
  <2>1. hook'[g] = hook[g]
    BY <1>2, <1>6 DEF Scanning
  <2>2. PICK c : c = hook[g].end
    OBVIOUS
  <2>3. PICK X : X = ToSet(hook[g].todo)
    OBVIOUS
  <2>4. PICK E : E = Settled \cup X
    OBVIOUS
  <2>5. PICK F : F = Settled' \cup X
    OBVIOUS
  <2>6. Keeps(F, E)
    BY <2>4, <2>5 DEF Keeps, SameFinding
  <2>7. Bounds(c, E) /\ c \in File
    BY <1>6, <2>1, <2>2, <2>3, <2>4 DEF Alone, Types, HookState
  <2>8. Bounds(c, F)'
    BY <1>1, <2>6, <2>7, BoundsKept
  <2>. QED  BY <2>1, <2>2, <2>3, <2>5, <2>8
<1>7. gen' = 0 /\ \A g, f \in Hooks : Scanning(g)' /\ Scanning(f)' => g = f
  BY <1>1, <1>2 DEF Alone
<1>. QED  BY <1>4, <1>5, <1>6, <1>7 DEF Alone

\* What a hook does with its turns once the cursor is out of its hands.
LEMMA AloneByEnqueue ==
  ASSUME Types, Handing, Alone, NEW h \in Hooks, EnqueueTurn(h) \/ EnqueueFails(h)
  PROVE  Alone'
<1>1. Acts(h) /\ hook[h] \in HookState /\ cursor' = cursor /\ hook[h].pc = "enqueue"
  BY DEF Acts, Types, EnqueueTurn, EnqueueFails
<1>2. PICK todo \in Seq(Turn) : todo = hook[h].todo
  BY <1>1 DEF HookState
<1>3. todo # <<>> /\ Head(todo) = todo[1] /\ todo[1] \in Turn /\ 1 \in DOMAIN todo /\ todo[1] \in ToSet(todo)
  <2>1. todo # <<>>
    BY <1>1, <1>2 DEF Handing
  <2>. QED  BY <2>1 DEF ToSet
<1>4. PICK head \in Turn : head = todo[1]
  BY <1>3
<1>5. PICK ev : ev = EventOf(head, h)
  OBVIOUS
<1>6. ev.at = head.at /\ ev.key = head.key /\ ev.gen = head.gen
  BY <1>5, EventOfTurn
<1>7. PICK s \in HookState :
        /\ Become(h, s) /\ s.pc \in {"open", "enqueue", "done"}
        /\ \E k \in Nat : Rest(s.todo, todo, k)
        /\ \/ queued' = queued \cup {ev} /\ Rest(s.todo, todo, 1)
           \/ queued' = queued
  BY <1>2, <1>3, <1>4, <1>5, EnqueueSteps
<1>8. hook'[h] = s /\ \A g \in Hooks \ {h} : hook'[g] = hook[g]
  BY <1>7, Becomes DEF Types
<1>9. PICK rest \in Seq(Turn) : rest = s.todo
  BY DEF HookState
<1>10. Parted(todo, queued) /\ \A g \in Hooks \ {h} : Parted(todo, ToSet(hook[g].todo))
  BY <1>2 DEF Alone
<1>11. PICK k \in Nat : Rest(rest, todo, k) /\ (queued' # queued => k = 1)
  BY <1>7, <1>9
<1>12. ASSUME NEW E, Parted(todo, E)
       PROVE  Parted(rest, E) /\ ToSet(rest) \subseteq ToSet(todo) /\ (k = 1 => Parted(rest, E \cup {head}))
  BY <1>4, <1>11, <1>12, PartedOfRest
<1>13. ToSet(rest) \subseteq ToSet(todo)
  BY <1>10, <1>12
<1>14. ~Scanning(h) /\ ~Scanning(h)' /\ InHand(h) = ToSet(todo) /\ InHand(h)' = ToSet(rest)
  BY <1>1, <1>2, <1>7, <1>8, <1>9 DEF Scanning, InHand
<1>15. \A g \in Hooks \ {h} : InHand(g)' = InHand(g)
  BY <1>8 DEF InHand, Scanning
<1>16. Keeps(Settled', Settled)
  <2>1. ASSUME NEW e \in Settled' PROVE \E f \in Settled : SameFinding(e, f)
    <3>1. CASE e \in queued
      BY <3>1 DEF Settled, SameFinding
    <3>2. CASE e = ev
      <4>1. head \in Settled
        BY <1>3, <1>4, <1>14 DEF Settled
      <4>. QED  BY <1>6, <3>2, <4>1 DEF SameFinding
    <3>3. CASE e \in InHand(h)'
      <4>1. e \in Settled
        BY <1>13, <1>14, <3>3 DEF Settled
      <4>. QED  BY <4>1 DEF SameFinding
    <3>4. ASSUME NEW g \in Hooks \ {h}, e \in InHand(g)' PROVE e \in Settled
      BY <1>15, <3>4 DEF Settled
    <3>. QED  BY <1>7, <3>1, <3>2, <3>3, <3>4 DEF Settled, SameFinding
  <2>. QED  BY <2>1 DEF Keeps
<1>17. queued' \subseteq queued \cup {ev}
  BY <1>7
<1>18. Parted(rest, queued')
  <2>1. CASE queued' = queued
    BY <1>10, <1>12, <2>1
  <2>2. CASE queued' # queued
    <3>1. Parted(rest, queued \cup {head})
      BY <1>10, <1>11, <1>12, <2>2
    <3>2. \A x : Clash(x, ev) <=> Clash(x, head)
      BY <1>6 DEF Clash
    <3>. QED  BY <1>17, <3>1, <3>2 DEF Parted
  <2>. QED  BY <2>1, <2>2
<1>19. ASSUME NEW g \in Hooks \ {h}
       PROVE  /\ Parted(hook'[g].todo, queued')
              /\ \A f \in Hooks \ {g} : Parted(hook'[g].todo, ToSet(hook'[f].todo))
  <2>1. hook'[g] = hook[g] /\ Parted(hook[g].todo, queued)
        /\ \A f \in Hooks \ {g} : Parted(hook[g].todo, ToSet(hook[f].todo))
    BY <1>8 DEF Alone
  <2>2. Parted(hook[g].todo, ToSet(todo))
    BY <1>2, <2>1
  <2>3. \A x : Clash(x, ev) <=> Clash(x, head)
    BY <1>6 DEF Clash
  <2>4. Parted(hook[g].todo, queued')
    BY <1>3, <1>4, <1>17, <2>1, <2>2, <2>3 DEF Parted
  <2>5. Parted(hook[g].todo, ToSet(rest))
    BY <1>13, <2>2 DEF Parted
  <2>6. ASSUME NEW f \in Hooks \ {g} PROVE Parted(hook'[g].todo, ToSet(hook'[f].todo))
    <3>1. CASE f = h
      BY <1>8, <1>9, <2>1, <2>5, <3>1
    <3>2. CASE f # h
      BY <1>8, <2>1, <3>2
    <3>. QED  BY <3>1, <3>2
  <2>. QED  BY <2>1, <2>4, <2>6
<1>20. \A f \in Hooks \ {h} : Parted(hook'[h].todo, ToSet(hook'[f].todo))
  BY <1>8, <1>9, <1>10, <1>12
<1>21. ASSUME NEW x \in queued', NEW y \in queued', x # y PROVE ~Clash(x, y)
  <2>1. ASSUME NEW z \in queued PROVE ~Clash(z, ev) /\ ~Clash(ev, z)
    <3>1. ~Clash(head, z)
      BY <1>3, <1>4, <1>10 DEF Parted
    <3>. QED  BY <1>6, <3>1 DEF Clash
  <2>. QED  BY <1>17, <1>21, <2>1 DEF Alone
<1>22. \A g \in Hooks : /\ Parted(hook'[g].todo, queued')
                        /\ \A f \in Hooks \ {g} : Parted(hook'[g].todo, ToSet(hook'[f].todo))
  BY <1>8, <1>9, <1>18, <1>19, <1>20
<1>. QED  BY <1>1, <1>14, <1>16, <1>21, <1>22, QuietStep

\* A hook that starts, or ends without having written the cursor.
LEMMA AloneByOther ==
  ASSUME Types, Handing, Alone, NEW h \in Hooks, mishaps' = {},
         \/ PostToolUse(h) \/ Stop(h) \/ EnqueueTool(h) \/ ScanFails(h) \/ OpenQueue(h) \/ Crash(h)
  PROVE  Alone'
<1>1. Acts(h) /\ hook[h] \in HookState /\ cursor' = cursor /\ queued' = queued
  BY DEF Acts, Types, PostToolUse, Stop, EnqueueTool, ScanFails, OpenQueue, Crash
<1>2. hook[h].pc # "write"
  BY DEF PostToolUse, Stop, EnqueueTool, ScanFails, OpenQueue, Crash
<1>3. PICK s \in HookState : /\ Become(h, s) /\ s.pc \notin {"scan", "truncate", "write"}
                             /\ \/ s.todo = <<>>
                                \/ s.todo = hook[h].todo /\ ~Scanning(h)
  <2>1. CASE PostToolUse(h)
    <3>1. PICK s \in HookState : Become(h, s) /\ s.pc = "tool" /\ s.todo = <<>>
      BY <2>1, HookSteps
    <3>. QED  BY <3>1
  <2>2. CASE Stop(h)
    <3>1. PICK s \in HookState : Become(h, s) /\ s.pc = "cursor" /\ s.todo = <<>>
      BY <2>2, HookSteps
    <3>. QED  BY <3>1
  <2>3. CASE EnqueueTool(h)
    <3>1. PICK s \in HookState : Become(h, s) /\ s.pc \in {"cursor", "done"} /\ s.todo \in {<<>>, hook[h].todo}
      BY <2>3, HookSteps
    <3>2. ~Scanning(h)
      BY <2>3 DEF EnqueueTool, Scanning
    <3>. QED  BY <3>1, <3>2
  <2>4. CASE ScanFails(h) \/ Crash(h)
    <3>1. PICK s \in HookState : Become(h, s) /\ s.pc = "done" /\ s.todo = <<>>
      BY <2>4, HookSteps
    <3>. QED  BY <3>1
  <2>5. CASE OpenQueue(h)
    <3>1. PICK s \in HookState :
            /\ Become(h, s)
            /\ \/ s.pc = "enqueue" /\ s.todo = hook[h].todo
               \/ s.pc = "done" /\ s.todo = <<>>
      BY <2>5, HookSteps
    <3>2. ~Scanning(h)
      BY <2>5 DEF OpenQueue, Scanning
    <3>. QED  BY <3>1, <3>2
  <2>. QED  BY <2>1, <2>2, <2>3, <2>4, <2>5
<1>4. hook'[h] = s /\ \A g \in Hooks \ {h} : hook'[g] = hook[g]
  BY <1>3, Becomes DEF Types
<1>5. ~Scanning(h)'
  BY <1>3, <1>4 DEF Scanning
<1>6. InHand(h)' \subseteq InHand(h) /\ \A g \in Hooks \ {h} : InHand(g)' = InHand(g)
  BY <1>3, <1>4, <1>5, EmptyParted DEF InHand, Scanning
<1>7. Keeps(Settled', Settled)
  BY <1>1, <1>6, KeepsSubset DEF Settled
<1>8. ASSUME NEW g \in Hooks, NEW E, Parted(hook[g].todo, E) PROVE Parted(hook'[g].todo, E)
  BY <1>3, <1>4, <1>8, EmptyParted
<1>9. ASSUME NEW g \in Hooks PROVE ToSet(hook'[g].todo) \subseteq ToSet(hook[g].todo)
  BY <1>3, <1>4, EmptyParted
<1>10. ASSUME NEW g \in Hooks, NEW f \in Hooks \ {g} PROVE Parted(hook'[g].todo, ToSet(hook'[f].todo))
  <2>1. Parted(hook[g].todo, ToSet(hook[f].todo))
    BY DEF Alone
  <2>2. Parted(hook'[g].todo, ToSet(hook[f].todo))
    BY <1>8, <2>1
  <2>. QED  BY <1>9, <2>2 DEF Parted
<1>11. \A g \in Hooks : /\ Parted(hook'[g].todo, queued')
                        /\ \A f \in Hooks \ {g} : Parted(hook'[g].todo, ToSet(hook'[f].todo))
  BY <1>1, <1>8, <1>10 DEF Alone
<1>12. \A ev, other \in queued' : ev # other => ~Clash(ev, other)
  BY <1>1 DEF Alone
<1>. QED  BY <1>1, <1>2, <1>5, <1>7, <1>11, <1>12, QuietStep

\* A step of one hook leaves the others and the transcript alone.
LEMMA OthersSame ==
  ASSUME Types, Handing, NEW h \in Hooks, Acts(h), queued' = queued
  PROVE  /\ hook[h] \in HookState /\ hook'[h] \in HookState /\ transcript \in Seq(Line)
         /\ \A g \in Hooks \ {h} : /\ hook'[g] = hook[g] /\ InHand(g)' = InHand(g)
                                   /\ Scanning(g)' = Scanning(g)
         /\ UNCHANGED <<transcript, gen>>
<1>1. /\ hook' \in [Hooks -> HookState]
      /\ \A g \in Hooks \ {h} : hook'[g] = hook[g]
      /\ UNCHANGED <<transcript, gen>>
  BY ActTypes
<1>2. \A g \in Hooks \ {h} : InHand(g)' = InHand(g) /\ Scanning(g)' = Scanning(g)
  BY <1>1 DEF InHand, Scanning
<1>. QED  BY <1>1, <1>2 DEF Types

LEMMA AloneByTake ==
  ASSUME Types, Handing, Alone, NEW h \in Hooks, mishaps' = {}, TakeCursor(h)
  PROVE  Alone'
<1>1. Acts(h) /\ hook[h].pc = "cursor" /\ hook[h].todo = <<>> /\ cursor' = cursor /\ queued' = queued
  BY DEF Acts, TakeCursor, Handing
<1>2. \A g \in Hooks \ {h} : ~Scanning(g)
  BY DEF TakeCursor, Overlap
<1>3. PICK s \in HookState : Become(h, s) /\ s.pc = "scan" /\ s.start = ReadCursor /\ s.todo = hook[h].todo
  BY HookSteps
<1>4. hook'[h] = s
  BY <1>3, Becomes DEF Types
<1>5. \A g \in Hooks \ {h} : /\ hook'[g] = hook[g] /\ InHand(g)' = InHand(g)
                             /\ Scanning(g)' = Scanning(g)
  BY <1>1, OthersSame
<1>6. InHand(h) = {} /\ InHand(h)' = {}
  BY <1>1, <1>3, <1>4, EmptyParted DEF InHand
<1>7. Settled' = Settled
  BY <1>1, <1>5, <1>6 DEF Settled
<1>8. transcript' = transcript /\ gen' = gen
  BY DEF TakeCursor
<1>9. Bounds(ReadCursor, Settled)'
  <2>1. \A g \in Hooks : hook[g].pc # "write"
    BY <1>1, <1>2 DEF Scanning
  <2>2. Bounds(ReadCursor, Settled)
    BY <2>1 DEF Alone
  <2>. QED  BY <1>1, <1>7, <1>8, <2>2 DEF Bounds, ReadCursor, KeysKnown, Past
<1>10. \A g, f \in Hooks : Scanning(g)' /\ Scanning(f)' => g = f
  BY <1>2, <1>5
<1>11. \A g \in Hooks : /\ hook'[g].pc = "scan" => hook'[g].start = ReadCursor'
                        /\ hook'[g].pc \notin {"truncate", "write"}
  <2>1. \A g \in Hooks \ {h} : hook'[g].pc \notin {"scan", "truncate", "write"}
    BY <1>2, <1>5 DEF Scanning
  <2>. QED  BY <1>1, <1>3, <1>4, <2>1 DEF ReadCursor
<1>12. \A g \in Hooks : hook'[g].todo = hook[g].todo
  BY <1>3, <1>4, <1>5
<1>13. \A g \in Hooks : /\ Parted(hook'[g].todo, queued')
                        /\ \A f \in Hooks \ {g} : Parted(hook'[g].todo, ToSet(hook'[f].todo))
  BY <1>1, <1>12 DEF Alone
<1>. QED  BY <1>1, <1>8, <1>9, <1>10, <1>11, <1>13 DEF Alone

LEMMA AloneByTruncate ==
  ASSUME Types, Handing, Alone, NEW h \in Hooks, TruncateCursor(h)
  PROVE  Alone'
<1>1. Acts(h) /\ hook[h].pc = "truncate" /\ queued' = queued
  BY DEF Acts, TruncateCursor
<1>2. \A g \in Hooks \ {h} : ~Scanning(g)
  BY <1>1 DEF Alone, Scanning
<1>3. PICK s \in HookState : Become(h, s) /\ s.pc = "write" /\ s.end = hook[h].end /\ s.todo = hook[h].todo
  BY HookSteps
<1>4. hook'[h] = s
  BY <1>3, Becomes DEF Types
<1>5. \A g \in Hooks \ {h} : /\ hook'[g] = hook[g] /\ InHand(g)' = InHand(g)
                             /\ Scanning(g)' = Scanning(g)
  BY <1>1, OthersSame
<1>6. InHand(h) = {} /\ InHand(h)' = {}
  BY <1>1, <1>3, <1>4 DEF InHand, Scanning
<1>7. Settled' = Settled
  BY <1>1, <1>5, <1>6 DEF Settled
<1>8. transcript' = transcript /\ gen' = gen
  BY DEF TruncateCursor
<1>9. Bounds(hook[h].end, Settled \cup ToSet(hook[h].todo))'
  <2>1. Bounds(hook[h].end, Settled \cup ToSet(hook[h].todo))
    BY <1>1 DEF Alone
  <2>. QED  BY <1>3, <1>4, <1>7, <1>8, <2>1 DEF Bounds, KeysKnown, Past
<1>10. \A g, f \in Hooks : Scanning(g)' /\ Scanning(f)' => g = f
  BY <1>2, <1>5
<1>11. \A g \in Hooks \ {h} : hook'[g].pc \notin {"scan", "truncate", "write"}
  BY <1>2, <1>5 DEF Scanning
<1>12. \A g \in Hooks : hook'[g].todo = hook[g].todo
  BY <1>3, <1>4, <1>5
<1>13. \A g \in Hooks : /\ Parted(hook'[g].todo, queued')
                        /\ \A f \in Hooks \ {g} : Parted(hook'[g].todo, ToSet(hook'[f].todo))
  BY <1>1, <1>12 DEF Alone
<1>14. hook'[h].pc = "write"
  BY <1>3, <1>4
<1>15. \A g \in Hooks : /\ hook'[g].pc = "scan" => hook'[g].start = ReadCursor'
                        /\ hook'[g].pc \in {"truncate", "write"} =>
                             Bounds(hook[g].end, Settled \cup ToSet(hook[g].todo))'
  BY <1>9, <1>11, <1>14
<1>. QED  BY <1>1, <1>8, <1>10, <1>13, <1>14, <1>15 DEF Alone

LEMMA AloneByWrite ==
  ASSUME Types, Handing, Alone, NEW h \in Hooks, WriteCursor(h)
  PROVE  Alone'
<1>1. Acts(h) /\ hook[h].pc = "write" /\ queued' = queued /\ cursor' = hook[h].end
  BY DEF Acts, WriteCursor
<1>2. \A g \in Hooks \ {h} : ~Scanning(g)
  BY <1>1 DEF Alone, Scanning
<1>3. PICK s \in HookState : Become(h, s) /\ s.pc \in {"open", "enqueue", "done"} /\ s.todo = hook[h].todo
  BY HookSteps
<1>4. hook'[h] = s
  BY <1>3, Becomes DEF Types
<1>5. \A g \in Hooks \ {h} : /\ hook'[g] = hook[g] /\ InHand(g)' = InHand(g)
                             /\ Scanning(g)' = Scanning(g)
  BY <1>1, OthersSame
<1>6. InHand(h) = {} /\ InHand(h)' = ToSet(hook[h].todo)
  BY <1>1, <1>3, <1>4 DEF InHand, Scanning
<1>7. Settled' = Settled \cup ToSet(hook[h].todo)
  BY <1>1, <1>5, <1>6 DEF Settled
<1>8. transcript' = transcript /\ gen' = gen
  BY DEF WriteCursor
<1>9. hook[h].end \in File /\ ReadCursor' = hook[h].end
  <2>1. hook[h].end \in File
    BY DEF Types, HookState
  <2>. QED  BY <1>1, <2>1, TornIsNoFile DEF ReadCursor
<1>10. Bounds(ReadCursor, Settled)'
  <2>1. Bounds(hook[h].end, Settled \cup ToSet(hook[h].todo))
    BY <1>1 DEF Alone
  <2>. QED  BY <1>7, <1>8, <1>9, <2>1 DEF Bounds, KeysKnown, Past
<1>11. \A g \in Hooks : ~Scanning(g)'
  BY <1>2, <1>3, <1>4, <1>5 DEF Scanning
<1>12. \A g \in Hooks : hook'[g].todo = hook[g].todo
  BY <1>3, <1>4, <1>5
<1>13. \A g \in Hooks : /\ Parted(hook'[g].todo, queued')
                        /\ \A f \in Hooks \ {g} : Parted(hook'[g].todo, ToSet(hook'[f].todo))
  BY <1>1, <1>12 DEF Alone
<1>14. \A g \in Hooks : hook'[g].pc \notin {"scan", "truncate", "write"}
  BY <1>11 DEF Scanning
<1>. QED  BY <1>1, <1>8, <1>10, <1>11, <1>13, <1>14 DEF Alone

\* What the scan of the only hook at it finds: nothing that is settled, and
\* what the new cursor bounds.
LEMMA ScanBounds ==
  ASSUME Types, gen = 0, NEW start \in File, NEW E, \A ev \in E : ev.at \in Nat, Bounds(start, E),
         LET st == ScanFrom(start) IN ~(Cardinality(st.known \ {0}) > Len(st.seen))
  PROVE  LET turns == ScanFrom(start).turns
         IN  /\ Parted(turns, E) /\ Bounds(ScanEnd(start), E \cup ToSet(turns))
             /\ ScanEnd(start).offset =< start.offset => turns = <<>>
<1>1. gen \in Nat /\ transcript \in Seq(Line) /\ Len(transcript) \in Nat /\ start.offset \in Nat
      /\ start.offset =< Len(transcript) /\ KeysKnown(start)
  BY ClaudeConstantsOK DEF Types, File, Bounds
<1>2. From(start) = start
  BY <1>1 DEF From
<1>3. PICK st : st = ScanFrom(start)
  OBVIOUS
<1>4. st \in ScanState /\ st.at = Len(transcript) /\ Complete(start, st) /\ Unique(start, st)
      /\ Remembered(st)
  BY <1>1, <1>2, <1>3, ScanFinds
<1>5. PICK turns \in Seq(Turn) : turns = st.turns
  BY <1>4 DEF ScanState
<1>6. PICK end : end = ScanEnd(start)
  OBVIOUS
<1>7. end.offset = Len(transcript) /\ end.gen = 0 /\ end.seen = st.seen
  BY <1>3, <1>4, <1>6 DEF ScanEnd
<1>8. st.known \ {0} = ToSet(st.seen) /\ Cardinality(st.known \ {0}) = Len(st.seen)
  BY <1>3, <1>4 DEF Remembered, KeysMatch
<1>9. IsFiniteSet(st.known \ {0})
  BY <1>4, FS_RemoveElement DEF Remembered
<1>10. KeysKnown(end)
  BY <1>7, <1>8, <1>9 DEF KeysKnown
<1>11. ASSUME NEW t \in ToSet(turns)
       PROVE  /\ t.at \in Nat /\ t.at > start.offset /\ t.at =< Len(transcript)
              /\ t.key \in st.known /\ t.key \notin ToSet(start.seen)
  BY <1>1, <1>4, <1>5 DEF Unique
<1>12. ASSUME NEW ev \in E, NEW t \in ToSet(turns) PROVE ~Clash(t, ev)
  <2>1. ev.at =< start.offset /\ (ev.key # 0 => ev.key \in ToSet(start.seen))
    BY DEF Bounds, Past
  <2>2. ev.at # t.at
    <3>1. PICK n \in Nat : n = t.at
      BY <1>11
    <3>2. n > start.offset
      BY <1>11, <3>1
    <3>3. ~(n =< start.offset)
      BY <1>1, <3>2
    <3>. QED  BY <2>1, <3>1, <3>3
  <2>3. ~(t.key # 0 /\ t.key = ev.key)
    BY <1>11, <2>1
  <2>. QED  BY <2>2, <2>3 DEF Clash
<1>13. Parted(turns, E)
  <2>1. \A i, j \in DOMAIN turns : i # j => ~Clash(turns[i], turns[j])
    BY <1>4, <1>5 DEF Unique
  <2>2. \A i \in DOMAIN turns : turns[i] \in ToSet(turns)
    BY DEF ToSet
  <2>. QED  BY <1>12, <2>1, <2>2 DEF Parted
<1>14. ASSUME NEW t \in ToSet(turns) PROVE Past(end, t)
  BY <1>7, <1>8, <1>11 DEF Past
<1>15. ASSUME NEW ev \in E PROVE Past(end, ev)
  <2>1. ev.at =< start.offset /\ (ev.key # 0 => ev.key \in ToSet(start.seen))
    BY DEF Bounds, Past
  <2>2. ev.at =< Len(transcript)
    BY <1>1, <2>1
  <2>3. ev.key # 0 => ev.key \in ToSet(st.seen)
    BY <1>4, <1>8, <2>1 DEF Complete
  <2>. QED  BY <1>7, <2>2, <2>3 DEF Past
<1>16. Bounds(end, E \cup ToSet(turns))
  BY <1>1, <1>7, <1>10, <1>14, <1>15 DEF Bounds
<1>17. ASSUME end.offset =< start.offset PROVE turns = <<>>
  <2>1. ToSet(turns) = {}
    BY <1>1, <1>7, <1>11, <1>17
  <2>2. Len(turns) \in Nat /\ DOMAIN turns = 1 .. Len(turns)
    BY LenProperties
  <2>3. ~(1 \in DOMAIN turns)
    BY <2>1 DEF ToSet
  <2>4. Len(turns) = 0
    BY <2>2, <2>3
  <2>. QED  BY <2>4, EmptySeq
<1>. QED  BY <1>3, <1>5, <1>6, <1>13, <1>16, <1>17

LEMMA AloneByScan ==
  ASSUME Types, Handing, Alone, NEW h \in Hooks, mishaps' = {}, Scan(h)
  PROVE  Alone'
<1>1. Acts(h) /\ hook[h].pc = "scan" /\ queued' = queued /\ cursor' = cursor /\ hook[h].todo = <<>>
  BY DEF Acts, Scan, Handing
<1>2. \A g \in Hooks \ {h} : ~Scanning(g)
  BY <1>1 DEF Alone, Scanning
<1>3. /\ hook[h] \in HookState
      /\ \A g \in Hooks \ {h} : /\ hook'[g] = hook[g] /\ InHand(g)' = InHand(g)
                                /\ Scanning(g)' = Scanning(g)
      /\ transcript' = transcript /\ gen' = gen
  BY <1>1, OthersSame
<1>4. PICK start \in File : start = hook[h].start
  BY <1>3 DEF HookState
<1>5. gen = 0 /\ Bounds(start, Settled)
  <2>1. \A g \in Hooks : hook[g].pc # "write"
    BY <1>1, <1>2 DEF Scanning
  <2>. QED  BY <1>1, <1>4, <2>1 DEF Alone
<1>6. ~(Cardinality(ScanFrom(start).known \ {0}) > Len(ScanFrom(start).seen))
  BY <1>4 DEF Scan
<1>7. PICK turns : turns = ScanFrom(start).turns
  OBVIOUS
<1>8. PICK end : end = ScanEnd(start)
  OBVIOUS
<1>9. /\ Parted(turns, Settled) /\ Bounds(end, Settled \cup ToSet(turns))
      /\ end.offset =< start.offset => turns = <<>>
  <2>1. \A ev \in queued : ev.at \in Nat
    BY DEF Types, TurnEvent
  <2>2. ASSUME NEW g \in Hooks, NEW ev \in InHand(g) PROVE ev.at \in Nat
    <3>1. hook[g].todo \in Seq(Turn) /\ ev \in ToSet(hook[g].todo)
      BY <2>2 DEF Types, HookState, InHand
    <3>2. ev \in Turn
      BY <3>1 DEF ToSet
    <3>. QED  BY <3>2 DEF Turn
  <2>3. \A ev \in Settled : ev.at \in Nat
    BY <2>1, <2>2 DEF Settled
  <2>. QED  BY <1>5, <1>6, <1>7, <1>8, <2>3, ScanBounds
<1>10. /\ end \in File /\ turns \in Seq(Turn)
       /\ \/ /\ WorthWriting(start, end)
             /\ hook'[h].pc = "truncate" /\ hook'[h].end = end /\ hook'[h].todo = turns
          \/ /\ ~WorthWriting(start, end)
             /\ hook'[h] = Deliver(hook[h].kind, turns)
  BY <1>4, <1>7, <1>8, ScanSteps
<1>11. InHand(h) = {}
  BY <1>1 DEF InHand, Scanning
<1>12. \A g \in Hooks \ {h} : ToSet(hook[g].todo) \subseteq Settled
  BY <1>2 DEF Settled, InHand
<1>13. queued \subseteq Settled
  BY DEF Settled
<1>14. CASE WorthWriting(start, end)
  <2>1. hook'[h].pc = "truncate" /\ hook'[h].end = end /\ hook'[h].todo = turns
    BY <1>10, <1>14
  <2>2. InHand(h)' = {} /\ Scanning(h)'
    BY <2>1 DEF InHand, Scanning
  <2>3. Settled' = Settled
    BY <1>1, <1>3, <1>11, <2>2 DEF Settled
  <2>4. Bounds(hook[h].end, Settled \cup ToSet(hook[h].todo))'
    BY <1>3, <1>9, <2>1, <2>3 DEF Bounds, KeysKnown, Past
  <2>5. \A g, f \in Hooks : Scanning(g)' /\ Scanning(f)' => g = f
    BY <1>2, <1>3
  <2>6. \A g \in Hooks \ {h} : hook'[g].pc \notin {"scan", "truncate", "write"}
    BY <1>2, <1>3 DEF Scanning
  <2>7. Bounds(ReadCursor, Settled)'
    <3>1. \A g \in Hooks : hook[g].pc # "write"
      BY <1>1, <1>2 DEF Scanning
    <3>2. Bounds(ReadCursor, Settled)
      BY <3>1 DEF Alone
    <3>. QED  BY <1>1, <1>3, <2>3, <3>2 DEF Bounds, ReadCursor, KeysKnown, Past
  <2>8. ASSUME NEW g \in Hooks
        PROVE  /\ Parted(hook'[g].todo, queued)
               /\ \A f \in Hooks \ {g} : Parted(hook'[g].todo, ToSet(hook'[f].todo))
    <3>1. CASE g = h
      BY <1>3, <1>9, <1>12, <1>13, <2>1, <3>1 DEF Parted
    <3>2. CASE g # h
      <4>1. hook'[g] = hook[g] /\ Parted(hook[g].todo, queued)
        BY <1>3, <3>2 DEF Alone
      <4>2. ASSUME NEW f \in Hooks \ {g} PROVE Parted(hook'[g].todo, ToSet(hook'[f].todo))
        <5>1. CASE f # h
          BY <1>3, <4>1, <5>1 DEF Alone
        <5>2. CASE f = h
          <6>1. ASSUME NEW i \in DOMAIN hook[g].todo, NEW t \in ToSet(turns)
                PROVE  ~Clash(hook[g].todo[i], t)
            <7>1. hook[g].todo[i] \in Settled
              BY <1>12, <3>2 DEF ToSet
            <7>2. PICK j \in DOMAIN turns : t = turns[j]
              BY DEF ToSet
            <7>3. ~Clash(t, hook[g].todo[i])
              BY <1>9, <7>1, <7>2 DEF Parted
            <7>. QED  BY <7>3 DEF Clash
          <6>2. Parted(hook[g].todo, ToSet(turns))
            BY <4>1, <6>1 DEF Parted
          <6>. QED  BY <2>1, <4>1, <5>2, <6>2
        <5>. QED  BY <5>1, <5>2
      <4>. QED  BY <4>1, <4>2
    <3>. QED  BY <3>1, <3>2
  <2>9. \A g \in Hooks : /\ hook'[g].pc = "scan" => hook'[g].start = ReadCursor'
                         /\ hook'[g].pc \in {"truncate", "write"} =>
                              Bounds(hook[g].end, Settled \cup ToSet(hook[g].todo))'
    BY <2>1, <2>4, <2>6
  <2>10. gen' = 0 /\ \A ev, other \in queued' : ev # other => ~Clash(ev, other)
    BY <1>1, <1>3 DEF Alone
  <2>. QED  BY <1>1, <2>5, <2>7, <2>8, <2>9, <2>10 DEF Alone
<1>15. CASE ~WorthWriting(start, end)
  <2>1. turns = <<>>
    <3>1. ~(end.offset > start.offset)
      BY <1>15 DEF WorthWriting
    <3>2. end.offset =< start.offset
      BY <1>10, <3>1 DEF File
    <3>. QED  BY <1>9, <3>2
  <2>2. hook'[h].todo = <<>> /\ hook'[h].pc \in {"open", "enqueue", "done"}
    <3>1. hook'[h] = Deliver(hook[h].kind, turns)
      BY <1>10, <1>15
    <3>2. Deliver(hook[h].kind, turns).todo = turns
          /\ Deliver(hook[h].kind, turns).pc \in {"open", "enqueue", "done"}
      BY <1>10, DeliverTypes
    <3>. QED  BY <2>1, <3>1, <3>2
  <2>3. ~Scanning(h)' /\ InHand(h)' = {}
    BY <2>2, EmptyParted DEF Scanning, InHand
  <2>4. Keeps(Settled', Settled)
    <3>1. Settled' = Settled
      BY <1>1, <1>3, <1>11, <2>3 DEF Settled
    <3>. QED  BY <3>1, KeepsSubset
  <2>5. \A g \in Hooks : hook'[g].todo = hook[g].todo
    BY <1>1, <1>3, <2>2
  <2>6. \A g \in Hooks : /\ Parted(hook'[g].todo, queued')
                         /\ \A f \in Hooks \ {g} : Parted(hook'[g].todo, ToSet(hook'[f].todo))
    BY <1>1, <2>5 DEF Alone
  <2>7. \A ev, other \in queued' : ev # other => ~Clash(ev, other)
    BY <1>1 DEF Alone
  <2>8. hook[h].pc # "write"
    BY <1>1
  <2>. QED  BY <1>1, <2>3, <2>4, <2>6, <2>7, <2>8, QuietStep
<1>. QED  BY <1>14, <1>15

LEMMA AloneByWriter ==
  ASSUME Types, Alone, \E line \in Line : AppendLine(line)
  PROVE  Alone'
<1>1. UNCHANGED <<cursor, hook, queued, gen>> /\ transcript \in Seq(Line)
      /\ \E line \in Line : transcript' = Append(transcript, line)
  BY DEF AppendLine, Types
<1>2. Settled' = Settled
  BY <1>1 DEF Settled, InHand, Scanning
<1>3. ASSUME NEW c \in File, NEW E, Bounds(c, E) PROVE Bounds(c, E)'
  <2>1. Keeps(E, E)
    BY KeepsSubset
  <2>. QED  BY <1>1, <1>3, <2>1, BoundsKept
<1>4. ASSUME \A h \in Hooks : hook'[h].pc # "write" PROVE Bounds(ReadCursor, Settled)'
  <2>1. PICK c : c = ReadCursor
    OBVIOUS
  <2>2. c \in File /\ c = ReadCursor'
    BY <1>1, <2>1, ZeroIsFile DEF ReadCursor, Types
  <2>3. PICK E : E = Settled
    OBVIOUS
  <2>4. Bounds(c, E)
    BY <1>1, <1>4, <2>1, <2>3 DEF Alone
  <2>5. Bounds(c, E)'
    BY <1>3, <2>2, <2>4
  <2>. QED  BY <1>2, <2>2, <2>3, <2>5
<1>5. ASSUME NEW h \in Hooks, hook'[h].pc \in {"truncate", "write"}
      PROVE  Bounds(hook[h].end, Settled \cup ToSet(hook[h].todo))'
  <2>1. PICK c : c = hook[h].end
    OBVIOUS
  <2>2. PICK E : E = Settled \cup ToSet(hook[h].todo)
    OBVIOUS
  <2>3. c \in File /\ Bounds(c, E)
    BY <1>1, <1>5, <2>1, <2>2 DEF Alone, Types, HookState
  <2>4. Bounds(c, E)'
    BY <1>3, <2>3
  <2>5. E = (Settled \cup ToSet(hook[h].todo))'
    BY <1>1, <1>2, <2>2
  <2>. QED  BY <1>1, <2>1, <2>4, <2>5
<1>6. \A h \in Hooks : hook'[h].pc = "scan" => hook'[h].start = ReadCursor'
  BY <1>1 DEF Alone, ReadCursor
<1>7. \A g, h \in Hooks : Scanning(g)' /\ Scanning(h)' => g = h
  BY <1>1 DEF Alone, Scanning
<1>. QED  BY <1>1, <1>4, <1>5, <1>6, <1>7 DEF Alone

LEMMA NextAlone ==
  ASSUME Types, Handing, AloneInv, [Next]_vars
  PROVE  AloneInv'
<1>. SUFFICES ASSUME mishaps' = {} PROVE Alone'
  BY DEF AloneInv
<1>1. Alone
  BY MishapsKept DEF AloneInv
<1>2. CASE NewTurn \/ OtherLine \/ SameMessage
  BY <1>1, <1>2, AppendTypes, AloneByWriter
<1>3. CASE Rotate
  BY <1>3 DEF Rotate
<1>4. ASSUME NEW h \in Hooks, Acts(h) PROVE Alone'
  <2>1. ~WriteFails(h) /\ ~CursorUnread(h)
    BY DEF WriteFails, CursorUnread
  <2>. QED  BY <1>1, <1>4, <2>1, AloneByEnqueue, AloneByOther, AloneByTake, AloneByTruncate,
              AloneByWrite, AloneByScan DEF Acts
<1>5. CASE UNCHANGED vars
  BY <1>1, <1>5 DEF vars, Alone, Bounds, KeysKnown, Past, Settled, InHand, Scanning, ReadCursor
<1>. QED  BY <1>2, <1>3, <1>4, <1>5, NextCases

LEMMA InitAlone == Init => AloneInv
<1>. SUFFICES ASSUME Init PROVE Alone
  BY DEF AloneInv
<1>1. \A h \in Hooks : hook[h].pc = "off" /\ hook[h].todo = <<>>
  BY DEF Init, NotStarted
<1>2. Settled = {}
  BY <1>1, EmptyParted DEF Init, Settled, InHand, Scanning
<1>3. Bounds(ReadCursor, Settled)
  <2>1. ReadCursor = Zero /\ transcript = <<>> /\ Len(transcript) = 0
    BY DEF Init, ReadCursor
  <2>2. KeysKnown(Zero)
    BY FS_EmptySet, EmptyParted DEF KeysKnown, Zero
  <2>. QED  BY <1>2, <2>1, <2>2 DEF Bounds, Zero
<1>4. \A h \in Hooks : ~Scanning(h)
  BY <1>1 DEF Scanning
<1>. QED  BY <1>1, <1>3, <1>4, EmptyParted DEF Init, Alone

\* As long as no two hooks overlap between reading and writing the cursor, no
\* cursor goes unread or unwritten, is torn or forgets a key, and no transcript
\* is replaced, a message is billed once: whatever else fails or crashes, and
\* whenever.
THEOREM BilledOnceTheorem == Spec => []BilledOnce
<1>1. Init => Types /\ Handing /\ AloneInv
  BY InitTypes, InitHanding, InitAlone
<1>2. Types /\ Handing /\ AloneInv /\ [Next]_vars => (Types /\ Handing /\ AloneInv)'
  BY NextTypes, NextAlone
<1>3. AloneInv => BilledOnce
  <2>. SUFFICES ASSUME Alone, NEW ev \in queued, NEW other \in queued,
                       IF ev.key = 0 THEN ev.at = other.at ELSE ev.key = other.key
                PROVE  ev = other
    BY DEF AloneInv, BilledOnce
  <2>1. Clash(ev, other)
    BY DEF Clash
  <2>. QED  BY <2>1 DEF Alone
<1>. QED  BY <1>1, <1>2, <1>3, PTL DEF Spec

(***************************************************************************)
(* The tokens add up                                                       *)
(***************************************************************************)

\* The turns among the first n lines of tr that are of a message of their
\* own, the keys of these lines, and the context the last of them left.
Firsts(tr, n) ==
  {i \in 1 .. n : /\ tr[i].turn
                  /\ tr[i].key = 0 \/ \A j \in 1 .. i - 1 : tr[j].key # tr[i].key}
Keys(tr, n) == {tr[i].key : i \in 1 .. n} \ {0}
Context(tr, n) == IF Firsts(tr, n) = {} THEN 0 ELSE tr[Max(Firsts(tr, n))].effIn

\* ev bills what its message adds to the context of the message before it.
IsGrowth(tr, ev) ==
  /\ ev.at \in Firsts(tr, Len(tr)) /\ ev.key = tr[ev.at].key
  /\ ev.delta = Delta(tr[ev.at].effIn, Context(tr, ev.at - 1))

\* The cursor c remembers the context and the keys of the lines behind it.
Faithful(tr, c) ==
  /\ c.offset =< Len(tr) /\ ToSet(c.seen) = Keys(tr, c.offset)
  /\ c.prior = Context(tr, c.offset)

\* Only turns have keys.
KeysOfTurns(tr) == \A i \in DOMAIN tr : ~tr[i].turn => tr[i].key = 0

\* A set of numbers up to n that is not empty has a greatest member.
LEMMA Greatest ==
  ASSUME NEW n \in Nat, NEW S \in SUBSET (1 .. n), S # {}
  PROVE  \E m \in S : \A y \in S : m >= y
<1>. DEFINE T == {n - i : i \in S}
<1>1. T \in SUBSET Nat /\ T # {}
  <2>1. \A i \in S : i \in 1 .. n
    OBVIOUS
  <2>2. \A i \in S : n - i \in Nat
    BY <2>1
  <2>. QED  BY <2>2
<1>2. PICK x \in T : \A y \in T : x =< y
  <2>. HIDE DEF T
  <2>. QED  BY <1>1, Least
<1>3. PICK m \in S : x = n - m
  OBVIOUS
<1>4. ASSUME NEW y \in S PROVE m >= y
  <2>1. n - m =< n - y
    BY <1>2, <1>3
  <2>. QED  BY <2>1
<1>. QED  BY <1>4

LEMMA MaxIsLast ==
  ASSUME NEW S, NEW n \in Nat, n \in S, \A i \in S : i \in Nat /\ i =< n
  PROVE  Max(S) = n
<1>1. PICK m : m = Max(S)
  OBVIOUS
<1>2. m \in S /\ \A y \in S : m >= y
  <2>1. \A y \in S : n >= y
    OBVIOUS
  <2>. QED  BY <1>1, <2>1 DEF Max
<1>3. m \in Nat /\ m =< n /\ m >= n
  BY <1>2
<1>4. m = n
  BY <1>3
<1>. QED  BY <1>1, <1>4

\* The next line is of a message of its own.
LEMMA NextIsFirst ==
  ASSUME NEW tr \in Seq(Line), NEW n \in Nat, n + 1 \in DOMAIN tr, NEW line \in Line,
         line = tr[n + 1], line.turn, line.key = 0 \/ line.key \notin Keys(tr, n)
  PROVE  /\ n + 1 \in Firsts(tr, n + 1) /\ Context(tr, n + 1) = line.effIn
         /\ Keys(tr, n + 1) = Keys(tr, n) \cup ({line.key} \ {0})
<1>1. n + 1 \in 1 .. (n + 1) /\ (n + 1) - 1 = n /\ n + 1 \in Nat
  OBVIOUS
<1>2. line.key # 0 => \A j \in 1 .. n : tr[j].key # line.key
  BY DEF Keys
<1>3. n + 1 \in Firsts(tr, n + 1)
  BY <1>1, <1>2 DEF Firsts
<1>4. \A i \in Firsts(tr, n + 1) : i \in Nat /\ i =< n + 1
  BY DEF Firsts
<1>5. Max(Firsts(tr, n + 1)) = n + 1
  BY <1>1, <1>3, <1>4, MaxIsLast
<1>6. Context(tr, n + 1) = line.effIn
  BY <1>3, <1>5 DEF Context
<1>7. 1 .. (n + 1) = 1 .. n \cup {n + 1}
  OBVIOUS
<1>8. Keys(tr, n + 1) = Keys(tr, n) \cup ({line.key} \ {0})
  BY <1>7 DEF Keys
<1>. QED  BY <1>3, <1>6, <1>8

\* The next line is not, and changes nothing.
LEMMA NextIsNoFirst ==
  ASSUME NEW tr \in Seq(Line), NEW n \in Nat, n + 1 \in DOMAIN tr, NEW line \in Line,
         line = tr[n + 1], ~line.turn \/ (line.key # 0 /\ line.key \in Keys(tr, n)),
         KeysOfTurns(tr)
  PROVE  /\ Context(tr, n + 1) = Context(tr, n) /\ Keys(tr, n + 1) = Keys(tr, n)
<1>1. (n + 1) - 1 = n /\ 1 .. (n + 1) = 1 .. n \cup {n + 1}
  OBVIOUS
<1>2. line.key # 0 => line.key \in Keys(tr, n)
  BY DEF KeysOfTurns
<1>3. Keys(tr, n + 1) = Keys(tr, n)
  BY <1>1, <1>2 DEF Keys
<1>4. n + 1 \notin Firsts(tr, n + 1)
  <2>1. line.turn => line.key # 0 /\ \E j \in 1 .. n : tr[j].key = line.key
    BY DEF Keys
  <2>. QED  BY <1>1, <2>1 DEF Firsts
<1>5. Firsts(tr, n + 1) = Firsts(tr, n)
  BY <1>1, <1>4 DEF Firsts
<1>. QED  BY <1>3, <1>5 DEF Context

\* Lines that are appended change nothing of what is in front of them.
LEMMA AppendKeeps ==
  ASSUME NEW tr \in Seq(Line), NEW line \in Line, NEW n \in Nat, n =< Len(tr)
  PROVE  LET longer == Append(tr, line)
         IN  /\ Firsts(longer, n) = Firsts(tr, n) /\ Keys(longer, n) = Keys(tr, n)
             /\ Context(longer, n) = Context(tr, n)
<1>1. PICK longer : longer = Append(tr, line)
  OBVIOUS
<1>2. \A i \in 1 .. n : i \in 1 .. Len(tr) /\ longer[i] = tr[i]
  BY <1>1
<1>3. \A i \in 1 .. n : \A j \in 1 .. i - 1 : j \in 1 .. n
  OBVIOUS
<1>4. ASSUME NEW i \in 1 .. n PROVE i \in Firsts(longer, n) <=> i \in Firsts(tr, n)
  BY <1>2, <1>3 DEF Firsts
<1>5. Firsts(longer, n) = Firsts(tr, n)
  BY <1>4 DEF Firsts
<1>6. Keys(longer, n) = Keys(tr, n)
  BY <1>2 DEF Keys
<1>7. ASSUME Firsts(tr, n) # {} PROVE Max(Firsts(tr, n)) \in 1 .. n
  <2>1. PICK S : S = Firsts(tr, n)
    OBVIOUS
  <2>2. S \in SUBSET (1 .. n) /\ S # {}
    BY <1>7, <2>1 DEF Firsts
  <2>3. \E m \in S : \A y \in S : m >= y
    BY <2>2, Greatest
  <2>4. Max(S) \in S
    BY <2>3 DEF Max
  <2>. QED  BY <2>1, <2>2, <2>4
<1>8. Context(longer, n) = Context(tr, n)
  BY <1>2, <1>5, <1>7 DEF Context
<1>. QED  BY <1>1, <1>5, <1>6, <1>8

(***************************************************************************)
(* The scan, once more                                                     *)
(***************************************************************************)

\* The scan st of the lines up to st.at bills what they add to the context.
Grown(tr, st) ==
  /\ st.prior = Context(tr, st.at) /\ st.known \ {0} = Keys(tr, st.at)
  /\ \A t \in ToSet(st.turns) : IsGrowth(tr, t)

LEMMA FirstsGrow ==
  ASSUME NEW tr, NEW n \in Nat, NEW m \in Nat, n =< m
  PROVE  Firsts(tr, n) \subseteq Firsts(tr, m) 
BY DEF Firsts

LEMMA LineGrown ==
  ASSUME NEW st \in ScanState, gen \in Nat, transcript \in Seq(Line), KeysOfTurns(transcript),
         st.at + 1 \in DOMAIN transcript, Grown(transcript, st)
  PROVE  Grown(transcript, ScanLine(st, transcript[st.at + 1]))
<1>. DEFINE n == st.at
<1>1. PICK tr \in Seq(Line) : tr = transcript
  OBVIOUS
<1>2. PICK line \in Line : line = tr[n + 1]
  BY <1>1
<1>3. PICK next : next = ScanLine(st, line)
  OBVIOUS
<1>4. n \in Nat /\ st.turns \in Seq(Turn) /\ n + 1 \in DOMAIN tr /\ line.key \in Nat
      /\ Len(tr) \in Nat /\ n + 1 =< Len(tr)
  <2>1. n \in Nat /\ st.turns \in Seq(Turn)
    BY DEF ScanState
  <2>2. line.key \in Nat
    BY DEF Line
  <2>3. DOMAIN tr = 1 .. Len(tr) /\ Len(tr) \in Nat
    BY LenProperties
  <2>. QED  BY <1>1, <2>1, <2>2, <2>3
<1>5. /\ st.prior = Context(tr, n) /\ st.known \ {0} = Keys(tr, n)
      /\ \A t \in ToSet(st.turns) : IsGrowth(tr, t)
  BY <1>1 DEF Grown
<1>6. CASE Skips(st, line)
  <2>1. next.turns = st.turns /\ next.known = st.known /\ next.at = n + 1 /\ next.prior = st.prior
    BY <1>3, <1>6, LineSkipped
  <2>2. ~line.turn \/ (line.key # 0 /\ line.key \in Keys(tr, n))
    BY <1>5, <1>6 DEF Skips
  <2>3. Context(tr, n + 1) = Context(tr, n) /\ Keys(tr, n + 1) = Keys(tr, n)
    BY <1>1, <1>2, <1>4, <2>2, NextIsNoFirst
  <2>4. Grown(tr, next)
    BY <1>5, <2>1, <2>3 DEF Grown
  <2>. QED  BY <1>1, <1>2, <1>3, <2>4
<1>7. CASE ~Skips(st, line)
  <2>1. PICK t \in Turn :
          /\ t.at = n + 1 /\ t.key = line.key
          /\ t.delta = Delta(line.effIn, st.prior) /\ next.prior = line.effIn
          /\ next.turns = Append(st.turns, t)
          /\ next.known = st.known \cup {line.key} /\ next.at = n + 1
    BY <1>3, <1>7, LineTaken
  <2>2. line.turn /\ (line.key = 0 \/ line.key \notin Keys(tr, n))
    BY <1>5, <1>7 DEF Skips
  <2>3. /\ n + 1 \in Firsts(tr, n + 1) /\ Context(tr, n + 1) = line.effIn
        /\ Keys(tr, n + 1) = Keys(tr, n) \cup ({line.key} \ {0})
    BY <1>2, <1>4, <2>2, NextIsFirst
  <2>4. n + 1 \in Firsts(tr, Len(tr))
    BY <1>4, <2>3, FirstsGrow
  <2>5. IsGrowth(tr, t)
    <3>1. t.at - 1 = n
      BY <1>4, <2>1
    <3>. QED  BY <1>2, <1>5, <2>1, <2>4, <3>1 DEF IsGrowth
  <2>6. ToSet(next.turns) = ToSet(st.turns) \cup {t}
    BY <1>4, <2>1, ToSetAppend
  <2>7. next.known \ {0} = Keys(tr, n + 1)
    BY <1>5, <2>1, <2>3
  <2>8. Grown(tr, next)
    BY <1>5, <2>1, <2>3, <2>5, <2>6, <2>7 DEF Grown
  <2>. QED  BY <1>1, <1>2, <1>3, <2>8
<1>. QED  BY <1>6, <1>7

\* What a scan finds that starts behind lines its cursor remembers.
LEMMA ScanGrown ==
  ASSUME NEW start \in File, gen \in Nat, transcript \in Seq(Line), KeysOfTurns(transcript),
         Faithful(transcript, start)
  PROVE  Grown(transcript, ScanFrom(start))
<1>1. start.offset \in Nat /\ start.offset =< Len(transcript) /\ Len(transcript) \in Nat
  BY DEF File, Faithful
<1>2. From(start) = start
  BY <1>1 DEF From
<1>3. PICK s : Scans(start, s) /\ ScanFrom(start) = s[Len(transcript)]
  BY <1>2, ScansExist
<1>. DEFINE Good(n) == s[n] \in ScanState /\ s[n].at = n /\ Grown(transcript, s[n])
            G == {n \in start.offset .. Len(transcript) : Good(n)}
<1>4. start.offset \in G
  <2>1. PICK st : st = Unread(start)
    OBVIOUS
  <2>2. /\ st.turns = <<>> /\ st.known = ToSet(start.seen) /\ st.at = start.offset
        /\ st.prior = start.prior
    BY <2>1 DEF Unread
  <2>3. ToSet(st.turns) = {}
    BY <2>2, EmptyParted
  <2>4. st.known \ {0} = Keys(transcript, start.offset)
    BY <2>2 DEF Faithful, Keys
  <2>5. Grown(transcript, st)
    BY <2>2, <2>3, <2>4 DEF Grown, Faithful
  <2>6. s[start.offset] = st /\ st \in ScanState
    BY <1>3, <2>1, UnreadTypes DEF Scans
  <2>7. Good(start.offset)
    BY <2>2, <2>5, <2>6
  <2>. HIDE DEF Good
  <2>. QED  BY <1>1, <2>7
<1>5. ASSUME NEW n \in start.offset .. Len(transcript), n # Len(transcript), n \in G
      PROVE  n + 1 \in G
  <2>1. Good(n)
    BY <1>5
  <2>2. s[n + 1] = ScanLine(s[n], transcript[n + 1])
    BY <1>3, <1>5 DEF Scans
  <2>3. n + 1 \in start.offset .. Len(transcript) /\ n + 1 \in DOMAIN transcript
        /\ transcript[n + 1] \in Line
    BY <1>1, <1>5
  <2>4. s[n + 1] \in ScanState /\ s[n + 1].at = n + 1
    BY <2>1, <2>2, <2>3, LineTypes
  <2>5. Grown(transcript, s[n + 1])
    BY <2>1, <2>2, <2>3, LineGrown
  <2>6. Good(n + 1)
    BY <2>4, <2>5
  <2>. HIDE DEF Good
  <2>. QED  BY <2>3, <2>6
<1>6. Good(Len(transcript))
  <2>. HIDE DEF G
  <2>1. \A n \in start.offset .. Len(transcript) : n # Len(transcript) /\ n \in G => n + 1 \in G
    BY <1>5
  <2>2. PICK len \in Nat : len = Len(transcript)
    BY <1>1
  <2>3. \A n \in start.offset .. len : n \in G
    BY <1>1, <1>4, <2>1, <2>2, Induct
  <2>4. Len(transcript) \in G
    BY <1>1, <2>2, <2>3
  <2>. QED  BY <2>4 DEF G
<1>. QED  BY <1>3, <1>6

\* A hook's scan leaves a cursor that remembers all lines, unless it forgot a key.
LEMMA ScanFaithful ==
  ASSUME NEW start \in File, gen \in Nat, transcript \in Seq(Line), KeysOfTurns(transcript),
         Faithful(transcript, start), KeysKnown(start),
         LET st == ScanFrom(start) IN ~(Cardinality(st.known \ {0}) > Len(st.seen))
  PROVE  /\ Faithful(transcript, ScanEnd(start))
         /\ \A t \in ToSet(ScanFrom(start).turns) : IsGrowth(transcript, t)
<1>1. start.offset \in Nat /\ start.offset =< Len(transcript) /\ Len(transcript) \in Nat
  BY DEF File, Faithful
<1>2. From(start) = start
  BY <1>1 DEF From
<1>3. PICK st : st = ScanFrom(start)
  OBVIOUS
<1>4. st.at = Len(transcript) /\ Remembered(st)
  BY <1>2, <1>3, ScanFinds
<1>5. st.known \ {0} = ToSet(st.seen)
  BY <1>3, <1>4 DEF Remembered, KeysMatch
<1>6. Grown(transcript, st)
  BY <1>3, ScanGrown
<1>7. PICK end : end = ScanEnd(start)
  OBVIOUS
<1>8. end.offset = Len(transcript) /\ end.seen = st.seen /\ end.prior = st.prior
  BY <1>3, <1>4, <1>7 DEF ScanEnd
<1>9. Faithful(transcript, end)
  <2>1. end.prior = Context(transcript, end.offset) /\ ToSet(end.seen) = Keys(transcript, end.offset)
    BY <1>4, <1>5, <1>6, <1>8 DEF Grown
  <2>2. end.offset =< Len(transcript)
    BY <1>1, <1>8
  <2>. QED  BY <2>1, <2>2 DEF Faithful
<1>. QED  BY <1>3, <1>6, <1>7, <1>9 DEF Grown

(***************************************************************************)
(* Events bill what their messages add                                     *)
(***************************************************************************)

\* The inductive invariant, as long as there is no mishap: every cursor
\* remembers the lines behind it, and every turn and event bills what its
\* message adds.
Billed ==
  /\ KeysOfTurns(transcript)
  /\ Faithful(transcript, ReadCursor)
  /\ \A h \in Hooks :
       /\ hook[h].pc = "scan" => Faithful(transcript, hook[h].start)
       /\ hook[h].pc \in {"truncate", "write"} => Faithful(transcript, hook[h].end)
       /\ \A t \in ToSet(hook[h].todo) : IsGrowth(transcript, t)
  /\ \A ev \in queued : IsGrowth(transcript, ev)
BilledInv == mishaps = {} => Billed

LEMMA ZeroIsFaithful == ASSUME NEW tr \in Seq(Line) PROVE Faithful(tr, Zero)
<1>1. Zero.offset = 0 /\ Zero.prior = 0 /\ Zero.seen = <<>>
  BY DEF Zero
<1>2. 1 .. 0 = {}
  OBVIOUS
<1>3. Keys(tr, 0) = {} /\ Firsts(tr, 0) = {}
  BY <1>2 DEF Keys, Firsts
<1>4. Context(tr, 0) = 0
  BY <1>3 DEF Context
<1>5. ToSet(<<>>) = {} /\ 0 =< Len(tr)
  BY EmptyParted
<1>. QED  BY <1>1, <1>3, <1>4, <1>5 DEF Faithful

LEMMA RestSubset ==
  ASSUME NEW s \in Seq(Turn), NEW t \in Seq(Turn), NEW k \in Nat, Rest(t, s, k)
  PROVE  ToSet(t) \subseteq ToSet(s)
<1>1. DOMAIN t = 1 .. Len(t) /\ DOMAIN s = 1 .. Len(s) /\ Len(t) \in Nat /\ Len(s) \in Nat
  BY LenProperties
<1>2. ASSUME NEW i \in DOMAIN t PROVE i + k \in DOMAIN s /\ t[i] = s[i + k]
  BY <1>1 DEF Rest
<1>. QED  BY <1>2 DEF ToSet

\* The turns a hook has to enqueue are those it had, or those its scan found.
LEMMA ActTodo ==
  ASSUME Types, Handing, NEW h \in Hooks, Acts(h), ~Scan(h)
  PROVE  /\ ToSet(hook'[h].todo) \subseteq ToSet(hook[h].todo)
         /\ \A ev \in queued' : ev \in queued \/ \E t \in ToSet(hook[h].todo) : ev = EventOf(t, h)
<1>1. hook[h].todo \in Seq(Turn)
  BY DEF Types, HookState
<1>2. CASE EnqueueTurn(h) \/ EnqueueFails(h)
  <2>1. PICK head : head = Head(hook[h].todo)
    OBVIOUS
  <2>2. PICK s \in HookState :
          /\ Become(h, s)
          /\ \E k \in Nat : Rest(s.todo, hook[h].todo, k)
          /\ \/ /\ queued' = queued \cup {EventOf(head, h)}
                /\ ToSet(hook[h].todo) = {head} \cup ToSet(s.todo)
             \/ queued' = queued
    BY <1>2, <2>1, EnqueueSteps
  <2>3. hook'[h] = s /\ s.todo \in Seq(Turn)
    BY <2>2, Becomes DEF Types, HookState
  <2>4. ToSet(s.todo) \subseteq ToSet(hook[h].todo)
    BY <1>1, <2>2, <2>3, RestSubset
  <2>. QED  BY <2>2, <2>3, <2>4
<1>3. CASE ~(EnqueueTurn(h) \/ EnqueueFails(h))
  <2>1. queued' = queued
    BY <1>3 DEF Acts, PostToolUse, Stop, EnqueueTool, TakeCursor, CursorUnread, Scan, ScanFails, TruncateCursor,
         WriteCursor, WriteFails, OpenQueue, Crash
  <2>2. \E s \in HookState : Become(h, s) /\ s.todo \in {<<>>, hook[h].todo}
    <3>1. CASE PostToolUse(h)
      BY <3>1, HookSteps
    <3>2. CASE Stop(h)
      BY <3>2, HookSteps
    <3>3. CASE EnqueueTool(h)
      BY <3>3, HookSteps
    <3>4. CASE TakeCursor(h) \/ CursorUnread(h)
      <4>1. PICK s \in HookState : Become(h, s) /\ s.todo = hook[h].todo
        BY <3>4, HookSteps
      <4>. QED  BY <4>1
    <3>5. CASE TruncateCursor(h)
      <4>1. PICK s \in HookState : Become(h, s) /\ s.todo = hook[h].todo
        BY <3>5, HookSteps
      <4>. QED  BY <4>1
    <3>6. CASE WriteCursor(h) \/ WriteFails(h)
      <4>1. PICK s \in HookState : Become(h, s) /\ s.todo = hook[h].todo
        BY <3>6, HookSteps
      <4>. QED  BY <4>1
    <3>7. CASE ScanFails(h) \/ Crash(h)
      BY <3>7, HookSteps
    <3>8. CASE OpenQueue(h)
      <4>1. PICK s \in HookState : Become(h, s) /\ (s.todo = hook[h].todo \/ s.todo = <<>>)
        BY <3>8, HookSteps
      <4>. QED  BY <4>1
    <3>. QED  BY <1>3, <3>1, <3>2, <3>3, <3>4, <3>5, <3>6, <3>7, <3>8 DEF Acts
  <2>3. PICK s \in HookState : Become(h, s) /\ s.todo \in {<<>>, hook[h].todo}
    BY <2>2
  <2>4. hook'[h] = s
    BY <2>3, Becomes DEF Types
  <2>5. ToSet(s.todo) \subseteq ToSet(hook[h].todo)
    BY <2>3, EmptyParted
  <2>. QED  BY <2>1, <2>4, <2>5
<1>. QED  BY <1>2, <1>3

LEMMA EventIsGrowth ==
  ASSUME NEW tr, NEW t \in Turn, NEW h \in Hooks, IsGrowth(tr, t)
  PROVE  IsGrowth(tr, EventOf(t, h))
<1>1. PICK ev : ev = EventOf(t, h)
  OBVIOUS
<1>2. ev.at = t.at /\ ev.key = t.key /\ ev.delta = t.delta
  BY <1>1, EventOfTurn
<1>. QED  BY <1>1, <1>2 DEF IsGrowth

\* What a scan that neither forgets nor overlaps leaves.
LEMMA BilledByScan ==
  ASSUME Types, Handing, Alone, Billed, NEW h \in Hooks, Scan(h), mishaps' = {}
  PROVE  /\ \A t \in ToSet(hook'[h].todo) : IsGrowth(transcript, t)
         /\ hook'[h].pc \in {"truncate", "write"} => Faithful(transcript, hook'[h].end)
<1>1. hook[h].pc = "scan" /\ hook[h] \in HookState /\ gen \in Nat /\ transcript \in Seq(Line)
  BY ClaudeConstantsOK DEF Scan, Types
<1>2. PICK start \in File : start = hook[h].start
  BY <1>1 DEF HookState
<1>3. KeysKnown(start)
  <2>1. \A g \in Hooks : hook[g].pc # "write"
    BY <1>1 DEF Alone, Scanning
  <2>. QED  BY <1>1, <1>2, <2>1 DEF Alone, Bounds
<1>4. Faithful(transcript, start) /\ KeysOfTurns(transcript)
  BY <1>1, <1>2 DEF Billed
<1>5. ~(Cardinality(ScanFrom(start).known \ {0}) > Len(ScanFrom(start).seen))
  BY <1>2 DEF Scan
<1>6. PICK turns : turns = ScanFrom(start).turns
  OBVIOUS
<1>7. PICK end : end = ScanEnd(start)
  OBVIOUS
<1>8. Faithful(transcript, end) /\ \A t \in ToSet(turns) : IsGrowth(transcript, t)
  BY <1>1, <1>3, <1>4, <1>5, <1>6, <1>7, ScanFaithful
<1>9. /\ turns \in Seq(Turn)
      /\ \/ hook'[h].pc = "truncate" /\ hook'[h].end = end /\ hook'[h].todo = turns
         \/ hook'[h] = Deliver(hook[h].kind, turns)
  BY <1>2, <1>6, <1>7, ScanSteps
<1>10. Deliver(hook[h].kind, turns).todo = turns
       /\ Deliver(hook[h].kind, turns).pc \in {"open", "enqueue", "done"}
  BY <1>9, DeliverTypes
<1>. QED  BY <1>8, <1>9, <1>10

LEMMA BilledByHook ==
  ASSUME Types, Handing, Alone, Billed, NEW h \in Hooks, Acts(h), mishaps' = {}
  PROVE  Billed'
<1>1. /\ \A g \in Hooks \ {h} : hook'[g] = hook[g]
      /\ transcript' = transcript /\ hook[h] \in HookState /\ transcript \in Seq(Line)
  BY ActTypes DEF Types
<1>2. PICK tr \in Seq(Line) : tr = transcript
  BY <1>1
<1>3. KeysOfTurns(transcript)'
  BY <1>1 DEF Billed, KeysOfTurns
<1>4. Faithful(tr, ReadCursor')
  <2>1. CASE cursor' = cursor
    BY <1>2, <2>1 DEF ReadCursor, Billed
  <2>2. CASE cursor' = Torn
    BY <2>2, ZeroIsFaithful DEF ReadCursor
  <2>3. CASE hook[h].pc = "write" /\ cursor' = hook[h].end
    <3>1. hook[h].end \in File
      BY <1>1 DEF HookState
    <3>2. ReadCursor' = hook[h].end
      BY <2>3, <3>1, TornIsNoFile DEF ReadCursor
    <3>3. Faithful(tr, hook[h].end)
      BY <1>2, <2>3 DEF Billed
    <3>. QED  BY <3>2, <3>3
  <2>. QED  BY <2>1, <2>2, <2>3, ActCursor
<1>5. ASSUME NEW g \in Hooks, hook'[g].pc = "scan" PROVE Faithful(tr, hook'[g].start)
  <2>1. CASE g # h
    BY <1>1, <1>2, <1>5, <2>1 DEF Billed
  <2>2. CASE g = h
    <3>1. PICK s \in HookState : Become(h, s) /\ s.start = ReadCursor
      <4>1. TakeCursor(h)
        BY <1>5, <2>2, HookPcs DEF CursorUnread
      <4>. QED  BY <4>1, HookSteps
    <3>2. hook'[h] = s
      BY <3>1, Becomes DEF Types
    <3>. QED  BY <1>2, <2>2, <3>1, <3>2 DEF Billed
  <2>. QED  BY <2>1, <2>2
<1>6. ASSUME NEW g \in Hooks, hook'[g].pc \in {"truncate", "write"} PROVE Faithful(tr, hook'[g].end)
  <2>1. CASE g # h
    BY <1>1, <1>2, <1>6, <2>1 DEF Billed
  <2>2. CASE g = h /\ hook'[g].pc = "truncate"
    <3>1. Scan(h)
      BY <2>2, HookPcs
    <3>. QED  BY <1>2, <2>2, <3>1, BilledByScan
  <2>3. CASE g = h /\ hook'[g].pc = "write"
    <3>1. TruncateCursor(h)
      BY <2>3, HookPcs
    <3>2. PICK s \in HookState : Become(h, s) /\ s.end = hook[h].end
      BY <3>1, HookSteps
    <3>3. hook'[h] = s
      BY <3>2, Becomes DEF Types
    <3>4. Faithful(tr, hook[h].end)
      BY <1>2, <3>1 DEF TruncateCursor, Billed
    <3>. QED  BY <2>3, <3>2, <3>3, <3>4
  <2>. QED  BY <1>6, <2>1, <2>2, <2>3
<1>7. \A t \in ToSet(hook[h].todo) : t \in Turn /\ IsGrowth(tr, t)
  <2>1. hook[h].todo \in Seq(Turn)
    BY <1>1 DEF HookState
  <2>. QED  BY <1>2, <2>1 DEF Billed, ToSet
<1>8. ASSUME NEW g \in Hooks, NEW t \in ToSet(hook'[g].todo) PROVE IsGrowth(tr, t)
  <2>1. CASE g # h
    BY <1>1, <1>2, <1>8, <2>1 DEF Billed
  <2>2. CASE g = h /\ Scan(h)
    BY <1>2, <2>2, <1>8, BilledByScan
  <2>3. CASE g = h /\ ~Scan(h)
    BY <1>7, <1>8, <2>3, ActTodo
  <2>. QED  BY <2>1, <2>2, <2>3
<1>9. ASSUME NEW ev \in queued' PROVE IsGrowth(tr, ev)
  <2>1. CASE Scan(h)
    BY <1>2, <1>9, <2>1 DEF Scan, Billed
  <2>2. CASE ~Scan(h)
    <3>1. CASE ev \in queued
      BY <1>2, <3>1 DEF Billed
    <3>2. ASSUME NEW t \in ToSet(hook[h].todo), ev = EventOf(t, h) PROVE IsGrowth(tr, ev)
      BY <1>7, <3>2, EventIsGrowth
    <3>. QED  BY <1>9, <2>2, <3>1, <3>2, ActTodo
  <2>. QED  BY <2>1, <2>2
<1>10. tr = transcript'
  BY <1>1, <1>2
<1>. QED  BY <1>3, <1>4, <1>5, <1>6, <1>8, <1>9, <1>10 DEF Billed

\* What Claude Code writes has a key only if it is a turn.
LEMMA AppendOfTurns ==
  ASSUME Types, KeysOfTurns(transcript), NewTurn \/ OtherLine \/ SameMessage
  PROVE  \E line \in Line : AppendLine(line) /\ (~line.turn => line.key = 0)
<1>1. written \in Nat /\ transcript \in Seq(Line) /\ Sizes \subseteq Nat
  BY ClaudeConstantsOK DEF Types
<1>2. CASE NewTurn
  <2>1. PICK n \in Sizes, k \in {0, written + 1} : AppendLine([turn |-> TRUE, key |-> k, effIn |-> n])
    BY <1>2 DEF NewTurn
  <2>2. PICK line : line = [turn |-> TRUE, key |-> k, effIn |-> n]
    OBVIOUS
  <2>3. line \in Line /\ line.turn
    BY <1>1, <2>2 DEF Line
  <2>. QED  BY <2>1, <2>2, <2>3
<1>3. CASE OtherLine
  <2>1. Other \in Line /\ Other.key = 0
    BY DEF Other, Line
  <2>. QED  BY <1>3, <2>1 DEF OtherLine
<1>4. CASE SameMessage
  <2>1. PICK l \in ToSet(transcript) : l.key # 0 /\ AppendLine(l)
    BY <1>4 DEF SameMessage
  <2>2. PICK i \in DOMAIN transcript : l = transcript[i]
    BY <2>1 DEF ToSet
  <2>3. l \in Line /\ l.turn
    BY <1>1, <2>1, <2>2 DEF KeysOfTurns
  <2>. QED  BY <2>1, <2>3
<1>. QED  BY <1>2, <1>3, <1>4

LEMMA BilledByWriter ==
  ASSUME Types, Billed, NEW line \in Line, AppendLine(line), ~line.turn => line.key = 0
  PROVE  Billed'
<1>1. PICK tr \in Seq(Line) : tr = transcript
  BY DEF Types
<1>2. PICK longer : longer = Append(tr, line)
  OBVIOUS
<1>3. UNCHANGED <<cursor, hook, queued>> /\ transcript' = longer
  BY <1>1, <1>2 DEF AppendLine
<1>4. /\ Len(longer) = Len(tr) + 1 /\ Len(tr) \in Nat /\ DOMAIN longer = 1 .. (Len(tr) + 1)
      /\ DOMAIN tr = 1 .. Len(tr)
      /\ \A i \in 1 .. Len(tr) : longer[i] = tr[i]
      /\ longer[Len(tr) + 1] = line
  BY <1>2
<1>5. KeysOfTurns(longer)
  <2>1. KeysOfTurns(tr)
    BY <1>1 DEF Billed
  <2>2. ASSUME NEW i \in DOMAIN longer, ~longer[i].turn PROVE longer[i].key = 0
    <3>1. i = Len(tr) + 1 \/ i \in DOMAIN tr
      BY <1>4
    <3>. QED  BY <1>4, <2>1, <2>2, <3>1 DEF KeysOfTurns
  <2>. QED  BY <2>2 DEF KeysOfTurns
<1>6. ASSUME NEW c \in File, Faithful(tr, c) PROVE Faithful(longer, c)
  <2>1. PICK n \in Nat : n = c.offset
    BY DEF File
  <2>2. n =< Len(tr) /\ ToSet(c.seen) = Keys(tr, n) /\ c.prior = Context(tr, n)
    BY <1>6, <2>1 DEF Faithful
  <2>3. Keys(longer, n) = Keys(tr, n) /\ Context(longer, n) = Context(tr, n)
    BY <1>2, <2>2, AppendKeeps
  <2>4. n =< Len(longer)
    BY <1>4, <2>2
  <2>. QED  BY <2>1, <2>2, <2>3, <2>4 DEF Faithful
<1>7. ASSUME NEW ev, IsGrowth(tr, ev) PROVE IsGrowth(longer, ev)
  <2>1. ev.at \in Firsts(tr, Len(tr))
    BY <1>7 DEF IsGrowth
  <2>2. PICK n \in Nat : n + 1 = ev.at
    <3>1. ev.at \in Nat \ {0}
      BY <2>1 DEF Firsts
    <3>2. ev.at - 1 \in Nat /\ (ev.at - 1) + 1 = ev.at
      BY <3>1
    <3>. QED  BY <3>2
  <2>3. n + 1 \in 1 .. Len(tr) /\ n =< Len(tr) /\ (n + 1) - 1 = n
    <3>1. n + 1 \in 1 .. Len(tr)
      BY <2>1, <2>2 DEF Firsts
    <3>. QED  BY <1>4, <3>1
  <2>4. n + 1 \in Firsts(longer, Len(longer))
    <3>1. Firsts(longer, Len(tr)) = Firsts(tr, Len(tr))
      BY <1>2, <1>4, AppendKeeps
    <3>2. Firsts(longer, Len(tr)) \subseteq Firsts(longer, Len(longer))
      BY <1>4, FirstsGrow
    <3>. QED  BY <2>1, <2>2, <3>1, <3>2
  <2>5. Context(longer, n) = Context(tr, n) /\ longer[n + 1] = tr[n + 1]
    BY <1>2, <1>4, <2>3, AppendKeeps
  <2>6. ev.key = tr[n + 1].key /\ ev.delta = Delta(tr[n + 1].effIn, Context(tr, n))
    BY <1>7, <2>2, <2>3 DEF IsGrowth
  <2>. QED  BY <2>2, <2>3, <2>4, <2>5, <2>6 DEF IsGrowth
<1>8. Faithful(longer, ReadCursor')
  <2>1. ReadCursor' = ReadCursor /\ ReadCursor \in File
    BY <1>3, ZeroIsFile DEF ReadCursor, Types
  <2>. QED  BY <1>1, <1>6, <2>1 DEF Billed
<1>9. ASSUME NEW h \in Hooks
      PROVE  /\ hook[h].pc = "scan" => Faithful(longer, hook[h].start)
             /\ hook[h].pc \in {"truncate", "write"} => Faithful(longer, hook[h].end)
             /\ \A t \in ToSet(hook[h].todo) : IsGrowth(longer, t)
  <2>1. hook[h].start \in File /\ hook[h].end \in File
    BY DEF Types, HookState
  <2>. QED  BY <1>1, <1>6, <1>7, <2>1 DEF Billed
<1>10. \A ev \in queued : IsGrowth(longer, ev)
  BY <1>1, <1>7 DEF Billed
<1>. QED  BY <1>3, <1>5, <1>8, <1>9, <1>10 DEF Billed

LEMMA NextBilled ==
  ASSUME Types, Handing, AloneInv, BilledInv, [Next]_vars
  PROVE  BilledInv'
<1>. SUFFICES ASSUME mishaps' = {} PROVE Billed'
  BY DEF BilledInv
<1>1. Alone /\ Billed
  BY MishapsKept DEF AloneInv, BilledInv
<1>2. CASE NewTurn \/ OtherLine \/ SameMessage
  <2>1. KeysOfTurns(transcript)
    BY <1>1 DEF Billed
  <2>. QED  BY <1>1, <1>2, <2>1, AppendOfTurns, BilledByWriter
<1>3. CASE Rotate
  BY <1>3 DEF Rotate
<1>4. ASSUME NEW h \in Hooks, Acts(h) PROVE Billed'
  BY <1>1, <1>4, BilledByHook
<1>5. CASE UNCHANGED vars
  BY <1>1, <1>5 DEF vars, Billed, ReadCursor
<1>. QED  BY <1>2, <1>3, <1>4, <1>5, NextCases

LEMMA InitBilled == Init => BilledInv
<1>. SUFFICES ASSUME Init PROVE Billed
  BY DEF BilledInv
<1>1. transcript = <<>> /\ ReadCursor = Zero /\ queued = {} /\ DOMAIN transcript = {}
  BY DEF Init, ReadCursor
<1>2. \A h \in Hooks : hook[h].pc = "off" /\ hook[h].todo = <<>>
  BY DEF Init, NotStarted
<1>3. Faithful(transcript, ReadCursor)
  <2>1. transcript \in Seq(Line)
    BY <1>1
  <2>. QED  BY <1>1, <2>1, ZeroIsFaithful
<1>. QED  BY <1>1, <1>2, <1>3, EmptyParted DEF Billed, KeysOfTurns

(***************************************************************************)
(* Sums over sets                                                          *)
(***************************************************************************)

\* t has the sum of d over every subset of S.
Adds(t, d, S) ==
  /\ t \in [SUBSET S -> Int] /\ t[{}] = 0
  /\ \A s \in SUBSET S : \A x \in s : t[s] = d[x] + t[s \ {x}]

LEMMA AddsMore ==
  ASSUME NEW S, NEW U, NEW d \in [U -> Int], S \subseteq U, NEW x \in U, x \notin S,
         NEW t, Adds(t, d, S)
  PROVE  \E u : Adds(u, d, S \cup {x})
<1>. DEFINE u == [s \in SUBSET (S \cup {x}) |-> IF x \in s THEN d[x] + t[s \ {x}] ELSE t[s]]
<1>1. \A s \in SUBSET (S \cup {x}) : s \ {x} \in SUBSET S /\ (x \notin s => s \in SUBSET S)
  OBVIOUS
<1>2. t \in [SUBSET S -> Int] /\ d[x] \in Int /\ t[{}] = 0
      /\ \A s \in SUBSET S : \A y \in s : t[s] = d[y] + t[s \ {y}]
  BY DEF Adds
<1>3. u \in [SUBSET (S \cup {x}) -> Int]
  <2>1. ASSUME NEW s \in SUBSET (S \cup {x})
        PROVE  (IF x \in s THEN d[x] + t[s \ {x}] ELSE t[s]) \in Int
    <3>1. s \ {x} \in SUBSET S => t[s \ {x}] \in Int
      BY <1>2
    <3>2. s \in SUBSET S => t[s] \in Int
      BY <1>2
    <3>. QED  BY <1>1, <1>2, <3>1, <3>2
  <2>. QED  BY <2>1
<1>4. u[{}] = 0
  BY <1>2
<1>5. ASSUME NEW s \in SUBSET (S \cup {x}), NEW y \in s PROVE u[s] = d[y] + u[s \ {y}]
  <2>1. CASE y = x
    <3>1. u[s] = d[x] + t[s \ {x}]
      BY <2>1
    <3>2. s \ {x} \in SUBSET (S \cup {x}) /\ x \notin s \ {x}
      OBVIOUS
    <3>3. u[s \ {x}] = t[s \ {x}]
      BY <3>2
    <3>. QED  BY <2>1, <3>1, <3>3
  <2>2. CASE y # x /\ x \notin s
    <3>1. s \in SUBSET S /\ s \ {y} \in SUBSET (S \cup {x}) /\ x \notin s \ {y}
      BY <1>1, <2>2
    <3>2. u[s] = t[s] /\ u[s \ {y}] = t[s \ {y}]
      BY <2>2, <3>1
    <3>3. t[s] = d[y] + t[s \ {y}]
      BY <1>2, <3>1
    <3>. QED  BY <3>2, <3>3
  <2>3. CASE y # x /\ x \in s
    <3>. DEFINE r == s \ {x}
    <3>1. r \in SUBSET S /\ y \in r
      BY <1>1, <2>3
    <3>2. s \ {y} \in SUBSET (S \cup {x}) /\ x \in s \ {y} /\ (s \ {y}) \ {x} = r \ {y}
      BY <2>3
    <3>3. u[s] = d[x] + t[r]
      BY <2>3
    <3>4. u[s \ {y}] = d[x] + t[r \ {y}]
      BY <3>2
    <3>. HIDE DEF r, u
    <3>5. t[r] = d[y] + t[r \ {y}]
      BY <1>2, <3>1
    <3>6. PICK a \in Int : a = d[x]
      BY <1>2
    <3>7. PICK b \in Int : b = d[y]
      <4>1. y \in U
        BY <3>1
      <4>. QED  BY <4>1
    <3>8. PICK c \in Int : c = t[r \ {y}]
      <4>1. r \ {y} \in SUBSET S
        BY <3>1
      <4>. QED  BY <1>2, <4>1
    <3>9. a + (b + c) = b + (a + c)
      OBVIOUS
    <3>10. u[s] = a + (b + c)
      BY <3>3, <3>5, <3>6, <3>7, <3>8
    <3>11. u[s \ {y}] = a + c
      BY <3>4, <3>6, <3>8
    <3>. QED  BY <3>7, <3>9, <3>10, <3>11
  <2>. QED  BY <2>1, <2>2, <2>3
<1>. HIDE DEF u
<1>6. Adds(u, d, S \cup {x})
  BY <1>3, <1>4, <1>5 DEF Adds
<1>. QED  BY <1>6

\* The sums over the subsets of a finite set exist.
LEMMA AddsExist ==
  ASSUME NEW U, IsFiniteSet(U), NEW d \in [U -> Int]
  PROVE  \E t : Adds(t, d, U)
<1>. DEFINE N == {n \in Nat : \A S \in SUBSET U : Cardinality(S) = n => \E t : Adds(t, d, S)}
<1>1. 0 \in N
  <2>1. ASSUME NEW S \in SUBSET U, Cardinality(S) = 0 PROVE \E t : Adds(t, d, S)
    <3>1. S = {}
      BY <2>1, FS_Subset, FS_EmptySet
    <3>. DEFINE t == [s \in SUBSET S |-> 0]
    <3>2. Adds(t, d, S)
      BY <3>1 DEF Adds
    <3>. QED  BY <3>2
  <2>. QED  BY <2>1
<1>2. ASSUME NEW n \in Nat, n \in N PROVE n + 1 \in N
  <2>1. ASSUME NEW S \in SUBSET U, Cardinality(S) = n + 1 PROVE \E t : Adds(t, d, S)
    <3>1. IsFiniteSet(S) /\ S # {}
      BY <2>1, FS_Subset, FS_EmptySet
    <3>2. PICK x \in S : TRUE
      BY <3>1
    <3>3. PICK R : R = S \ {x}
      OBVIOUS
    <3>4. R \in SUBSET U /\ R \subseteq U /\ x \notin R /\ x \in U /\ R \cup {x} = S
      BY <3>3
    <3>5. Cardinality(R) = n
      <4>1. Cardinality(R) = Cardinality(S) - 1
        BY <3>1, <3>2, <3>3, FS_RemoveElement
      <4>. QED  BY <2>1, <4>1
    <3>6. PICK t : Adds(t, d, R)
      BY <1>2, <3>4, <3>5
    <3>7. \E u : Adds(u, d, R \cup {x})
      BY <3>4, <3>6, AddsMore
    <3>. QED  BY <3>4, <3>7
  <2>. QED  BY <2>1
<1>3. PICK n \in Nat : n = Cardinality(U)
  BY FS_CardinalityType
<1>4. n \in N
  <2>. HIDE DEF N
  <2>1. \A k \in 0 .. n : k # n /\ k \in N => k + 1 \in N
    BY <1>2
  <2>2. \A k \in 0 .. n : k \in N
    BY <1>1, <2>1, Induct
  <2>. QED  BY <2>2
<1>5. U \in SUBSET U
  OBVIOUS
<1>. QED  BY <1>3, <1>4, <1>5

AnyOf(k) == CHOOSE y \in k : TRUE

\* w adds up d as MapThenSumSet does, which takes any element first.
Folds(w, d, S) ==
  w = [k \in SUBSET S |-> IF k = {} THEN 0 ELSE d[AnyOf(k)] + w[k \ {AnyOf(k)}]]

LEMMA AddsFolds ==
  ASSUME NEW S, NEW d \in [S -> Int], NEW t, Adds(t, d, S)
  PROVE  Folds(t, d, S)
<1>1. t \in [SUBSET S -> Int] /\ t[{}] = 0
      /\ \A k \in SUBSET S : \A x \in k : t[k] = d[x] + t[k \ {x}]
  BY DEF Adds
<1>2. ASSUME NEW k \in SUBSET S
      PROVE  t[k] = IF k = {} THEN 0 ELSE d[AnyOf(k)] + t[k \ {AnyOf(k)}]
  <2>1. k # {} => AnyOf(k) \in k
    BY DEF AnyOf
  <2>. QED  BY <1>1, <2>1
<1>. QED  BY <1>1, <1>2 DEF Folds

LEMMA FoldsAdd ==
  ASSUME NEW S, IsFiniteSet(S), NEW d \in [S -> Int], NEW t, Adds(t, d, S), NEW w, Folds(w, d, S)
  PROVE  w[S] = t[S]
<1>. DEFINE N == {n \in Nat : \A k \in SUBSET S : Cardinality(k) = n => w[k] = t[k]}
<1>1. /\ \A k \in SUBSET S : w[k] = IF k = {} THEN 0 ELSE d[AnyOf(k)] + w[k \ {AnyOf(k)}]
      /\ \A k \in SUBSET S : t[k] = IF k = {} THEN 0 ELSE d[AnyOf(k)] + t[k \ {AnyOf(k)}]
  <2>1. Folds(t, d, S)
    BY AddsFolds
  <2>. QED  BY <2>1 DEF Folds
<1>2. 0 \in N
  <2>1. ASSUME NEW k \in SUBSET S, Cardinality(k) = 0 PROVE w[k] = t[k]
    <3>1. k = {}
      BY <2>1, FS_Subset, FS_EmptySet
    <3>. QED  BY <1>1, <3>1
  <2>. QED  BY <2>1
<1>3. ASSUME NEW n \in Nat, n \in N PROVE n + 1 \in N
  <2>1. ASSUME NEW k \in SUBSET S, Cardinality(k) = n + 1 PROVE w[k] = t[k]
    <3>1. IsFiniteSet(k) /\ k # {}
      BY <2>1, FS_Subset, FS_EmptySet
    <3>2. PICK x \in k : x = AnyOf(k)
      BY <3>1 DEF AnyOf
    <3>3. PICK rest \in SUBSET S : rest = k \ {x}
      OBVIOUS
    <3>4. Cardinality(rest) = n
      <4>1. Cardinality(rest) = Cardinality(k) - 1
        BY <3>1, <3>3, FS_RemoveElement
      <4>. QED  BY <2>1, <4>1
    <3>5. w[rest] = t[rest]
      BY <1>3, <3>4
    <3>6. w[k] = d[x] + w[rest] /\ t[k] = d[x] + t[rest]
      BY <1>1, <3>1, <3>2, <3>3
    <3>. QED  BY <3>5, <3>6
  <2>. QED  BY <2>1
<1>4. PICK n \in Nat : n = Cardinality(S)
  BY FS_CardinalityType
<1>5. n \in N
  <2>. HIDE DEF N
  <2>1. \A k \in 0 .. n : k # n /\ k \in N => k + 1 \in N
    BY <1>3
  <2>2. \A k \in 0 .. n : k \in N
    BY <1>2, <2>1, Induct
  <2>. QED  BY <2>2
<1>6. S \in SUBSET S
  OBVIOUS
<1>. QED  BY <1>4, <1>5, <1>6

\* What the events of the queue bill, and what the messages add to the context.
BilledSum == MapThenSumSet(LAMBDA ev : ev.delta, queued)
GrowthSum == MapThenSumSet(Growth, Distinct)

LEMMA BilledSumIs ==
  ASSUME IsFiniteSet(queued), NEW d \in [queued -> Int], \A ev \in queued : d[ev] = ev.delta,
         NEW t, Adds(t, d, queued)
  PROVE  BilledSum = t[queued]
<1>. DEFINE Whole(w) == w = [k \in SUBSET queued |->
                               IF k = {} THEN 0
                               ELSE LET x == CHOOSE y \in k : TRUE IN x.delta + w[k \ {x}]]
<1>1. ASSUME NEW w PROVE Whole(w) <=> Folds(w, d, queued)
  <2>1. ASSUME NEW k \in SUBSET queued
        PROVE  (IF k = {} THEN 0 ELSE LET x == CHOOSE y \in k : TRUE IN x.delta + w[k \ {x}])
                 = IF k = {} THEN 0 ELSE d[AnyOf(k)] + w[k \ {AnyOf(k)}]
    <3>1. k # {} => AnyOf(k) \in queued
      BY DEF AnyOf
    <3>. QED  BY <3>1 DEF AnyOf
  <2>2. [k \in SUBSET queued |->
           IF k = {} THEN 0 ELSE LET x == CHOOSE y \in k : TRUE IN x.delta + w[k \ {x}]]
        = [k \in SUBSET queued |-> IF k = {} THEN 0 ELSE d[AnyOf(k)] + w[k \ {AnyOf(k)}]]
    BY <2>1
  <2>. QED  BY <2>2, Zenon DEF Folds
<1>2. BilledSum = (CHOOSE w : Whole(w))[queued]
  BY DEF BilledSum, MapThenSumSet, MapThenFoldSet
<1>. HIDE DEF Whole
<1>3. Whole(t)
  BY <1>1, AddsFolds
<1>4. Whole(CHOOSE w : Whole(w))
  BY <1>3
<1>5. PICK w : Whole(w) /\ BilledSum = w[queued]
  BY <1>2, <1>4
<1>. QED  BY <1>1, <1>5, FoldsAdd

LEMMA GrowthSumIs ==
  ASSUME IsFiniteSet(Distinct), NEW d \in [Distinct -> Int], \A i \in Distinct : d[i] = Growth(i),
         NEW t, Adds(t, d, Distinct)
  PROVE  GrowthSum = t[Distinct]
<1>. DEFINE Whole(w) == w = [k \in SUBSET Distinct |->
                               IF k = {} THEN 0
                               ELSE LET x == CHOOSE y \in k : TRUE IN Growth(x) + w[k \ {x}]]
<1>1. ASSUME NEW w PROVE Whole(w) <=> Folds(w, d, Distinct)
  <2>1. ASSUME NEW k \in SUBSET Distinct
        PROVE  (IF k = {} THEN 0 ELSE LET x == CHOOSE y \in k : TRUE IN Growth(x) + w[k \ {x}])
                 = IF k = {} THEN 0 ELSE d[AnyOf(k)] + w[k \ {AnyOf(k)}]
    <3>1. k # {} => AnyOf(k) \in Distinct
      BY DEF AnyOf
    <3>. QED  BY <3>1 DEF AnyOf
  <2>2. [k \in SUBSET Distinct |->
           IF k = {} THEN 0 ELSE LET x == CHOOSE y \in k : TRUE IN Growth(x) + w[k \ {x}]]
        = [k \in SUBSET Distinct |-> IF k = {} THEN 0 ELSE d[AnyOf(k)] + w[k \ {AnyOf(k)}]]
    BY <2>1
  <2>. QED  BY <2>2, Zenon DEF Folds
<1>2. GrowthSum = (CHOOSE w : Whole(w))[Distinct]
  BY DEF GrowthSum, MapThenSumSet, MapThenFoldSet
<1>. HIDE DEF Whole
<1>3. Whole(t)
  BY <1>1, AddsFolds
<1>4. Whole(CHOOSE w : Whole(w))
  BY <1>3
<1>5. PICK w : Whole(w) /\ GrowthSum = w[Distinct]
  BY <1>2, <1>4
<1>. QED  BY <1>1, <1>5, FoldsAdd

\* The lines of the turns that are billed.
Ats(E) == {ev.at : ev \in E}

\* If every event bills what its line adds, and no two are of one line, the
\* sums are the same.
LEMMA SameSum ==
  ASSUME NEW E, IsFiniteSet(E), NEW d \in [E -> Int], NEW t, Adds(t, d, E),
         NEW g \in [Ats(E) -> Int], NEW u, Adds(u, g, Ats(E)),
         \A ev \in E : d[ev] = g[ev.at],
         \A ev, other \in E : ev.at = other.at => ev = other
  PROVE  t[E] = u[Ats(E)]
<1>. DEFINE N == {n \in Nat : \A k \in SUBSET E : Cardinality(k) = n => t[k] = u[Ats(k)]}
<1>1. /\ t[{}] = 0 /\ \A k \in SUBSET E : \A x \in k : t[k] = d[x] + t[k \ {x}]
      /\ u[{}] = 0 /\ \A s \in SUBSET Ats(E) : \A i \in s : u[s] = g[i] + u[s \ {i}]
  BY DEF Adds
<1>2. 0 \in N
  <2>1. ASSUME NEW k \in SUBSET E, Cardinality(k) = 0 PROVE t[k] = u[Ats(k)]
    <3>1. k = {}
      BY <2>1, FS_Subset, FS_EmptySet
    <3>2. Ats(k) = {}
      BY <3>1 DEF Ats
    <3>. QED  BY <1>1, <3>1, <3>2
  <2>. QED  BY <2>1
<1>3. ASSUME NEW n \in Nat, n \in N PROVE n + 1 \in N
  <2>1. ASSUME NEW k \in SUBSET E, Cardinality(k) = n + 1 PROVE t[k] = u[Ats(k)]
    <3>1. IsFiniteSet(k) /\ k # {}
      BY <2>1, FS_Subset, FS_EmptySet
    <3>2. PICK x \in k : TRUE
      BY <3>1
    <3>3. PICK rest \in SUBSET E : rest = k \ {x}
      OBVIOUS
    <3>4. Cardinality(rest) = n
      <4>1. Cardinality(rest) = Cardinality(k) - 1
        BY <3>1, <3>2, <3>3, FS_RemoveElement
      <4>. QED  BY <2>1, <4>1
    <3>5. t[rest] = u[Ats(rest)]
      BY <1>3, <3>4
    <3>6. Ats(k) \in SUBSET Ats(E) /\ x.at \in Ats(k) /\ Ats(rest) = Ats(k) \ {x.at}
      BY <3>3 DEF Ats
    <3>7. t[k] = d[x] + t[rest]
      BY <1>1, <3>3
    <3>8. u[Ats(k)] = g[x.at] + u[Ats(rest)]
      <4>1. PICK s \in SUBSET Ats(E) : s = Ats(k)
        BY <3>6
      <4>2. PICK i \in s : i = x.at
        BY <3>6, <4>1
      <4>3. u[s] = g[i] + u[s \ {i}]
        BY <1>1
      <4>. QED  BY <3>6, <4>1, <4>2, <4>3
    <3>9. d[x] = g[x.at]
      OBVIOUS
    <3>. QED  BY <3>5, <3>7, <3>8, <3>9
  <2>. QED  BY <2>1
<1>4. PICK n \in Nat : n = Cardinality(E)
  BY FS_CardinalityType
<1>5. n \in N
  <2>. HIDE DEF N
  <2>1. \A k \in 0 .. n : k # n /\ k \in N => k + 1 \in N
    BY <1>3
  <2>2. \A k \in 0 .. n : k \in N
    BY <1>2, <2>1, Induct
  <2>. QED  BY <2>2
<1>6. E \in SUBSET E
  OBVIOUS
<1>. QED  BY <1>4, <1>5, <1>6

(***************************************************************************)
(* Between hooks                                                           *)
(***************************************************************************)

\* The events are of the messages behind the cursor, and each bills what its
\* message adds.
LEMMA QueueIsDistinct ==
  ASSUME Types, Handing, Passed, Alone, Billed, dropped = {}, \A h \in Hooks : ~Started(h)
  PROVE  /\ IsFiniteSet(Distinct) /\ Ats(queued) = Distinct
         /\ \A ev \in queued : Growth(ev.at) = ev.delta
         /\ \A ev, other \in queued : ev.at = other.at => ev = other
<1>1. PICK tr \in Seq(Line) : tr = transcript
  BY DEF Types
<1>2. ReadCursor \in File
  BY ZeroIsFile DEF ReadCursor, Types
<1>3. PICK n \in Nat : n = ReadCursor.offset
  BY <1>2 DEF File
<1>4. \A h \in Hooks : hook[h].pc \in {"off", "done"} /\ hook[h].todo = <<>>
  BY DEF Started, Handing
<1>5. \A h \in Hooks : InHand(h) = {}
  BY <1>4, EmptyParted DEF InHand
<1>6. Noted = queued /\ Settled = queued
  BY <1>5 DEF Noted, Settled
<1>7. n =< Len(tr) /\ Len(tr) \in Nat /\ DOMAIN tr = 1 .. Len(tr)
      /\ ReadCursor.gen = gen /\ \A ev \in queued : ev.at =< n
  <2>1. Bounds(ReadCursor, queued) /\ gen = 0
    BY <1>4, <1>6 DEF Alone
  <2>. QED  BY <1>1, <1>3, <2>1, LenProperties DEF Bounds, Past
<1>8. \A ev \in queued : IsGrowth(tr, ev)
  BY <1>1 DEF Billed
<1>9. Distinct = Firsts(tr, n)
  <2>1. ASSUME NEW i PROVE i \in Distinct <=> i \in Firsts(tr, n)
    <3>1. i \in Turns /\ i =< n <=> i \in 1 .. n /\ tr[i].turn
      BY <1>1, <1>7 DEF Turns
    <3>. QED  BY <1>1, <1>3, <3>1 DEF Distinct, Firsts
  <2>. QED  BY <2>1
<1>10. IsFiniteSet(Distinct)
  <2>1. IsFiniteSet(1 .. n)
    BY FS_Interval
  <2>2. Firsts(tr, n) \in SUBSET (1 .. n)
    BY DEF Firsts
  <2>. QED  BY <1>9, <2>1, <2>2, FS_Subset
<1>11. ASSUME NEW ev \in queued PROVE ev.at \in Distinct
  <2>1. ev.at \in Firsts(tr, Len(tr)) /\ ev.at =< n
    BY <1>7, <1>8 DEF IsGrowth
  <2>2. ev.at \in Firsts(tr, n)
    BY <2>1 DEF Firsts
  <2>. QED  BY <1>9, <2>2
<1>12. ASSUME NEW i \in Distinct PROVE \E ev \in queued : ev.at = i
  <2>1. i \in 1 .. n /\ tr[i].turn
        /\ (tr[i].key = 0 \/ \A j \in 1 .. i - 1 : tr[j].key # tr[i].key)
    BY <1>9 DEF Firsts
  <2>2. i \in Turns /\ i =< ReadCursor.offset
    BY <1>1, <1>3, <1>7, <2>1 DEF Turns
  <2>3. PICK ev \in queued : SameTurn(ev, i)
    BY <1>6, <1>7, <2>2, ReadCovered DEF Covered
  <2>4. CASE tr[i].key = 0
    BY <1>1, <2>3, <2>4 DEF SameTurn
  <2>5. CASE tr[i].key # 0
    <3>1. ev.key = tr[i].key
      BY <1>1, <2>3, <2>5 DEF SameTurn
    <3>2. PICK j \in 1 .. n : j = ev.at
      BY <1>9, <1>11 DEF Firsts
    <3>3. tr[j].key = tr[i].key /\ j \in Firsts(tr, Len(tr))
      BY <1>8, <3>1, <3>2 DEF IsGrowth
    <3>4. \A k \in 1 .. j - 1 : tr[k].key # tr[j].key
      BY <2>5, <3>3 DEF Firsts
    <3>5. ~(i \in 1 .. j - 1) /\ ~(j \in 1 .. i - 1)
      BY <2>1, <2>5, <3>3, <3>4
    <3>6. i = j
      BY <2>1, <3>5
    <3>. QED  BY <3>2, <3>6
  <2>. QED  BY <2>4, <2>5
<1>13. Ats(queued) = Distinct
  BY <1>11, <1>12 DEF Ats
<1>14. ASSUME NEW ev \in queued PROVE Growth(ev.at) = ev.delta
  <2>1. PICK i \in 1 .. n : i = ev.at
    BY <1>9, <1>11 DEF Firsts
  <2>2. ev.delta = Delta(tr[i].effIn, Context(tr, i - 1))
    BY <1>8, <2>1 DEF IsGrowth
  <2>3. PICK before : before = {j \in Distinct : j < i}
    OBVIOUS
  <2>4. before = Firsts(tr, i - 1)
    <3>1. ASSUME NEW j PROVE j \in 1 .. n /\ j < i <=> j \in 1 .. i - 1
      OBVIOUS
    <3>. QED  BY <1>9, <2>3, <3>1 DEF Firsts
  <2>5. PICK prior : prior = IF before = {} THEN 0 ELSE transcript[Max(before)].effIn
    OBVIOUS
  <2>6. prior = Context(tr, i - 1)
    BY <1>1, <2>4, <2>5 DEF Context
  <2>7. Growth(i) = LET m == transcript[i].effIn IN IF m < prior THEN m ELSE m - prior
    BY <2>3, <2>5 DEF Growth
  <2>8. prior \in Nat
    <3>1. before \in SUBSET (1 .. n)
      BY <1>9, <2>3 DEF Firsts
    <3>2. before # {} => Max(before) \in before
      <4>1. before # {} => \E m \in before : \A y \in before : m >= y
        BY <3>1, Greatest
      <4>. QED  BY <4>1 DEF Max
    <3>3. CASE before = {}
      BY <2>5, <3>3
    <3>4. CASE before # {}
      <4>1. PICK last \in 1 .. n : last = Max(before)
        BY <3>1, <3>2, <3>4
      <4>2. tr[last] \in Line
        BY <1>7
      <4>3. prior = tr[last].effIn
        BY <1>1, <2>5, <3>4, <4>1
      <4>. QED  BY <4>2, <4>3 DEF Line
    <3>. QED  BY <3>3, <3>4
  <2>9. PICK m \in Nat : m = tr[i].effIn
    <3>1. tr[i] \in Line
      BY <1>7
    <3>. QED  BY <3>1 DEF Line
  <2>10. Growth(i) = Delta(m, prior)
    <3>1. Growth(i) = IF m < prior THEN m ELSE m - prior
      BY <1>1, <2>7, <2>9
    <3>2. m < prior <=> ~(m >= prior)
      BY <2>8
    <3>. QED  BY <3>1, <3>2 DEF Delta
  <2>. QED  BY <2>1, <2>2, <2>6, <2>9, <2>10
<1>15. \A ev, other \in queued : ev.at = other.at => ev = other
  BY DEF Alone, Clash
<1>. QED  BY <1>10, <1>13, <1>14, <1>15

LEMMA BilledAddsUp ==
  ASSUME Types, Handing, PassedInv, AloneInv, BilledInv
  PROVE  TokensAddUp
<1>. SUFFICES ASSUME mishaps = {}, dropped = {}, \A h \in Hooks : ~Started(h)
              PROVE  BilledSum = GrowthSum
  BY DEF TokensAddUp, BilledSum, GrowthSum
<1>1. Passed /\ Alone /\ Billed
  BY DEF PassedInv, AloneInv, BilledInv
<1>2. /\ IsFiniteSet(Distinct) /\ Ats(queued) = Distinct
      /\ \A ev \in queued : Growth(ev.at) = ev.delta
      /\ \A ev, other \in queued : ev.at = other.at => ev = other
  BY <1>1, QueueIsDistinct
<1>3. \A ev \in queued : ev.delta \in Nat /\ ev.at \in Distinct
  <2>1. \A ev \in queued : ev.delta \in Nat
    BY DEF Types, TurnEvent
  <2>2. \A ev \in queued : ev.at \in Ats(queued)
    BY DEF Ats
  <2>. QED  BY <1>2, <2>1, <2>2
<1>4. IsFiniteSet(queued)
  <2>. DEFINE f == [ev \in queued |-> ev.at]
  <2>1. f \in Injection(queued, Distinct)
    BY <1>2, <1>3 DEF Injection, IsInjective
  <2>. HIDE DEF f
  <2>. QED  BY <1>2, <2>1, FS_Injection
<1>5. PICK d : d = [ev \in queued |-> ev.delta]
  OBVIOUS
<1>6. d \in [queued -> Int] /\ \A ev \in queued : d[ev] = ev.delta
  BY <1>3, <1>5
<1>7. PICK g : g = [i \in Distinct |-> Growth(i)]
  OBVIOUS
<1>8. g \in [Distinct -> Int] /\ \A i \in Distinct : g[i] = Growth(i)
  <2>1. ASSUME NEW i \in Distinct PROVE Growth(i) \in Int
    <3>1. PICK ev \in queued : ev.at = i
      BY <1>2 DEF Ats
    <3>2. Growth(i) = ev.delta
      BY <1>2, <3>1
    <3>. QED  BY <1>3, <3>2
  <2>. QED  BY <1>7, <2>1
<1>9. PICK t : Adds(t, d, queued)
  BY <1>4, <1>6, AddsExist
<1>10. PICK u : Adds(u, g, Distinct)
  BY <1>2, <1>8, AddsExist
<1>11. BilledSum = t[queued]
  BY <1>4, <1>6, <1>9, BilledSumIs
<1>12. GrowthSum = u[Distinct]
  BY <1>2, <1>8, <1>10, GrowthSumIs
<1>13. \A ev \in queued : d[ev] = g[ev.at]
  BY <1>2, <1>3, <1>6, <1>8
<1>14. t[queued] = u[Distinct]
  <2>1. g \in [Ats(queued) -> Int] /\ Adds(u, g, Ats(queued))
    BY <1>2, <1>8, <1>10
  <2>2. t[queued] = u[Ats(queued)]
    BY <1>2, <1>4, <1>6, <1>9, <1>13, <2>1, SameSum
  <2>. QED  BY <1>2, <2>2
<1>. QED  BY <1>11, <1>12, <1>14

\* The hooks that scan a transcript in pieces bill what one look at all of it
\* would, the context each message added to that of the message before it: as
\* long as there was no mishap, no event was lost, and no hook is at work.
THEOREM TokensAddUpTheorem == Spec => []TokensAddUp
<1>1. Init => Types /\ Handing /\ PassedInv /\ AloneInv /\ BilledInv
  BY InitTypes, InitBilled, InitHanding, InitPassed, InitAlone
<1>2. Types /\ Handing /\ PassedInv /\ AloneInv /\ BilledInv /\ [Next]_vars
        => (Types /\ Handing /\ PassedInv /\ AloneInv /\ BilledInv)'
  BY NextTypes, NextPassed, NextAlone, NextBilled
<1>3. Types /\ Handing /\ PassedInv /\ AloneInv /\ BilledInv => TokensAddUp
  BY BilledAddsUp
<1>. QED  BY <1>1, <1>2, <1>3, PTL DEF Spec
=============================================================================
