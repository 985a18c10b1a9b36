---------------------------- MODULE Proxy_proofs ----------------------------
(***************************************************************************)
(* Proofs about Proxy: for any number of calls, any capacity of the        *)
(* capture channel and whatever a Read returns, the wire is transparent,   *)
(* and the capture pipeline reports no call that did not happen and loses  *)
(* none unnoticed.                                                         *)
(*                                                                         *)
(* ProxyInv follows an answer from the wire to its event.  Once upToHost   *)
(* has read it, it is in one place at a time: with the Tee, still to be    *)
(* published; in the channel; with the worker, which makes an event of it  *)
(* and waits for the queue's mutex; or through, as an event or a counted   *)
(* loss.                                                                   *)
(*                                                                         *)
(* WireInv follows a request: what hostToUp has read, upstream has         *)
(* received or the gate refused, but for a frame in hand.                  *)
(***************************************************************************)
EXTENDS Proxy, SequenceTheorems, TLAPS

Frames == {"request", "response"} \X Calls
Responses == {"response"} \X Calls
Replies == {"answer", "refused"} \X Calls

\* Where an answer can be: read by the Tee, with the Tee, in the channel, with
\* the worker.
Read == {answers[i] : i \in 1 .. u.read}
Unpublished == ToSet(u.todo)
Queued == {c \in Calls : <<"response", c>> \in ToSet(chan)}
InWork == ToSet(job)

\* What of R is in a sequence is in it once.
Once(s, R) == \A i, j \in DOMAIN s : s[i] \in R /\ s[i] = s[j] => i = j

HostTeeType ==
  [pc : {"read", "forward", "refuse", "publish", "done"}, read : Nat, todo : Seq(Calls)]
UpTeeType == [pc : {"read", "publish", "done"}, read : Nat, todo : Seq(Calls)]

HostSide ==
  /\ sent \in Seq(Calls)
  /\ h \in HostTeeType
  /\ h.read =< Len(sent)
  /\ h.pc \in {"forward", "refuse", "publish"} => h.todo # <<>>

UpSide ==
  /\ answers \in Seq(Calls) /\ Once(answers, Calls)
  /\ u \in UpTeeType
  /\ u.read =< Len(answers)
  /\ u.pc = "publish" => u.todo # <<>>
  /\ u.pc = "read" \/ (u.pc = "done" /\ worker # "cancelled") => u.todo = <<>>
  /\ Once(u.todo, Calls) /\ Unpublished \subseteq Read
  /\ hostGot \in Seq(Replies) /\ Answered = Read

Captured ==
  /\ chan \in Seq(Frames) /\ Once(chan, Responses)
  /\ Queued \subseteq Read \ Unpublished
  /\ job \in {<<>>} \cup {<<c>> : c \in Tools}
  /\ InWork \subseteq (Tools \cap Read) \ (Unpublished \cup Queued)
  /\ events \in [Calls -> Nat]
  /\ \A c \in Calls : events[c] # 0 =>
       events[c] = 1 /\ c \in (Tools \cap Read) \ (Unpublished \cup Queued \cup InWork)
  /\ \A c \in Tools \cap Read :
       c \in Unpublished \cup Queued \cup InWork \cup counted \/ events[c] = 1

\* Run closes the channel when both wires are done, and the worker drains it
\* after that.
Ending ==
  /\ main # "join" => h.pc = "done" /\ u.pc = "done"
  /\ worker = "drained" => main # "join" /\ chan = <<>> /\ job = <<>>

ProxyInv == HostSide /\ UpSide /\ Captured /\ Ending

-----------------------------------------------------------------------------
(* Sequences                                                               *)

LEMMA EmptyHas == ASSUME NEW R PROVE ToSet(<<>>) = {} /\ Once(<<>>, R)
BY DEF ToSet, Once

LEMMA OneHas == ASSUME NEW e PROVE ToSet(<<e>>) = {e} /\ Head(<<e>>) = e
<1>1. DOMAIN <<e>> = {1} /\ <<e>>[1] = e
  OBVIOUS
<1>. QED  BY <1>1 DEF ToSet

(* One more element.                                                       *)
LEMMA AppendHas ==
  ASSUME NEW S, NEW s \in Seq(S), NEW e \in S, NEW R
  PROVE  /\ Append(s, e) \in Seq(S) /\ Append(s, e) # <<>>
         /\ ToSet(Append(s, e)) = ToSet(s) \cup {e}
         /\ Once(s, R) /\ (e \in R => e \notin ToSet(s)) => Once(Append(s, e), R)
<1>1. /\ Append(s, e) \in Seq(S) /\ Append(s, e) # <<>>
      /\ Len(s) \in Nat /\ DOMAIN s = 1 .. Len(s)
      /\ DOMAIN Append(s, e) = 1 .. (Len(s) + 1)
      /\ \A i \in 1 .. Len(s) : Append(s, e)[i] = s[i]
      /\ Append(s, e)[Len(s) + 1] = e
  BY AppendProperties, LenProperties
<1>2. \A i \in DOMAIN Append(s, e) :
        \/ i \in DOMAIN s /\ Append(s, e)[i] = s[i]
        \/ i = Len(s) + 1 /\ Append(s, e)[i] = e
  BY <1>1
<1>3. DOMAIN s \subseteq DOMAIN Append(s, e) /\ Len(s) + 1 \in DOMAIN Append(s, e)
  BY <1>1
<1>. QED  BY <1>1, <1>2, <1>3 DEF ToSet, Once

(* The first element and the rest.                                         *)
LEMMA TailHas ==
  ASSUME NEW S, NEW s \in Seq(S), s # <<>>, NEW R
  PROVE  /\ Head(s) \in S /\ Tail(s) \in Seq(S)
         /\ ToSet(s) = {Head(s)} \cup ToSet(Tail(s))
         /\ Once(s, R) => Once(Tail(s), R) /\ (Head(s) \in R => Head(s) \notin ToSet(Tail(s)))
<1>1. Len(s) \in Nat /\ DOMAIN s = 1 .. Len(s) /\ Len(s) # 0
  BY EmptySeq, LenProperties
<1>2. /\ Head(s) \in S /\ Tail(s) \in Seq(S) /\ Len(Tail(s)) = Len(s) - 1
      /\ \A i \in 1 .. Len(Tail(s)) : Tail(s)[i] = s[i + 1]
  BY HeadTailProperties
<1>3. DOMAIN Tail(s) = 1 .. (Len(s) - 1)
  BY <1>2, LenProperties
<1>4. \A i \in DOMAIN Tail(s) : /\ i \in Nat /\ i + 1 \in DOMAIN s /\ i + 1 # 1
                                /\ Tail(s)[i] = s[i + 1]
  BY <1>1, <1>2, <1>3
<1>5. Head(s) = s[1] /\ 1 \in DOMAIN s
  BY <1>1
<1>6. \A i \in DOMAIN s : i = 1 \/ (i - 1 \in DOMAIN Tail(s) /\ Tail(s)[i - 1] = s[i])
  BY <1>1, <1>2, <1>3
<1>7. ToSet(s) = {Head(s)} \cup ToSet(Tail(s))
  <2>1. ASSUME NEW i \in DOMAIN s
        PROVE  s[i] = Head(s) \/ \E j \in DOMAIN Tail(s) : s[i] = Tail(s)[j]
    BY <1>5, <1>6
  <2>2. \A j \in DOMAIN Tail(s) : \E i \in DOMAIN s : Tail(s)[j] = s[i]
    BY <1>4
  <2>. QED  BY <1>5, <2>1, <2>2 DEF ToSet
<1>8. ASSUME Once(s, R)
      PROVE  Once(Tail(s), R) /\ (Head(s) \in R => Head(s) \notin ToSet(Tail(s)))
  <2>1. ASSUME NEW i \in DOMAIN Tail(s), NEW j \in DOMAIN Tail(s),
               Tail(s)[i] \in R, Tail(s)[i] = Tail(s)[j]
        PROVE  i = j
    <3>1. i + 1 = j + 1 /\ i \in Nat /\ j \in Nat
      BY <1>4, <1>8, <2>1 DEF Once
    <3>. QED  BY <3>1
  <2>2. ASSUME NEW i \in DOMAIN Tail(s), Tail(s)[i] = Head(s), Head(s) \in R
        PROVE  FALSE
    BY <1>4, <1>5, <1>8, <2>2 DEF Once
  <2>. QED  BY <2>1, <2>2 DEF Once, ToSet
<1>. QED  BY <1>2, <1>7, <1>8

(* What a Read returns.                                                    *)
LEMMA ChunkHas ==
  ASSUME NEW S, NEW s \in Seq(S), NEW k \in Nat, NEW n \in Nat \ {0}, k + n =< Len(s), NEW R
  PROVE  /\ Chunk(s, k, n) \in Seq(S) /\ Chunk(s, k, n) # <<>>
         /\ ToSet(Chunk(s, k, n)) = {s[i] : i \in (k + 1) .. (k + n)}
         /\ Once(s, R) => Once(Chunk(s, k, n), R)
<1>. DEFINE c == Chunk(s, k, n)
<1>1. Len(s) \in Nat /\ DOMAIN s = 1 .. Len(s) /\ \A i \in (k + 1) .. (k + n) : s[i] \in S
  BY LenProperties, ElementOfSeq
<1>2. c \in Seq(S) /\ Len(c) = n /\ \A i \in 1 .. n : c[i] = s[k + i]
  BY <1>1, SubSeqProperties DEF Chunk
<1>3. DOMAIN c = 1 .. n
  BY <1>2, LenProperties
<1>. HIDE DEF c
<1>4. c # <<>>
  BY <1>2, EmptySeq
<1>5. \A i \in 1 .. n : i \in Nat /\ k + i \in DOMAIN s /\ k + i \in (k + 1) .. (k + n) /\ c[i] = s[k + i]
  BY <1>1, <1>2
<1>6. \A i \in (k + 1) .. (k + n) : i - k \in 1 .. n /\ c[i - k] = s[i]
  BY <1>2
<1>7. ToSet(c) = {s[i] : i \in (k + 1) .. (k + n)}
  <2>1. \A i \in 1 .. n : \E j \in (k + 1) .. (k + n) : c[i] = s[j]
    BY <1>5
  <2>2. \A j \in (k + 1) .. (k + n) : \E i \in 1 .. n : c[i] = s[j]
    BY <1>6
  <2>3. ToSet(c) = {c[i] : i \in 1 .. n}
    BY <1>3 DEF ToSet
  <2>4. ASSUME NEW x \in ToSet(c) PROVE x \in {s[i] : i \in (k + 1) .. (k + n)}
    BY <2>1, <2>3
  <2>5. ASSUME NEW x \in {s[i] : i \in (k + 1) .. (k + n)} PROVE x \in ToSet(c)
    BY <2>2, <2>3
  <2>. QED  BY <2>4, <2>5
<1>8. ASSUME Once(s, R) PROVE Once(c, R)
  <2>. SUFFICES ASSUME NEW i \in 1 .. n, NEW j \in 1 .. n, c[i] \in R, c[i] = c[j]
                PROVE  i = j
    BY <1>3 DEF Once
  <2>1. k + i = k + j /\ i \in Nat /\ j \in Nat
    BY <1>5, <1>8 DEF Once
  <2>. QED  BY <2>1
<1>. QED  BY <1>2, <1>4, <1>7, <1>8 DEF c

(* The Tee passes on what it read.                                         *)
LEMMA ReplyHas ==
  ASSUME NEW s \in Seq(Replies), NEW f \in Seq(Calls)
  PROVE  LET t == s \o [i \in DOMAIN f |-> <<"answer", f[i]>>]
         IN  t \in Seq(Replies) /\ ToSet(t) = ToSet(s) \cup {<<"answer", c>> : c \in ToSet(f)}
<1>. DEFINE g == [i \in DOMAIN f |-> <<"answer", f[i]>>]
<1>1. Len(f) \in Nat /\ DOMAIN f = 1 .. Len(f) /\ \A i \in 1 .. Len(f) : f[i] \in Calls
  BY LenProperties, ElementOfSeq
<1>2. \A i \in 1 .. Len(f) : g[i] = <<"answer", f[i]>> /\ g[i] \in Replies
  BY <1>1 DEF Replies
<1>3. g \in Seq(Replies) /\ Len(g) = Len(f) /\ DOMAIN g = 1 .. Len(f)
  BY <1>1, <1>2
<1>4. ToSet(g) = {<<"answer", c>> : c \in ToSet(f)}
  BY <1>1, <1>2, <1>3 DEF ToSet
<1>. HIDE DEF g
<1>5. /\ s \o g \in Seq(Replies) /\ Len(s \o g) = Len(s) + Len(g)
      /\ \A i \in 1 .. Len(s) + Len(g) :
           (s \o g)[i] = IF i <= Len(s) THEN s[i] ELSE g[i - Len(s)]
  BY <1>3, ConcatProperties
<1>6. Len(s) \in Nat /\ Len(g) \in Nat /\ DOMAIN s = 1 .. Len(s) /\ DOMAIN g = 1 .. Len(g)
      /\ DOMAIN (s \o g) = 1 .. (Len(s) + Len(g))
  BY <1>3, <1>5, LenProperties
<1>7. \A i \in DOMAIN (s \o g) :
        \/ i \in DOMAIN s /\ (s \o g)[i] = s[i]
        \/ i - Len(s) \in DOMAIN g /\ (s \o g)[i] = g[i - Len(s)]
  BY <1>5, <1>6
<1>8. /\ \A i \in DOMAIN s : i \in DOMAIN (s \o g) /\ (s \o g)[i] = s[i]
      /\ \A i \in DOMAIN g : i + Len(s) \in DOMAIN (s \o g) /\ (s \o g)[i + Len(s)] = g[i]
  BY <1>5, <1>6
<1>9. ToSet(s \o g) = ToSet(s) \cup ToSet(g)
  <2>1. \A i \in DOMAIN (s \o g) : \/ \E j \in DOMAIN s : (s \o g)[i] = s[j]
                                  \/ \E j \in DOMAIN g : (s \o g)[i] = g[j]
    BY <1>7
  <2>2. /\ \A j \in DOMAIN s : \E i \in DOMAIN (s \o g) : (s \o g)[i] = s[j]
        /\ \A j \in DOMAIN g : \E i \in DOMAIN (s \o g) : (s \o g)[i] = g[j]
    BY <1>8
  <2>3. ASSUME NEW x \in ToSet(s \o g) PROVE x \in ToSet(s) \cup ToSet(g)
    BY <2>1 DEF ToSet
  <2>4. ASSUME NEW x \in ToSet(s) \cup ToSet(g) PROVE x \in ToSet(s \o g)
    BY <2>2 DEF ToSet
  <2>. QED  BY <2>3, <2>4
<1>. QED  BY <1>4, <1>5, <1>9 DEF g

-----------------------------------------------------------------------------
(* What a step leaves alone                                                *)

(* The side of the answers, when the Tee does nothing.                     *)
LEMMA UpSideKept ==
  ASSUME UpSide, UNCHANGED <<answers, u, hostGot>>, worker # "cancelled" \/ worker' = "cancelled"
  PROVE  UpSide'
BY DEF UpSide, Unpublished, Read, Answered

(* Capture, when only a counter moves.                                     *)
LEMMA CapturedKept ==
  ASSUME Captured, UNCHANGED <<answers, u, chan, job, events>>, counted \subseteq counted'
  PROVE  Captured'
BY DEF Captured, Unpublished, Queued, InWork, Read

(* Both, and the end of the session, in a step that is none of theirs.     *)
LEMMA OthersKept ==
  ASSUME UpSide, Captured, Ending,
         UNCHANGED <<answers, u, hostGot, chan, worker, job, events, counted, main>>,
         main = "join" \/ h'.pc = h.pc
  PROVE  UpSide' /\ Captured' /\ Ending'
BY UpSideKept, CapturedKept DEF Ending

(* A frame taken from a Tee's list leaves it, and the Tee reads again when  *)
(* there is none left.                                                     *)
LEMMA PublishedIs ==
  ASSUME NEW t \in HostTeeType \cup UpTeeType, t.pc = "publish", t.todo # <<>>
  PROVE  /\ t \in HostTeeType => Published(t) \in HostTeeType
         /\ t \in UpTeeType => Published(t) \in UpTeeType
         /\ Published(t).read = t.read /\ Published(t).todo = Tail(t.todo)
         /\ Published(t).pc = IF Tail(t.todo) = <<>> THEN "read" ELSE "publish"
<1>1. t.todo \in Seq(Calls)
  BY DEF HostTeeType, UpTeeType
<1>2. Tail(t.todo) \in Seq(Calls)
  BY <1>1, HeadTailProperties
<1>. QED  BY <1>2 DEF Published, HostTeeType, UpTeeType

-----------------------------------------------------------------------------
(* The steps                                                               *)

(* The host and upstream.                                                  *)
LEMMA PeerKeeps ==
  ASSUME ProxyInv,
         \/ \E c \in Calls : HostSend(c) \/ Answer(c)
         \/ HostClose \/ UpExit \/ HaltChanges
  PROVE  ProxyInv'
<1>. USE DEF ProxyInv
<1>1. ASSUME NEW c \in Calls, HostSend(c) PROVE ProxyInv'
  <2>1. /\ sent' = Append(sent, c) /\ h' = h
        /\ UNCHANGED <<answers, u, hostGot, chan, worker, job, events, counted, main>>
    BY <1>1 DEF HostSend, capture, queue
  <2>2. sent \in Seq(Calls) /\ h.read \in Nat /\ h.read =< Len(sent)
    BY DEF HostSide, HostTeeType
  <2>3. sent' \in Seq(Calls) /\ Len(sent') = Len(sent) + 1 /\ Len(sent) \in Nat
    BY <2>1, <2>2, AppendProperties, LenProperties
  <2>4. HostSide'
    BY <2>1, <2>2, <2>3 DEF HostSide
  <2>. QED  BY <2>1, <2>4, OthersKept
<1>2. ASSUME NEW c \in Calls, Answer(c) PROVE ProxyInv'
  <2>1. /\ answers' = Append(answers, c) /\ c \notin ToSet(answers)
        /\ UNCHANGED <<sent, h, u, hostGot, chan, worker, job, events, counted, main>>
    BY <1>2 DEF Answer, capture, queue
  <2>2. answers \in Seq(Calls) /\ Once(answers, Calls) /\ u.read \in Nat /\ u.read =< Len(answers)
    BY DEF UpSide, UpTeeType
  <2>3. answers' \in Seq(Calls) /\ Once(answers', Calls)
    BY <2>1, <2>2, AppendHas
  <2>4. /\ Len(answers') = Len(answers) + 1 /\ Len(answers) \in Nat
        /\ \A i \in 1 .. Len(answers) : answers'[i] = answers[i]
    BY <2>1, <2>2, AppendProperties, LenProperties
  <2>5. u.read =< Len(answers') /\ \A i \in 1 .. u.read : answers'[i] = answers[i]
    BY <2>2, <2>4
  <2>6. Read' = Read
    BY <2>1, <2>5 DEF Read
  <2>7. UpSide'
    BY <2>1, <2>3, <2>5, <2>6 DEF UpSide, Unpublished, Answered
  <2>8. Captured'
    BY <2>1, <2>6 DEF Captured, Unpublished, Queued, InWork
  <2>. QED  BY <2>1, <2>7, <2>8 DEF HostSide, Ending
<1>3. CASE HostClose \/ UpExit \/ HaltChanges
  <2>1. UNCHANGED <<sent, h, answers, u, hostGot, chan, worker, job, events, counted, main>>
    BY <1>3 DEF HostClose, UpExit, HaltChanges, wires, capture, queue
  <2>. QED  BY <2>1, OthersKept DEF HostSide
<1>. QED  BY <1>1, <1>2, <1>3

(* The host's frames, up to their publication.                             *)
LEMMA HostSideKeeps ==
  ASSUME ProxyInv, (\E n \in 1 .. ReadMax : HostTee(n)) \/ Inspect \/ Forward \/ HostEnd
  PROVE  ProxyInv'
<1>. USE DEF ProxyInv
<1>1. /\ UNCHANGED <<sent, answers, u, hostGot, chan, worker, job, events, counted, main>>
      /\ h.pc # "done"
  BY DEF HostTee, Inspect, Forward, HostEnd, capture, queue
<1>2. main = "join"
  BY <1>1 DEF Ending
<1>3. /\ sent \in Seq(Calls) /\ h.read \in Nat /\ h.read =< Len(sent) /\ Len(sent) \in Nat
      /\ h \in HostTeeType
      /\ h.pc \in {"forward", "refuse", "publish"} => h.todo # <<>>
  BY LenProperties DEF HostSide, HostTeeType
<1>4. HostSide'
  <2>1. /\ h' = [h EXCEPT !.pc = "done"] => HostSide'
        /\ h.pc = "forward" /\ h' = [h EXCEPT !.pc = "publish"] => HostSide'
    BY <1>1, <1>3 DEF HostSide, HostTeeType
  <2>2. ASSUME NEW n \in 1 .. ReadMax, HostTee(n)
        PROVE  HostSide'
    <3>1. CASE h' = [h EXCEPT !.pc = "done"]
      BY <2>1, <3>1
    <3>2. CASE h' = [pc |-> "publish", read |-> h.read + n, todo |-> Chunk(sent, h.read, n)]
      <4>1. n \in Nat \ {0} /\ h.read + n =< Len(sent)
        BY <2>2, ProxyConstantsOK DEF HostTee
      <4>2. Chunk(sent, h.read, n) \in Seq(Calls) /\ Chunk(sent, h.read, n) # <<>>
        BY <1>3, <4>1, ChunkHas
      <4>. QED  BY <1>1, <1>3, <3>2, <4>1, <4>2 DEF HostSide, HostTeeType
    <3>. QED  BY <2>2, <3>1, <3>2 DEF HostTee
  <2>3. CASE Inspect
    <3>1. CASE h' = [h EXCEPT !.pc = "done"]
      BY <2>1, <3>1
    <3>2. CASE \E pc \in {"refuse", "forward"} :
                 h' = [pc |-> pc, read |-> h.read + 1, todo |-> <<sent[h.read + 1]>>]
      <4>1. PICK pc \in {"refuse", "forward"} :
                   h' = [pc |-> pc, read |-> h.read + 1, todo |-> <<sent[h.read + 1]>>]
        BY <3>2
      <4>2. h.read + 1 \in 1 .. Len(sent)
        BY <1>3, <2>3 DEF Inspect
      <4>3. sent[h.read + 1] \in Calls
        BY <1>3, <4>2, ElementOfSeq
      <4>4. <<sent[h.read + 1]>> \in Seq(Calls) /\ <<sent[h.read + 1]>> # <<>>
        BY <4>3
      <4>5. h' \in HostTeeType
        BY <1>3, <4>1, <4>4 DEF HostTeeType
      <4>6. h'.read =< Len(sent) /\ h'.todo # <<>>
        BY <4>1, <4>2, <4>4
      <4>. QED  BY <1>1, <1>3, <4>5, <4>6 DEF HostSide
    <3>. QED  BY <2>3, <3>1, <3>2 DEF Inspect
  <2>4. CASE Forward \/ HostEnd
    BY <2>1, <2>4 DEF Forward, HostEnd
  <2>. QED  BY <2>2, <2>3, <2>4
<1>. QED  BY <1>1, <1>2, <1>4, OthersKept

(* A process that dies on a write takes the worker with it.                *)
LEMMA DieKeeps ==
  ASSUME ProxyInv, Die, UNCHANGED <<sent, answers, chan, job, events, counted>>
  PROVE  ProxyInv'
<1>1. /\ h' = [h EXCEPT !.pc = "done"] /\ u' = [u EXCEPT !.pc = "done"]
      /\ worker' = "cancelled" /\ main' = "exit" /\ hostGot' = hostGot
  BY DEF Die
<1>2. HostSide' /\ h'.pc = "done"
  BY <1>1 DEF ProxyInv, HostSide, HostTeeType
<1>3. u' \in UpTeeType
      /\ u'.pc = "done" /\ u'.read = u.read /\ u'.todo = u.todo
  BY <1>1 DEF ProxyInv, UpSide, UpTeeType
<1>4. /\ Read' = Read /\ Unpublished' = Unpublished /\ Answered' = Answered /\ Queued' = Queued
      /\ InWork' = InWork
  BY <1>1, <1>3 DEF Read, Unpublished, Answered, Queued, InWork
<1>5. UpSide'
  BY <1>1, <1>3, <1>4 DEF ProxyInv, UpSide
<1>6. Captured'
  BY <1>4 DEF ProxyInv, Captured
<1>. QED  BY <1>1, <1>2, <1>3, <1>5, <1>6 DEF ProxyInv, Ending

(* A refusal is no answer.                                                 *)
LEMMA RefuseKeeps ==
  ASSUME ProxyInv, Refuse
  PROVE  ProxyInv'
<1>. USE DEF ProxyInv
<1>0. h.pc = "refuse" /\ UNCHANGED <<sent, answers, chan, job, events, counted>>
  BY DEF Refuse, queue
<1>1. CASE Die
  BY <1>0, <1>1, DieKeeps
<1>2. CASE /\ hostGot' = Append(hostGot, <<"refused", Head(h.todo)>>)
           /\ h' = [h EXCEPT !.pc = "publish"] /\ UNCHANGED <<u, worker, main>>
  <2>1. HostSide'
    BY <1>0, <1>2 DEF HostSide, HostTeeType
  <2>2. Head(h.todo) \in Calls
    BY <1>0, HeadTailProperties DEF HostSide, HostTeeType
  <2>3. <<"refused", Head(h.todo)>> \in Replies /\ hostGot \in Seq(Replies)
    BY <2>2 DEF Replies, UpSide
  <2>4. /\ hostGot' \in Seq(Replies)
        /\ ToSet(hostGot') = ToSet(hostGot) \cup {<<"refused", Head(h.todo)>>}
    BY <1>2, <2>3, AppendHas
  <2>5. Answered' = Answered
    BY <2>4 DEF Answered
  <2>6. UpSide'
    BY <1>0, <1>2, <2>4, <2>5 DEF UpSide, Unpublished, Read
  <2>7. Captured'
    BY <1>0, <1>2, CapturedKept
  <2>8. Ending'
    BY <1>0, <1>2 DEF Ending
  <2>. QED  BY <2>1, <2>6, <2>7, <2>8
<1>. QED  BY <1>1, <1>2 DEF Refuse

(* A request frame that is published, or dropped and counted.              *)
LEMMA HostPublishKeeps ==
  ASSUME ProxyInv, HostPublish
  PROVE  ProxyInv'
<1>. USE DEF ProxyInv
<1>. DEFINE frame == <<"request", Head(h.todo)>>
<1>1. /\ h.pc = "publish" /\ h' = Published(h) /\ Publish(frame)
      /\ UNCHANGED <<sent, answers, u, hostGot, worker, job, events, main>>
  BY DEF HostPublish, queue
<1>2. /\ h \in HostTeeType
      /\ h.todo # <<>> /\ h.todo \in Seq(Calls)
  BY <1>1 DEF HostSide, HostTeeType
<1>3. HostSide'
  BY <1>1, <1>2, PublishedIs DEF HostSide
<1>4. Ending' /\ UpSide'
  BY <1>1, UpSideKept DEF Ending
<1>5. frame \in Frames /\ frame \notin Responses
  BY <1>2, HeadTailProperties DEF Frames, Responses
<1>6. \A c \in Calls : <<"response", c>> # frame
  OBVIOUS
<1>. HIDE DEF frame
<1>7. Captured'
  <2>1. CASE chan' = chan /\ counted \subseteq counted'
    BY <1>1, <2>1, CapturedKept
  <2>2. CASE chan' = Append(chan, frame) /\ counted' = counted
    <3>1. chan' \in Seq(Frames) /\ Once(chan', Responses) /\ ToSet(chan') = ToSet(chan) \cup {frame}
      BY <1>5, <2>2, AppendHas DEF Captured
    <3>2. Queued' = Queued
      BY <1>6, <3>1 DEF Queued
    <3>. QED  BY <1>1, <2>2, <3>1, <3>2 DEF Captured, Unpublished, InWork, Read
  <2>. QED  BY <1>1, <2>1, <2>2 DEF Publish
<1>. QED  BY <1>3, <1>4, <1>7

(* The Tee reads answers, passes them on and has yet to publish them.      *)
LEMMA UpTeeKeeps ==
  ASSUME ProxyInv, NEW n \in 1 .. ReadMax, UpTee(n)
  PROVE  ProxyInv'
<1>. USE DEF ProxyInv
<1>. DEFINE frames == Chunk(answers, u.read, n)
<1>0. /\ u.pc = "read" /\ u.read + n =< Len(answers)
      /\ UNCHANGED <<sent, answers, chan, job, events, counted>>
  BY DEF UpTee, queue
<1>1. CASE Die
  BY <1>0, <1>1, DieKeeps
<1>2. CASE /\ hostGot' = hostGot \o [i \in DOMAIN frames |-> <<"answer", frames[i]>>]
           /\ u' = [pc |-> "publish", read |-> u.read + n, todo |-> frames]
           /\ UNCHANGED <<h, worker, main>>
  <2>1. /\ answers \in Seq(Calls) /\ Once(answers, Calls) /\ u.read \in Nat /\ n \in Nat \ {0}
        /\ hostGot \in Seq(Replies) /\ Answered = Read /\ u.todo = <<>> /\ Len(answers) \in Nat
    BY <1>0, ProxyConstantsOK, LenProperties DEF UpSide, UpTeeType
  <2>2. /\ frames \in Seq(Calls) /\ frames # <<>> /\ Once(frames, Calls)
        /\ ToSet(frames) = {answers[i] : i \in (u.read + 1) .. (u.read + n)}
    <3>1. u.read + n =< Len(answers)
      BY <1>0
    <3>. HIDE DEF frames
    <3>2. \A R : Once(answers, R) => Once(Chunk(answers, u.read, n), R)
      BY <2>1, <3>1, ChunkHas
    <3>3. /\ Chunk(answers, u.read, n) \in Seq(Calls) /\ Chunk(answers, u.read, n) # <<>>
          /\ ToSet(Chunk(answers, u.read, n)) = {answers[i] : i \in (u.read + 1) .. (u.read + n)}
      <4>1. PICK k : k = u.read
        OBVIOUS
      <4>2. \A R : /\ Chunk(answers, k, n) \in Seq(Calls) /\ Chunk(answers, k, n) # <<>>
                   /\ ToSet(Chunk(answers, k, n)) = {answers[i] : i \in (k + 1) .. (k + n)}
        BY <2>1, <3>1, <4>1, ChunkHas
      <4>. QED  BY <4>1, <4>2
    <3>. QED  BY <2>1, <3>2, <3>3 DEF frames
  <2>3. /\ hostGot' \in Seq(Replies)
        /\ ToSet(hostGot') = ToSet(hostGot) \cup {<<"answer", c>> : c \in ToSet(frames)}
    BY <1>2, <2>1, <2>2, ReplyHas
  <2>. HIDE DEF frames
  <2>4. /\ u'.pc = "publish" /\ u'.read = u.read + n /\ u'.todo = frames
        /\ u' \in UpTeeType
    BY <1>2, <2>1, <2>2 DEF UpTeeType
  <2>5. Unpublished' = ToSet(frames) /\ Unpublished = {}
    BY <2>1, <2>4, EmptyHas DEF Unpublished
  <2>6. Read' = Read \cup ToSet(frames)
    <3>1. Read' = {answers[i] : i \in 1 .. (u.read + n)}
      BY <1>0, <2>4 DEF Read
    <3>2. \A i \in 1 .. (u.read + n) : i \in 1 .. u.read \/ i \in (u.read + 1) .. (u.read + n)
      BY <2>1
    <3>3. /\ \A i \in 1 .. u.read : i \in 1 .. (u.read + n)
          /\ \A i \in (u.read + 1) .. (u.read + n) : i \in 1 .. (u.read + n)
      BY <2>1
    <3>4. ASSUME NEW c \in Read' PROVE c \in Read \cup ToSet(frames)
      BY <2>2, <3>1, <3>2 DEF Read
    <3>5. ASSUME NEW c \in Read \cup ToSet(frames) PROVE c \in Read'
      BY <2>2, <3>1, <3>3 DEF Read
    <3>. QED  BY <3>4, <3>5
  <2>7. Read \cap ToSet(frames) = {}
    <3>. SUFFICES ASSUME NEW i \in 1 .. u.read, NEW j \in (u.read + 1) .. (u.read + n),
                         answers[i] = answers[j]
                  PROVE  FALSE
      BY <2>2 DEF Read
    <3>1. i \in 1 .. Len(answers) /\ j \in 1 .. Len(answers) /\ i # j
      BY <1>0, <2>1
    <3>2. i \in DOMAIN answers /\ j \in DOMAIN answers /\ answers[i] \in Calls
      BY <2>1, <3>1, LenProperties, ElementOfSeq
    <3>. QED  BY <2>1, <3>1, <3>2 DEF Once
  <2>8. Answered' = Answered \cup ToSet(frames)
    <3>1. ToSet(frames) \subseteq Calls
      BY <2>2, LenProperties, ElementOfSeq DEF ToSet
    <3>2. \A c : <<"answer", c>> \in ToSet(hostGot') <=> <<"answer", c>> \in ToSet(hostGot) \/ c \in ToSet(frames)
      BY <2>3
    <3>. QED  BY <3>1, <3>2 DEF Answered
  <2>9. UpSide'
    BY <1>0, <1>2, <2>1, <2>2, <2>3, <2>4, <2>5, <2>6, <2>8 DEF UpSide
  <2>10. Queued' = Queued /\ InWork' = InWork
    BY <1>0 DEF Queued, InWork
  <2>11. Captured'
    BY <1>0, <2>5, <2>6, <2>7, <2>10 DEF Captured
  <2>12. Ending' /\ HostSide'
    BY <1>0, <1>2, <2>4 DEF Ending, HostSide
  <2>. QED  BY <2>9, <2>11, <2>12
<1>. QED  BY <1>1, <1>2 DEF UpTee

(* An answer goes from the Tee into the channel, or is counted.            *)
LEMMA UpPublishKeeps ==
  ASSUME ProxyInv, UpPublish
  PROVE  ProxyInv'
<1>. USE DEF ProxyInv
<1>. DEFINE c == Head(u.todo)
            frame == <<"response", c>>
<1>1. /\ u.pc = "publish" /\ u' = Published(u) /\ Publish(frame)
      /\ UNCHANGED <<sent, h, answers, hostGot, worker, job, events, main>>
  BY DEF UpPublish, queue
<1>2. /\ u \in UpTeeType
      /\ u.todo # <<>> /\ u.todo \in Seq(Calls) /\ Once(u.todo, Calls)
  BY <1>1 DEF UpSide, UpTeeType
<1>3. /\ c \in Calls /\ ToSet(u.todo) = {c} \cup ToSet(Tail(u.todo))
      /\ Once(Tail(u.todo), Calls) /\ c \notin ToSet(Tail(u.todo))
  BY <1>2, TailHas
<1>4. /\ u' \in UpTeeType
      /\ u'.read = u.read /\ u'.todo = Tail(u.todo)
      /\ u'.pc = IF Tail(u.todo) = <<>> THEN "read" ELSE "publish"
  BY <1>1, <1>2, PublishedIs
<1>. HIDE DEF c
<1>5. Unpublished = {c} \cup Unpublished' /\ c \notin Unpublished' /\ Read' = Read
      /\ Answered' = Answered /\ InWork' = InWork
  BY <1>1, <1>3, <1>4 DEF Unpublished, Read, Answered, InWork
<1>6. UpSide'
  BY <1>1, <1>3, <1>4, <1>5 DEF UpSide
<1>7. Ending' /\ HostSide'
  BY <1>1 DEF Ending, HostSide
<1>8. frame \in Frames /\ frame[2] = c /\ \A d \in Calls : <<"response", d>> = frame <=> d = c
  BY <1>3 DEF Frames
<1>. HIDE DEF frame
<1>9. Captured'
  <2>1. CASE chan' = chan /\ counted' = counted \cup {frame[2]}
    <3>1. Queued' = Queued
      BY <2>1 DEF Queued
    <3>. QED  BY <1>1, <1>5, <1>8, <2>1, <3>1 DEF Captured
  <2>2. CASE chan' = Append(chan, frame) /\ counted' = counted
    <3>1. c \in Unpublished /\ c \notin Queued /\ c \in Read
      BY <1>5 DEF Captured, UpSide
    <3>2. frame \notin ToSet(chan)
      BY <1>3, <3>1 DEF Queued, frame
    <3>3. chan' \in Seq(Frames) /\ Once(chan', Responses) /\ ToSet(chan') = ToSet(chan) \cup {frame}
      BY <1>8, <2>2, <3>2, AppendHas DEF Captured
    <3>4. Queued' = Queued \cup {c}
      BY <1>3, <1>8, <3>3 DEF Queued
    <3>. QED  BY <1>1, <1>5, <2>2, <3>1, <3>3, <3>4 DEF Captured
  <2>. QED  BY <1>1, <2>1, <2>2 DEF Publish
<1>. QED  BY <1>6, <1>7, <1>9

(* Upstream's end: the Tee has published all it read.                      *)
LEMMA UpEndKeeps ==
  ASSUME ProxyInv, UpEnd
  PROVE  ProxyInv'
<1>. USE DEF ProxyInv
<1>1. /\ u.pc = "read" /\ u' = [u EXCEPT !.pc = "done"]
      /\ UNCHANGED <<sent, h, answers, hostGot, chan, worker, job, events, counted, main>>
  BY DEF UpEnd, capture, queue
<1>2. /\ u' \in UpTeeType
      /\ u'.pc = "done" /\ u'.read = u.read /\ u'.todo = u.todo /\ u.todo = <<>>
  BY <1>1 DEF UpSide, UpTeeType
<1>3. /\ Read' = Read /\ Unpublished' = Unpublished /\ Answered' = Answered /\ Queued' = Queued
      /\ InWork' = InWork
  BY <1>1, <1>2 DEF Read, Unpublished, Answered, Queued, InWork
<1>4. UpSide' /\ Captured'
  BY <1>1, <1>2, <1>3 DEF UpSide, Captured
<1>. QED  BY <1>1, <1>2, <1>4 DEF HostSide, Ending

(* The worker takes a frame.  A response it misses is counted; with the    *)
(* answer to a tools/call it makes an event, which the queue takes, or the *)
(* call is counted.                                                        *)
LEMMA CaptureKeeps ==
  ASSUME ProxyInv, Capture
  PROVE  ProxyInv'
<1>. USE DEF ProxyInv
<1>0. UNCHANGED <<sent, h, answers, u, hostGot, main>> /\ worker = "running"
  BY DEF Capture, TakeRequest, TakeResponse, EmitFails, EnqueueLocks, Enqueued, SweepOrphans,
         WorkerEnds, Idle, Busy, wires
<1>1. HostSide' /\ UpSide'
  BY <1>0, UpSideKept DEF HostSide
<1>2. Read' = Read /\ Unpublished' = Unpublished
  BY <1>0 DEF Read, Unpublished
<1>3. CASE SweepOrphans \/ WorkerEnds \/ EnqueueLocks
  <2>1. UNCHANGED <<chan, job, events, counted>>
    BY <1>3 DEF SweepOrphans, WorkerEnds, EnqueueLocks, queue
  <2>2. Captured'
    BY <1>0, <2>1, CapturedKept
  <2>3. Ending'
    BY <1>0, <1>3, <2>1 DEF SweepOrphans, WorkerEnds, EnqueueLocks, Ending, Closed, Idle
  <2>. QED  BY <1>1, <2>2, <2>3
<1>4. CASE TakeRequest \/ TakeResponse
  <2>. DEFINE frame == Head(chan)
  <2>1. chan # <<>> /\ chan' = Tail(chan) /\ worker' = worker /\ job = <<>> /\ events' = events
    BY <1>4 DEF TakeRequest, TakeResponse, Idle
  <2>2. Ending'
    BY <1>0, <2>1 DEF Ending
  <2>3. /\ frame \in Frames /\ chan' \in Seq(Frames) /\ Once(chan', Responses)
        /\ ToSet(chan) = {frame} \cup ToSet(chan')
        /\ frame \in Responses => frame \notin ToSet(chan')
    BY <2>1, TailHas DEF Captured
  <2>3c. chan' \in Seq(Frames) /\ Once(chan', Responses)
    BY <2>3
  <2>3d. InWork = {}
    BY <2>1, EmptyHas DEF InWork
  <2>4. CASE TakeRequest
    <3>1. frame[1] = "request" /\ counted' = counted /\ job' = job
      BY <2>4 DEF TakeRequest, queue
    <3>. HIDE DEF frame
    <3>2. \A c \in Calls : <<"response", c>> # frame
      BY <3>1
    <3>3. Queued' = Queued /\ InWork' = InWork
      BY <2>3, <3>1, <3>2 DEF Queued, InWork
    <3>4. Captured'
      BY <1>2, <2>1, <2>3, <3>1, <3>3 DEF Captured
    <3>. QED  BY <1>1, <2>2, <3>4
  <2>5. CASE TakeResponse
    <3>. DEFINE c == frame[2]
    <3>1. /\ frame[1] = "response"
          /\ \/ counted' = counted \cup {c} /\ job' = <<>>
             \/ c \notin Tools /\ counted' = counted /\ job' = <<>>
             \/ c \in Tools /\ counted' = counted /\ job' = <<c>>
      BY <2>1, <2>5 DEF TakeResponse
    <3>. HIDE DEF frame
    <3>2. c \in Calls /\ frame = <<"response", c>> /\ frame \in Responses
      BY <2>3, <3>1 DEF Frames, Responses
    <3>. HIDE DEF c
    <3>3. c \in Queued /\ c \notin Queued' /\ Queued = {c} \cup Queued'
      <4>1. \A d \in Calls : <<"response", d>> = frame <=> d = c
        BY <3>2
      <4>2. \A d \in Calls : <<"response", d>> \in ToSet(chan) <=> d = c \/ <<"response", d>> \in ToSet(chan')
        BY <2>3, <4>1
      <4>3. <<"response", c>> \notin ToSet(chan')
        BY <2>3, <3>2
      <4>. QED  BY <3>2, <4>2, <4>3 DEF Queued
    <3>4. events[c] = 0 /\ c \in Read \ Unpublished /\ events' \in [Calls -> Nat]
      BY <2>1, <3>2, <3>3 DEF Captured
    <3>a. /\ Queued' \subseteq Read \ Unpublished
          /\ \A d \in Calls : events[d] # 0 =>
               events[d] = 1 /\ d # c /\ d \in (Tools \cap Read) \ (Unpublished \cup Queued')
          /\ \A d \in Tools \cap Read :
               d = c \/ d \in Unpublished \cup Queued' \cup counted \/ events[d] = 1
      BY <2>3d, <3>3, <3>4 DEF Captured
    <3>5. CASE counted' = counted \cup {c} /\ job' = <<>>
      <4>1. InWork' = {}
        BY <3>5, EmptyHas DEF InWork
      <4>2. \A d \in Tools \cap Read : d \in Unpublished \cup Queued' \cup counted' \/ events[d] = 1
        BY <3>5, <3>a
      <4>. QED  BY <1>1, <1>2, <2>1, <2>2, <2>3c, <3>4, <3>5, <3>a, <4>1, <4>2 DEF Captured
    <3>6. CASE c \notin Tools /\ counted' = counted /\ job' = <<>>
      <4>1. InWork' = {}
        BY <3>6, EmptyHas DEF InWork
      <4>2. \A d \in Tools \cap Read : d \in Unpublished \cup Queued' \cup counted' \/ events[d] = 1
        BY <3>6, <3>a
      <4>. QED  BY <1>1, <1>2, <2>1, <2>2, <2>3c, <3>4, <3>6, <3>a, <4>1, <4>2 DEF Captured
    <3>7. CASE c \in Tools /\ counted' = counted /\ job' = <<c>>
      <4>1. InWork' = {c}
        BY <3>7, OneHas DEF InWork
      <4>2. \A d \in Tools \cap Read :
              d \in Unpublished \cup Queued' \cup InWork' \cup counted' \/ events[d] = 1
        BY <3>7, <3>a, <4>1
      <4>3. /\ InWork' \subseteq (Tools \cap Read) \ (Unpublished \cup Queued')
            /\ \A d \in Calls : events[d] # 0 =>
                 events[d] = 1 /\ d \in (Tools \cap Read) \ (Unpublished \cup Queued' \cup InWork')
        BY <3>3, <3>4, <3>7, <3>a, <4>1
      <4>. QED  BY <1>1, <1>2, <2>1, <2>2, <2>3c, <3>4, <3>7, <3>a, <4>2, <4>3 DEF Captured
    <3>. QED  BY <1>1, <2>2, <3>1, <3>5, <3>6, <3>7
  <2>. QED  BY <1>4, <2>4, <2>5
<1>5. CASE EmitFails \/ Enqueued
  <2>1. job # <<>> /\ job' = <<>> /\ worker' = worker /\ chan' = chan
    BY <1>5 DEF EmitFails, Enqueued, Busy
  <2>2. Ending'
    BY <1>0, <2>1 DEF Ending
  <2>3. PICK c \in Tools : job = <<c>>
    BY <2>1 DEF Captured
  <2>4. InWork = {c} /\ InWork' = {} /\ Head(job) = c
    BY <2>1, <2>3, OneHas, EmptyHas DEF InWork
  <2>5. /\ c \in (Tools \cap Read) \ (Unpublished \cup Queued) /\ c \in Calls /\ events[c] = 0
        /\ events \in [Calls -> Nat] /\ Queued' = Queued
    BY <2>1, <2>4, ProxyConstantsOK DEF Captured, Queued
  <2>6. CASE counted' = counted \cup {c} /\ events' = events
    BY <1>1, <1>2, <2>1, <2>2, <2>4, <2>5, <2>6 DEF Captured
  <2>7. CASE counted' = counted /\ events' = [events EXCEPT ![c] = @ + 1]
    <3>1. /\ events' \in [Calls -> Nat] /\ events'[c] = 1
          /\ \A d \in Calls \ {c} : events'[d] = events[d]
      BY <2>5, <2>7
    <3>2. \A d \in Calls : events'[d] # 0 =>
            events'[d] = 1 /\ d \in (Tools \cap Read) \ (Unpublished \cup Queued)
      BY <2>5, <3>1 DEF Captured
    <3>3. \A d \in Tools \cap Read : d \in Unpublished \cup Queued \cup counted \/ events'[d] = 1
      BY <2>4, <3>1, ProxyConstantsOK DEF Captured
    <3>. QED  BY <1>1, <1>2, <2>1, <2>2, <2>4, <2>5, <2>7, <3>1, <3>2, <3>3 DEF Captured
  <2>. QED  BY <1>5, <2>4, <2>6, <2>7 DEF EmitFails, Enqueued, InWork
<1>. QED  BY <1>3, <1>4, <1>5 DEF Capture

(* Run joins the wires and goes.                                           *)
LEMMA RunKeeps ==
  ASSUME ProxyInv, Dispatch \/ RunToReport \/ Reported
  PROVE  ProxyInv'
<1>. USE DEF ProxyInv, RunToReport
<1>1. UNCHANGED <<sent, h, answers, u, hostGot, chan, worker, job, events, counted>>
  BY DEF Dispatch, Join, Grace, Reap, ReportLocks, Reported, wires, capture, queue
<1>2. UpSide' /\ Captured' /\ HostSide'
  BY <1>1, UpSideKept, CapturedKept DEF HostSide
<1>3. Ending'
  BY <1>1 DEF Dispatch, Join, Grace, Reap, ReportLocks, Reported, Ending
<1>. QED  BY <1>2, <1>3

(* ProxyInv is an invariant.                                               *)
LEMMA ProxyInvariant == Spec => []ProxyInv
<1>1. Init => ProxyInv
  <2>. SUFFICES ASSUME Init PROVE ProxyInv
    OBVIOUS
  <2>1. /\ sent = <<>> /\ answers = <<>> /\ hostGot = <<>> /\ chan = <<>>
        /\ h = Start /\ u = Start /\ worker = "running" /\ job = <<>> /\ main = "join"
        /\ events = [c \in Calls |-> 0]
    BY DEF Init
  <2>2. /\ Start \in HostTeeType /\ Start \in UpTeeType
        /\ Start.pc = "read" /\ Start.read = 0 /\ Start.todo = <<>>
        /\ Len(<<>>) = 0 /\ \A S : <<>> \in Seq(S)
    BY EmptySeq DEF Start, HostTeeType, UpTeeType
  <2>6. Once(answers, Calls) /\ Once(u.todo, Calls) /\ Once(chan, Responses)
    BY <2>1, <2>2, EmptyHas
  <2>3. Read = {} /\ Unpublished = {} /\ Answered = {} /\ Queued = {} /\ InWork = {}
    BY <2>1, <2>2, EmptyHas DEF Read, Unpublished, Answered, Queued, InWork
  <2>4. UpSide
    BY <2>1, <2>2, <2>3, <2>6 DEF UpSide
  <2>5. Captured
    BY <2>1, <2>2, <2>3, <2>6 DEF Captured
  <2>. QED  BY <2>1, <2>2, <2>4, <2>5 DEF ProxyInv, HostSide, Ending
<1>2. ProxyInv /\ [Next]_vars => ProxyInv'
  <2>. SUFFICES ASSUME ProxyInv, [Next]_vars PROVE ProxyInv'
    OBVIOUS
  <2>1. CASE UNCHANGED vars
    <3>1. UNCHANGED <<sent, h, answers, u, hostGot, chan, worker, job, events, counted, main>>
      BY <2>1 DEF vars, wires, capture, queue
    <3>. QED  BY <3>1, OthersKept DEF ProxyInv, HostSide
  <2>2. CASE Next
    BY <2>2, PeerKeeps, HostSideKeeps, RefuseKeeps, HostPublishKeeps, UpTeeKeeps,
       UpPublishKeeps, UpEndKeeps, CaptureKeeps, RunKeeps DEF Next, Wire
  <2>. QED  BY <2>1, <2>2
<1>. QED  BY <1>1, <1>2, PTL DEF Spec

(* Capture follows the wire, for any number of calls, any channel and any  *)
(* order of the goroutines: an event is enqueued at most once for a call,  *)
(* and only for a tools/call whose answer the host has already received.   *)
THEOREM EventIsRealTheorem == Spec => []EventIsReal
<1>1. ProxyInv => EventIsReal
  BY DEF ProxyInv, UpSide, Captured, EventIsReal
<1>. QED  BY <1>1, ProxyInvariant, PTL

(* No call goes missing unnoticed: once the worker has drained the channel,*)
(* each answered tools/call has its event, or is counted as dropped,       *)
(* oversized, missed or refused by the queue.                              *)
THEOREM AccountedForTheorem == Spec => []AccountedFor
<1>1. ASSUME ProxyInv, worker = "drained", NEW c \in Tools \cap Answered
      PROVE  events[c] = 1 \/ c \in counted
  <2>1. u.todo = <<>> /\ chan = <<>> /\ Answered = Read
    BY <1>1 DEF ProxyInv, Ending, UpSide
  <2>2. Unpublished = {} /\ Queued = {} /\ InWork = {}
    BY <1>1, <2>1, EmptyHas DEF Unpublished, Queued, InWork, ProxyInv, Ending
  <2>. QED  BY <1>1, <2>1, <2>2 DEF ProxyInv, Captured
<1>2. ProxyInv => AccountedFor
  BY <1>1 DEF AccountedFor
<1>. QED  BY <1>2, ProxyInvariant, PTL

-----------------------------------------------------------------------------
(* The wire                                                                *)

\* Each element of g is the first of s that is neither in R nor earlier in g.
InOrder(g, s, R) ==
  \A i \in DOMAIN g :
    LET gone == R \cup {g[j] : j \in 1 .. (i - 1)}
    IN  \E k \in DOMAIN s :
          /\ s[k] = g[i] /\ g[i] \notin gone
          /\ \A m \in 1 .. (k - 1) : s[m] \in gone

OneReply(s) == \A i, j \in DOMAIN s : s[i][2] = s[j][2] => i = j

Firsts(s, r) == {s[i] : i \in 1 .. r}
FirstSent(r) == Firsts(sent, r)

\* g is in order, and with R it is the first r of s.
UpTo(g, s, R, r) == InOrder(g, s, R) /\ ToSet(g) \cup R = Firsts(s, r)
Passed == ToSet(got) \cup Refused

\* Upstream has read, or the gate has refused, what hostToUp has read, but
\* for a frame it has in hand.
WireInv ==
  /\ Once(sent, Calls) /\ got \in Seq(Calls)
  /\ InOrder(got, sent, Refused) /\ OneReply(hostGot)
  /\ ToSet(answers) \subseteq ToSet(got)
  /\ Passed \subseteq FirstSent(h.read)
  /\ h.pc \in {"read", "publish"} => Passed = FirstSent(h.read)
  /\ h.pc \in {"forward", "refuse"} =>
       h.read # 0 /\ h.todo = <<sent[h.read]>> /\ Passed = FirstSent(h.read - 1)

(* More that the host sends, or that the gate refuses, disturbs no order.  *)
LEMMA OrderKept ==
  ASSUME NEW g \in Seq(Calls), NEW s \in Seq(Calls), NEW R, InOrder(g, s, R), NEW c \in Calls
  PROVE  /\ InOrder(g, Append(s, c), R)
         /\ c \notin ToSet(g) => InOrder(g, s, R \cup {c})
<1>1. /\ Len(s) \in Nat /\ DOMAIN s = 1 .. Len(s) /\ Len(g) \in Nat /\ DOMAIN g = 1 .. Len(g)
      /\ \A k \in DOMAIN s : k \in DOMAIN Append(s, c) /\ Append(s, c)[k] = s[k]
  BY AppendProperties, LenProperties
<1>2. \A k \in DOMAIN s : \A m \in 1 .. (k - 1) : m \in DOMAIN s
  BY <1>1
<1>3. InOrder(g, Append(s, c), R)
  <2>. SUFFICES ASSUME NEW i \in DOMAIN g
                PROVE  LET gone == R \cup {g[j] : j \in 1 .. (i - 1)}
                       IN  \E k \in DOMAIN Append(s, c) :
                             /\ Append(s, c)[k] = g[i] /\ g[i] \notin gone
                             /\ \A m \in 1 .. (k - 1) : Append(s, c)[m] \in gone
    BY DEF InOrder
  <2>. DEFINE gone == R \cup {g[j] : j \in 1 .. (i - 1)}
  <2>1. PICK k \in DOMAIN s : /\ s[k] = g[i] /\ g[i] \notin gone
                              /\ \A m \in 1 .. (k - 1) : s[m] \in gone
    BY DEF InOrder
  <2>. HIDE DEF gone
  <2>2. /\ k \in DOMAIN Append(s, c) /\ Append(s, c)[k] = g[i] /\ g[i] \notin gone
        /\ \A m \in 1 .. (k - 1) : Append(s, c)[m] \in gone
    BY <1>1, <1>2, <2>1
  <2>. QED  BY <2>2 DEF gone
<1>4. ASSUME c \notin ToSet(g)
      PROVE  InOrder(g, s, R \cup {c})
  <2>. SUFFICES ASSUME NEW i \in DOMAIN g
                PROVE  LET gone == (R \cup {c}) \cup {g[j] : j \in 1 .. (i - 1)}
                       IN  \E k \in DOMAIN s :
                             /\ s[k] = g[i] /\ g[i] \notin gone
                             /\ \A m \in 1 .. (k - 1) : s[m] \in gone
    BY DEF InOrder
  <2>. DEFINE B == {g[j] : j \in 1 .. (i - 1)}
  <2>1. PICK k \in DOMAIN s : /\ s[k] = g[i] /\ g[i] \notin R \cup B
                              /\ \A m \in 1 .. (k - 1) : s[m] \in R \cup B
    BY DEF InOrder
  <2>. HIDE DEF B
  <2>2. g[i] # c
    BY <1>4 DEF ToSet
  <2>3. /\ s[k] = g[i] /\ g[i] \notin (R \cup {c}) \cup B
        /\ \A m \in 1 .. (k - 1) : s[m] \in (R \cup {c}) \cup B
    BY <2>1, <2>2
  <2>. QED  BY <2>3 DEF B
<1>. QED  BY <1>3, <1>4

(* What follows takes nothing away.                                        *)
LEMMA ConcatHas ==
  ASSUME NEW S, NEW s \in Seq(S), NEW t \in Seq(S)
  PROVE  ToSet(s) \subseteq ToSet(s \o t)
<1>1. /\ Len(s) \in Nat /\ Len(t) \in Nat /\ DOMAIN s = 1 .. Len(s)
  BY LenProperties
<1>2. /\ s \o t \in Seq(S) /\ Len(s \o t) = Len(s) + Len(t)
      /\ \A i \in 1 .. Len(s) + Len(t) : (s \o t)[i] = IF i <= Len(s) THEN s[i] ELSE t[i - Len(s)]
  BY ConcatProperties
<1>3. DOMAIN (s \o t) = 1 .. Len(s) + Len(t)
  BY <1>2, LenProperties
<1>4. \A i \in DOMAIN s : i \in DOMAIN (s \o t) /\ (s \o t)[i] = s[i]
  BY <1>1, <1>2, <1>3
<1>. QED  BY <1>4 DEF ToSet

(* The next frames of the host follow, in order, if all before them went   *)
(* through or were refused.                                                *)
LEMMA OrderGrows ==
  ASSUME NEW g \in Seq(Calls), NEW s \in Seq(Calls), NEW R, Once(s, Calls),
         NEW r \in Nat, NEW n \in Nat \ {0}, r + n =< Len(s), UpTo(g, s, R, r),
         NEW f \in Seq(Calls), Len(f) = n, \A i \in 1 .. n : f[i] = s[r + i]
  PROVE  UpTo(g \o f, s, R, r + n)
<1>. DEFINE t == g \o f
<1>. USE DEF Firsts, UpTo
<1>0. /\ g \o f \in Seq(Calls) /\ Len(g \o f) = Len(g) + Len(f)
      /\ \A i \in 1 .. Len(g) + Len(f) : (g \o f)[i] = IF i <= Len(g) THEN g[i] ELSE f[i - Len(g)]
  BY ConcatProperties
<1>. HIDE DEF t
<1>t. /\ t \in Seq(Calls) /\ Len(t) = Len(g) + n
      /\ \A i \in 1 .. Len(g) + n : t[i] = IF i <= Len(g) THEN g[i] ELSE f[i - Len(g)]
  BY <1>0 DEF t
<1>1. /\ DOMAIN t = 1 .. (Len(g) + n)
      /\ Len(g) \in Nat /\ DOMAIN g = 1 .. Len(g) /\ Len(s) \in Nat /\ DOMAIN s = 1 .. Len(s)
  BY <1>t, LenProperties
<1>2. /\ \A i \in DOMAIN g : i \in DOMAIN t /\ t[i] = g[i]
      /\ \A i \in 1 .. n : i + Len(g) \in DOMAIN t /\ t[i + Len(g)] = s[r + i]
      /\ \A i \in DOMAIN t \ DOMAIN g : i - Len(g) \in 1 .. n /\ t[i] = s[r + (i - Len(g))]
  <2>1. \A i \in DOMAIN g : i \in DOMAIN t /\ t[i] = g[i]
    BY <1>t, <1>1
  <2>2. ASSUME NEW i \in 1 .. n PROVE i + Len(g) \in DOMAIN t /\ t[i + Len(g)] = s[r + i]
    <3>1. /\ i + Len(g) \in 1 .. Len(g) + n /\ ~(i + Len(g) <= Len(g))
          /\ (i + Len(g)) - Len(g) = i
      BY <1>1
    <3>2. t[i + Len(g)] = f[(i + Len(g)) - Len(g)]
      BY <1>t, <3>1
    <3>. QED  BY <1>1, <3>1, <3>2
  <2>3. ASSUME NEW i \in DOMAIN t \ DOMAIN g
        PROVE  i - Len(g) \in 1 .. n /\ t[i] = s[r + (i - Len(g))]
    <3>1. i \in 1 .. Len(g) + n /\ ~(i <= Len(g)) /\ i - Len(g) \in 1 .. n
      BY <1>1
    <3>2. t[i] = f[i - Len(g)]
      BY <1>t, <3>1
    <3>. QED  BY <3>1, <3>2
  <2>. QED  BY <2>1, <2>2, <2>3
<1>3. ToSet(t) = ToSet(g) \cup {s[i] : i \in (r + 1) .. (r + n)}
  <2>1. \A i \in (r + 1) .. (r + n) : i - r \in 1 .. n /\ r + (i - r) = i
    OBVIOUS
  <2>2. \A i \in 1 .. n : r + i \in (r + 1) .. (r + n)
    OBVIOUS
  <2>3. ASSUME NEW x \in ToSet(t) PROVE x \in ToSet(g) \cup {s[i] : i \in (r + 1) .. (r + n)}
    <3>1. PICK i \in DOMAIN t : x = t[i]
      BY DEF ToSet
    <3>2. CASE i \in DOMAIN g
      BY <1>2, <3>1, <3>2 DEF ToSet
    <3>3. CASE i \notin DOMAIN g
      BY <1>2, <2>2, <3>1, <3>3
    <3>. QED  BY <3>2, <3>3
  <2>4. ASSUME NEW x \in ToSet(g) PROVE x \in ToSet(t)
    BY <1>2 DEF ToSet
  <2>5. ASSUME NEW i \in (r + 1) .. (r + n) PROVE s[i] \in ToSet(t)
    <3>1. s[i] = t[(i - r) + Len(g)] /\ (i - r) + Len(g) \in DOMAIN t
      BY <1>2, <2>1
    <3>. QED  BY <3>1 DEF ToSet
  <2>. QED  BY <2>3, <2>4, <2>5
<1>4. ToSet(t) \cup R = {s[i] : i \in 1 .. (r + n)}
  <2>1. \A i \in 1 .. (r + n) : i \in 1 .. r \/ i \in (r + 1) .. (r + n)
    OBVIOUS
  <2>2. /\ \A i \in 1 .. r : i \in 1 .. (r + n)
        /\ \A i \in (r + 1) .. (r + n) : i \in 1 .. (r + n)
    OBVIOUS
  <2>3. ToSet(t) \cup R = {s[i] : i \in 1 .. r} \cup {s[i] : i \in (r + 1) .. (r + n)}
    BY <1>3
  <2>4. ASSUME NEW x \in ToSet(t) \cup R PROVE x \in {s[i] : i \in 1 .. (r + n)}
    BY <2>2, <2>3
  <2>5. ASSUME NEW x \in {s[i] : i \in 1 .. (r + n)} PROVE x \in ToSet(t) \cup R
    BY <2>1, <2>3
  <2>. QED  BY <2>4, <2>5
<1>5. ASSUME NEW i \in DOMAIN t
      PROVE  LET gone == R \cup {t[j] : j \in 1 .. (i - 1)}
             IN  \E k \in DOMAIN s :
                   /\ s[k] = t[i] /\ t[i] \notin gone
                   /\ \A m \in 1 .. (k - 1) : s[m] \in gone
  <2>. DEFINE B == {t[j] : j \in 1 .. (i - 1)}
  <2>1. CASE i \in DOMAIN g
    <3>. DEFINE A == {g[j] : j \in 1 .. (i - 1)}
    <3>1. \A j \in 1 .. (i - 1) : t[j] = g[j]
      BY <1>1, <1>2, <2>1
    <3>2. A = B
      BY <3>1
    <3>3. \E k \in DOMAIN s : /\ s[k] = g[i] /\ g[i] \notin R \cup A
                              /\ \A m \in 1 .. (k - 1) : s[m] \in R \cup A
      BY <2>1 DEF InOrder
    <3>. HIDE DEF A, B
    <3>4. \E k \in DOMAIN s : /\ s[k] = t[i] /\ t[i] \notin R \cup B
                              /\ \A m \in 1 .. (k - 1) : s[m] \in R \cup B
      BY <1>2, <2>1, <3>2, <3>3
    <3>. QED  BY <3>4 DEF B
  <2>2. CASE i \notin DOMAIN g
    <3>1. PICK j \in 1 .. n : i = j + Len(g) /\ t[i] = s[r + j]
      <4>1. i - Len(g) \in 1 .. n /\ t[i] = s[r + (i - Len(g))]
        BY <1>2, <2>2
      <4>2. i = (i - Len(g)) + Len(g)
        BY <1>1
      <4>. QED  BY <4>1, <4>2
    <3>. DEFINE k == r + j
    <3>2. k \in DOMAIN s /\ k \in Nat /\ j \in Nat
      BY <1>1
    <3>3. \A m \in 1 .. (k - 1) : m \in 1 .. r \/ (m - r \in 1 .. (j - 1) /\ m - r \in 1 .. n)
      BY <3>2
    <3>4. R \cup B = {s[m] : m \in 1 .. (k - 1)}
      <4>1. \A x \in DOMAIN g : x \in 1 .. (i - 1)
        BY <1>1, <3>1
      <4>2. ToSet(g) \subseteq B
        BY <1>2, <4>1 DEF ToSet
      <4>3. \A m \in 1 .. (j - 1) : m + Len(g) \in 1 .. (i - 1) /\ m \in 1 .. n /\ r + m \in 1 .. (k - 1)
        BY <1>1, <3>1, <3>2
      <4>4. \A m \in 1 .. (j - 1) : s[r + m] \in B
        BY <1>2, <4>3
      <4>5. \A m \in 1 .. (k - 1) : s[m] \in R \cup B
        <5>. SUFFICES ASSUME NEW m \in 1 .. (k - 1) PROVE s[m] \in R \cup B
          OBVIOUS
        <5>1. CASE m \in 1 .. r
          BY <4>2, <5>1
        <5>2. CASE m - r \in 1 .. (j - 1)
          <6>1. r + (m - r) = m
            BY <3>2
          <6>. QED  BY <4>4, <5>2, <6>1
        <5>. QED  BY <3>3, <5>1, <5>2
      <4>6. \A m \in 1 .. r : m \in 1 .. (k - 1)
        BY <3>2
      <4>7. ASSUME NEW x \in 1 .. (i - 1) PROVE t[x] \in {s[m] : m \in 1 .. (k - 1)}
        <5>0. x \in DOMAIN t
          BY <1>1
        <5>1. CASE x \in DOMAIN g
          <6>1. t[x] \in ToSet(g)
            BY <1>2, <5>1 DEF ToSet
          <6>. QED  BY <4>6, <6>1
        <5>2. CASE x \notin DOMAIN g
          <6>1. x - Len(g) \in 1 .. (j - 1) /\ t[x] = s[r + (x - Len(g))]
            BY <1>1, <1>2, <3>1, <5>0, <5>2
          <6>. QED  BY <4>3, <6>1
        <5>. QED  BY <5>1, <5>2
      <4>8. R \subseteq {s[m] : m \in 1 .. (k - 1)}
        BY <4>6
      <4>. QED  BY <4>5, <4>7, <4>8
    <3>. HIDE DEF B
    <3>5. s[k] \notin {s[m] : m \in 1 .. (k - 1)}
      <4>. SUFFICES ASSUME NEW m \in 1 .. (k - 1), s[m] = s[k] PROVE FALSE
        OBVIOUS
      <4>1. m \in DOMAIN s /\ m # k
        BY <1>1, <3>2
      <4>2. s[m] \in Calls
        BY <1>1, <4>1, ElementOfSeq
      <4>. QED  BY <3>2, <4>1, <4>2 DEF Once
    <3>6. /\ s[k] = t[i] /\ t[i] \notin R \cup B
          /\ \A m \in 1 .. (k - 1) : s[m] \in R \cup B
      BY <3>1, <3>4, <3>5
    <3>. QED  BY <3>2, <3>6 DEF B
  <2>. QED  BY <2>1, <2>2
<1>6. InOrder(t, s, R)
  BY <1>5 DEF InOrder
<1>. QED  BY <1>4, <1>6 DEF t

(* The same of upstream.                                                   *)
LEMMA UpstreamReads ==
  ASSUME WireInv, sent \in Seq(Calls), NEW r \in Nat, NEW n \in Nat \ {0}, r + n =< Len(sent),
         Passed = FirstSent(r),
         NEW f \in Seq(Calls), Len(f) = n, \A i \in 1 .. n : f[i] = sent[r + i],
         got' = got \o f, UNCHANGED <<sent, hostGot>>
  PROVE  /\ got' \in Seq(Calls) /\ InOrder(got', sent', Refused')
         /\ ToSet(got) \subseteq ToSet(got') /\ Passed' = Firsts(sent, r + n)
<1>1. got \in Seq(Calls) /\ Once(sent, Calls) /\ UpTo(got, sent, Refused, r)
  BY DEF WireInv, Passed, FirstSent, UpTo
<1>2. UpTo(got \o f, sent, Refused, r + n)
  BY <1>1, OrderGrows, Zenon
<1>3. Refused' = Refused /\ got \o f \in Seq(Calls)
  BY <1>1, ConcatProperties DEF Refused
<1>4. ToSet(got) \subseteq ToSet(got \o f)
  BY <1>1, ConcatHas
<1>. QED  BY <1>2, <1>3, <1>4 DEF Passed, UpTo

(* One more reply, to a call that has none yet.                            *)
LEMMA ReplyGrows ==
  ASSUME NEW s \in Seq(Replies), OneReply(s)
  PROVE  /\ \A e \in Replies : (\A x \in ToSet(s) : x[2] # e[2]) => OneReply(Append(s, e))
         /\ \A f \in Seq(Calls) :
              Once(f, Calls) /\ (\A x \in ToSet(s) : x[2] \notin ToSet(f)) =>
                OneReply(s \o [i \in DOMAIN f |-> <<"answer", f[i]>>])
<1>1. Len(s) \in Nat /\ DOMAIN s = 1 .. Len(s)
  BY LenProperties
<1>2. ASSUME NEW e \in Replies, \A x \in ToSet(s) : x[2] # e[2] PROVE OneReply(Append(s, e))
  <2>1. /\ DOMAIN Append(s, e) = 1 .. (Len(s) + 1)
        /\ \A i \in 1 .. Len(s) : Append(s, e)[i] = s[i]
        /\ Append(s, e)[Len(s) + 1] = e
    BY AppendProperties, LenProperties
  <2>2. \A i \in DOMAIN Append(s, e) :
          \/ i \in DOMAIN s /\ Append(s, e)[i] = s[i]
          \/ i = Len(s) + 1 /\ Append(s, e)[i] = e
    BY <1>1, <2>1
  <2>3. \A i \in DOMAIN s : s[i] \in ToSet(s)
    BY DEF ToSet
  <2>. QED  BY <1>2, <2>2, <2>3 DEF OneReply
<1>3. ASSUME NEW f \in Seq(Calls), Once(f, Calls), \A x \in ToSet(s) : x[2] \notin ToSet(f)
      PROVE  OneReply(s \o [i \in DOMAIN f |-> <<"answer", f[i]>>])
  <2>. DEFINE g == [i \in DOMAIN f |-> <<"answer", f[i]>>]
  <2>1. Len(f) \in Nat /\ DOMAIN f = 1 .. Len(f) /\ \A i \in 1 .. Len(f) : f[i] \in Calls
    BY LenProperties, ElementOfSeq
  <2>2. \A i \in DOMAIN f : g[i] = <<"answer", f[i]>> /\ g[i] \in Replies /\ g[i][2] = f[i]
    BY <2>1 DEF Replies
  <2>3. g \in Seq(Replies) /\ Len(g) = Len(f) /\ DOMAIN g = DOMAIN f
    BY <2>1, <2>2
  <2>. HIDE DEF g
  <2>4. /\ s \o g \in Seq(Replies) /\ Len(s \o g) = Len(s) + Len(g)
        /\ \A i \in 1 .. Len(s) + Len(g) :
             (s \o g)[i] = IF i <= Len(s) THEN s[i] ELSE g[i - Len(s)]
    BY <2>3, ConcatProperties
  <2>5. DOMAIN (s \o g) = 1 .. (Len(s) + Len(f))
    BY <2>3, <2>4, LenProperties
  <2>6. ASSUME NEW i \in DOMAIN (s \o g)
        PROVE  \/ i \in DOMAIN s /\ (s \o g)[i] = s[i]
               \/ i \in Int /\ i - Len(s) \in DOMAIN f /\ (s \o g)[i] = g[i - Len(s)]
    BY <1>1, <2>1, <2>3, <2>4, <2>5
  <2>7. \A i \in DOMAIN s : s[i] \in ToSet(s)
    BY DEF ToSet
  <2>8. \A i \in DOMAIN f : f[i] \in ToSet(f) /\ f[i] \in Calls
    BY <2>1 DEF ToSet
  <2>9. ASSUME NEW i \in DOMAIN (s \o g), NEW j \in DOMAIN (s \o g), (s \o g)[i][2] = (s \o g)[j][2]
        PROVE  i = j
    <3>1. CASE i \in DOMAIN s /\ (s \o g)[i] = s[i]
      <4>1. CASE j \in DOMAIN s /\ (s \o g)[j] = s[j]
        BY <2>9, <3>1, <4>1 DEF OneReply
      <4>2. CASE j - Len(s) \in DOMAIN f /\ (s \o g)[j] = g[j - Len(s)]
        BY <1>3, <2>2, <2>7, <2>8, <2>9, <3>1, <4>2
      <4>. QED  BY <2>6, <4>1, <4>2
    <3>2. CASE i \in Int /\ i - Len(s) \in DOMAIN f /\ (s \o g)[i] = g[i - Len(s)]
      <4>1. CASE j \in DOMAIN s /\ (s \o g)[j] = s[j]
        BY <1>3, <2>2, <2>7, <2>8, <2>9, <3>2, <4>1
      <4>2. CASE j \in Int /\ j - Len(s) \in DOMAIN f /\ (s \o g)[j] = g[j - Len(s)]
        <5>1. f[i - Len(s)] = f[j - Len(s)]
          BY <2>2, <2>9, <3>2, <4>2
        <5>2. i - Len(s) = j - Len(s)
          BY <1>3, <2>8, <3>2, <4>2, <5>1 DEF Once
        <5>. QED  BY <1>1, <3>2, <4>2, <5>2
      <4>. QED  BY <2>6, <4>1, <4>2
    <3>. QED  BY <2>6, <3>1, <3>2
  <2>10. OneReply(s \o g)
    BY <2>9 DEF OneReply
  <2>. QED  BY <2>10 DEF g
<1>. QED  BY <1>2, <1>3

(* What a Read returns, frame by frame.                                    *)
LEMMA ChunkIs ==
  ASSUME NEW s \in Seq(Calls), NEW k \in Nat, NEW n \in Nat \ {0}, k + n =< Len(s)
  PROVE  /\ Chunk(s, k, n) \in Seq(Calls) /\ Len(Chunk(s, k, n)) = n
         /\ \A i \in 1 .. n : Chunk(s, k, n)[i] = s[k + i]
<1>1. Len(s) \in Nat /\ DOMAIN s = 1 .. Len(s) /\ \A i \in (k + 1) .. (k + n) : s[i] \in Calls
  BY LenProperties, ElementOfSeq
<1>. QED  BY <1>1, SubSeqProperties DEF Chunk

(* A step that moves no frame from the host to upstream and no reply.      *)
LEMMA WireRest ==
  ASSUME WireInv, UNCHANGED <<sent, got, hostGot>>, ToSet(answers') \subseteq ToSet(got),
         \/ h' = h
         \/ h'.read = h.read /\ h'.pc = "done"
         \/ h'.read = h.read /\ h.pc = "publish" /\ h'.pc \in {"read", "publish"}
  PROVE  WireInv'
<1>1. Passed' = Passed /\ FirstSent(h.read)' = FirstSent(h.read)
      /\ Refused' = Refused
  BY DEF Passed, Refused, FirstSent, Firsts
<1>. QED  BY <1>1 DEF WireInv, FirstSent, Firsts

(* Replies are to calls that upstream has or that the gate has refused, and*)
(* not both.                                                               *)
LEMMA RepliesAre ==
  ASSUME ProxyInv, WireInv
  PROVE  /\ \A x \in ToSet(hostGot) : x[2] \in Refused \cup Answered
         /\ Answered \subseteq ToSet(answers) /\ Answered \subseteq ToSet(got)
         /\ ToSet(got) \cap Refused = {}
<1>1. hostGot \in Seq(Replies) /\ Answered = Read /\ answers \in Seq(Calls)
      /\ u.read \in Nat /\ u.read =< Len(answers)
  BY DEF ProxyInv, UpSide, UpTeeType
<1>2. ASSUME NEW x \in ToSet(hostGot) PROVE x[2] \in Refused \cup Answered
  <2>1. x \in Replies
    BY <1>1, LenProperties, ElementOfSeq DEF ToSet
  <2>2. x[2] \in Calls /\ (x = <<"answer", x[2]>> \/ x = <<"refused", x[2]>>)
    BY <2>1 DEF Replies
  <2>. QED  BY <1>2, <2>2 DEF Refused, Answered
<1>3. Answered \subseteq ToSet(answers)
  <2>1. \A i \in 1 .. u.read : i \in DOMAIN answers
    BY <1>1, LenProperties
  <2>. QED  BY <1>1, <2>1 DEF Read, ToSet
<1>4. ToSet(got) \cap Refused = {}
  <2>. SUFFICES ASSUME NEW i \in DOMAIN got, got[i] \in Refused PROVE FALSE
    BY DEF ToSet
  <2>1. InOrder(got, sent, Refused)
    BY DEF WireInv
  <2>. QED  BY <2>1 DEF InOrder
<1>. QED  BY <1>2, <1>3, <1>4 DEF WireInv

(* The host sends a call it has not sent before; upstream answers one that  *)
(* it received.                                                            *)
LEMMA PeerWire ==
  ASSUME ProxyInv, WireInv, NEW c \in Calls, HostSend(c) \/ Answer(c)
  PROVE  WireInv'
<1>1. CASE HostSend(c)
  <2>1. /\ sent' = Append(sent, c) /\ c \notin ToSet(sent)
        /\ UNCHANGED <<h, got, answers, hostGot>>
    BY <1>1 DEF HostSend
  <2>2. /\ sent \in Seq(Calls) /\ got \in Seq(Calls) /\ h.read \in Nat /\ h.read =< Len(sent)
        /\ Once(sent, Calls) /\ InOrder(got, sent, Refused)
    BY DEF ProxyInv, HostSide, HostTeeType, WireInv
  <2>3. InOrder(got, sent', Refused)
    BY <2>1, <2>2, OrderKept
  <2>4. Once(sent', Calls)
    BY <2>1, <2>2, AppendHas
  <2>5. Len(sent) \in Nat /\ \A i \in 1 .. Len(sent) : sent'[i] = sent[i]
    BY <2>1, <2>2, AppendProperties, LenProperties
  <2>6. \A r \in 0 .. Len(sent) : FirstSent(r)' = FirstSent(r)
    BY <2>5 DEF FirstSent, Firsts
  <2>7. h.read \in 0 .. Len(sent) /\ (h.read # 0 => h.read - 1 \in 0 .. Len(sent) /\ sent'[h.read] = sent[h.read])
    BY <2>2, <2>5
  <2>8. Passed' = Passed /\ Refused' = Refused
    BY <2>1 DEF Passed, Refused
  <2>9. /\ FirstSent(h.read)' = FirstSent(h.read)
        /\ h.read # 0 => FirstSent(h.read - 1)' = FirstSent(h.read - 1)
    <3>1. {sent'[i] : i \in 1 .. h.read} = {sent[i] : i \in 1 .. h.read}
      BY <2>2, <2>5
    <3>2. h.read # 0 => {sent'[i] : i \in 1 .. (h.read - 1)} = {sent[i] : i \in 1 .. (h.read - 1)}
      BY <2>2, <2>5
    <3>. QED  BY <2>1, <3>1, <3>2 DEF FirstSent, Firsts
  <2>. QED  BY <2>1, <2>2, <2>3, <2>4, <2>7, <2>8, <2>9 DEF WireInv
<1>2. CASE Answer(c)
  <2>1. /\ answers' = Append(answers, c) /\ c \in ToSet(got)
        /\ UNCHANGED <<sent, h, got, hostGot>>
    BY <1>2 DEF Answer
  <2>2. answers \in Seq(Calls) /\ ToSet(answers) \subseteq ToSet(got)
    BY DEF ProxyInv, UpSide, WireInv
  <2>3. ToSet(answers') = ToSet(answers) \cup {c}
    BY <2>1, <2>2, AppendHas
  <2>. QED  BY <2>1, <2>2, <2>3, WireRest
<1>. QED  BY <1>1, <1>2

(* Upstream receives what a Tee has read.                                  *)
LEMMA HostTeeWire ==
  ASSUME ProxyInv, WireInv, NEW n \in 1 .. ReadMax, HostTee(n)
  PROVE  WireInv'
<1>0. /\ h.pc = "read" /\ n \in Nat \ {0} /\ h.read + n =< Len(sent)
      /\ UNCHANGED <<sent, answers, hostGot>> /\ ToSet(answers) \subseteq ToSet(got)
  BY ProxyConstantsOK DEF HostTee, WireInv
<1>1. CASE got' = got /\ h' = [h EXCEPT !.pc = "done"]
  <2>1. h'.read = h.read /\ h'.pc = "done"
    BY <1>1 DEF ProxyInv, HostSide, HostTeeType
  <2>. QED  BY <1>0, <1>1, <2>1, WireRest
<1>2. CASE /\ got' = got \o Chunk(sent, h.read, n)
           /\ h' = [pc |-> "publish", read |-> h.read + n, todo |-> Chunk(sent, h.read, n)]
  <2>1. /\ sent \in Seq(Calls) /\ got \in Seq(Calls) /\ h.read \in Nat
        /\ Once(sent, Calls) /\ InOrder(got, sent, Refused)
        /\ ToSet(got) \cup Refused = FirstSent(h.read)
    BY <1>0 DEF ProxyInv, HostSide, HostTeeType, WireInv, Passed
  <2>. DEFINE f == Chunk(sent, h.read, n)
  <2>2. f \in Seq(Calls) /\ Len(f) = n /\ \A i \in 1 .. n : f[i] = sent[h.read + i]
    BY <1>0, <2>1, ChunkIs
  <2>3. h'.pc = "publish" /\ h'.read = h.read + n /\ got' = got \o f
    BY <1>2
  <2>. HIDE DEF f
  <2>4. /\ got' \in Seq(Calls) /\ InOrder(got', sent', Refused')
        /\ ToSet(got) \subseteq ToSet(got') /\ Passed' = Firsts(sent, h.read + n)
    <3>1. PICK r : r = h.read
      OBVIOUS
    <3>2. /\ r \in Nat /\ r + n =< Len(sent) /\ Passed = FirstSent(r)
          /\ \A i \in 1 .. n : f[i] = sent[r + i]
      BY <1>0, <2>1, <2>2, <3>1 DEF Passed
    <3>3. /\ got' \in Seq(Calls) /\ InOrder(got', sent', Refused')
          /\ ToSet(got) \subseteq ToSet(got') /\ Passed' = Firsts(sent, r + n)
      BY <1>0, <2>1, <2>2, <2>3, <3>2, UpstreamReads
    <3>. QED  BY <3>1, <3>3
  <2>5. Passed' = FirstSent(h.read)'
    BY <1>0, <2>3, <2>4 DEF FirstSent
  <2>. QED  BY <1>0, <2>1, <2>3, <2>4, <2>5 DEF WireInv
<1>. QED  BY <1>1, <1>2 DEF HostTee

(* The gate takes up one frame.                                            *)
LEMMA InspectWire ==
  ASSUME ProxyInv, WireInv, Inspect
  PROVE  WireInv'
<1>0. /\ h.pc = "read" /\ h.read < Len(sent)
      /\ UNCHANGED <<sent, answers, hostGot, got>> /\ ToSet(answers) \subseteq ToSet(got)
  BY DEF Inspect, WireInv
<1>1. CASE h' = [h EXCEPT !.pc = "done"]
  <2>1. h'.read = h.read /\ h'.pc = "done"
    BY <1>1 DEF ProxyInv, HostSide, HostTeeType
  <2>. QED  BY <1>0, <2>1, WireRest
<1>2. ASSUME NEW pc \in {"refuse", "forward"},
             h' = [pc |-> pc, read |-> h.read + 1, todo |-> <<sent[h.read + 1]>>]
      PROVE  WireInv'
  <2>1. h.read \in Nat /\ Passed = FirstSent(h.read)
    BY <1>0 DEF ProxyInv, HostSide, HostTeeType, WireInv
  <2>2. Passed' = Passed /\ Refused' = Refused
    BY <1>0 DEF Passed, Refused
  <2>3. h'.read = h.read + 1 /\ h'.pc = pc /\ h'.todo = <<sent[h.read + 1]>>
    BY <1>2
  <2>4. h'.read # 0 /\ (h.read + 1) - 1 = h.read
    BY <2>1, <2>3
  <2>5. FirstSent(h.read - 1)' = FirstSent(h.read)
    BY <1>0, <2>3, <2>4 DEF FirstSent, Firsts
  <2>6. FirstSent(h.read) \subseteq FirstSent(h.read)'
    <3>1. \A i \in 1 .. h.read : i \in 1 .. (h.read + 1)
      BY <2>1
    <3>. QED  BY <1>0, <2>3, <3>1 DEF FirstSent, Firsts
  <2>. QED  BY <1>0, <2>1, <2>2, <2>3, <2>4, <2>5, <2>6 DEF WireInv
<1>. QED  BY <1>1, <1>2 DEF Inspect

(* A frame the gate has let through follows those before it.               *)
LEMMA ForwardWire ==
  ASSUME ProxyInv, WireInv, Forward
  PROVE  WireInv'
<1>0. /\ h.pc = "forward"
      /\ UNCHANGED <<sent, answers, hostGot>> /\ ToSet(answers) \subseteq ToSet(got)
  BY DEF Forward, WireInv
<1>1. CASE got' = got /\ h' = [h EXCEPT !.pc = "done"]
  <2>1. h'.read = h.read /\ h'.pc = "done"
    BY <1>1 DEF ProxyInv, HostSide, HostTeeType
  <2>. QED  BY <1>0, <1>1, <2>1, WireRest
<1>2. CASE got' = got \o h.todo /\ h' = [h EXCEPT !.pc = "publish"]
  <2>1. /\ sent \in Seq(Calls) /\ got \in Seq(Calls) /\ h.read \in Nat /\ h.read # 0
        /\ h.read =< Len(sent)
        /\ Once(sent, Calls) /\ InOrder(got, sent, Refused)
        /\ ToSet(got) \cup Refused = FirstSent(h.read - 1)
        /\ h.todo \in Seq(Calls) /\ h.todo = <<sent[h.read]>>
    BY <1>0 DEF ProxyInv, HostSide, HostTeeType, WireInv, Passed
  <2>2. PICK r \in Nat : h.read = r + 1
    <3>1. h.read - 1 \in Nat /\ h.read = (h.read - 1) + 1
      BY <2>1
    <3>. QED  BY <3>1
  <2>. DEFINE f == h.todo
  <2>3. f \in Seq(Calls) /\ Len(f) = 1 /\ \A i \in 1 .. 1 : f[i] = sent[r + i]
    BY <2>1, <2>2
  <2>4. h'.pc = "publish" /\ h'.read = h.read /\ got' = got \o f
    BY <1>2 DEF ProxyInv, HostSide, HostTeeType
  <2>. HIDE DEF f
  <2>5. Passed = FirstSent(r) /\ r + 1 =< Len(sent) /\ 1 \in Nat \ {0}
    <3>1. h.read - 1 = r
      BY <2>2
    <3>. QED  BY <2>1, <2>2, <3>1 DEF Passed
  <2>6. /\ got' \in Seq(Calls) /\ InOrder(got', sent', Refused')
        /\ ToSet(got) \subseteq ToSet(got') /\ Passed' = Firsts(sent, r + 1)
    BY <1>0, <2>1, <2>2, <2>3, <2>4, <2>5, UpstreamReads
  <2>7. Passed' = FirstSent(h.read)'
    BY <1>0, <2>2, <2>4, <2>6 DEF FirstSent
  <2>. QED  BY <1>0, <2>1, <2>4, <2>6, <2>7 DEF WireInv
<1>. QED  BY <1>1, <1>2 DEF Forward

(* A frame the gate refuses is one that upstream does not have.            *)
LEMMA RefuseWire ==
  ASSUME ProxyInv, WireInv, Refuse
  PROVE  WireInv'
<1>0. /\ h.pc = "refuse" /\ h \in HostTeeType
      /\ UNCHANGED <<sent, answers, got>> /\ ToSet(answers) \subseteq ToSet(got)
  BY DEF Refuse, WireInv, ProxyInv, HostSide
<1>1. CASE Die
  <2>1. h'.read = h.read /\ h'.pc = "done" /\ hostGot' = hostGot
    BY <1>0, <1>1 DEF Die, HostTeeType
  <2>. QED  BY <1>0, <2>1, WireRest
<1>2. CASE /\ hostGot' = Append(hostGot, <<"refused", Head(h.todo)>>)
           /\ h' = [h EXCEPT !.pc = "publish"]
  <2>1. /\ sent \in Seq(Calls) /\ got \in Seq(Calls) /\ h.read \in Nat /\ h.read # 0
        /\ h.read =< Len(sent)
        /\ Once(sent, Calls) /\ InOrder(got, sent, Refused)
        /\ ToSet(got) \cup Refused = FirstSent(h.read - 1)
        /\ h.todo = <<sent[h.read]>>
        /\ hostGot \in Seq(Replies) /\ OneReply(hostGot)
    BY <1>0 DEF ProxyInv, HostSide, UpSide, HostTeeType, WireInv, Passed
  <2>. DEFINE c == Head(h.todo)
              e == <<"refused", c>>
  <2>2. c = sent[h.read] /\ h.read \in DOMAIN sent /\ DOMAIN sent = 1 .. Len(sent) /\ Len(sent) \in Nat
    BY <2>1, LenProperties
  <2>3. c \in Calls
    BY <2>1, <2>2, ElementOfSeq
  <2>4. h'.pc = "publish" /\ h'.read = h.read /\ hostGot' = Append(hostGot, e)
    BY <1>0, <1>2 DEF HostTeeType
  <2>. HIDE DEF c
  <2>5. c \notin ToSet(got) \cup Refused
    <3>. SUFFICES ASSUME NEW i \in 1 .. (h.read - 1), sent[i] = c PROVE FALSE
      BY <2>1 DEF FirstSent, Firsts
    <3>1. i \in DOMAIN sent /\ i # h.read
      BY <2>1, <2>2
    <3>. QED  BY <2>1, <2>2, <2>3, <3>1 DEF Once
  <2>6. e \in Replies /\ e[2] = c /\ \A d \in Calls : <<"refused", d>> = e <=> d = c
    BY <2>3 DEF Replies
  <2>. HIDE DEF e
  <2>7. \A x \in ToSet(hostGot) : x[2] # e[2]
    BY <2>5, <2>6, RepliesAre
  <2>8. OneReply(hostGot')
    BY <2>1, <2>4, <2>6, <2>7, ReplyGrows
  <2>9. ToSet(hostGot') = ToSet(hostGot) \cup {e}
    BY <2>1, <2>4, <2>6, AppendHas
  <2>10. Refused' = Refused \cup {c}
    BY <2>3, <2>6, <2>9 DEF Refused
  <2>11. InOrder(got, sent, Refused \cup {c})
    BY <2>1, <2>3, <2>5, OrderKept
  <2>12. InOrder(got', sent', Refused')
    BY <1>0, <2>10, <2>11
  <2>13. Passed' = FirstSent(h.read)'
    <3>1. Passed' = FirstSent(h.read - 1) \cup {c}
      BY <1>0, <2>1, <2>10 DEF Passed
    <3>2. FirstSent(h.read)' = {sent[i] : i \in 1 .. h.read}
      BY <1>0, <2>4 DEF FirstSent, Firsts
    <3>3. \A i \in 1 .. h.read : i = h.read \/ i \in 1 .. (h.read - 1)
      BY <2>1
    <3>4. h.read \in 1 .. h.read /\ \A i \in 1 .. (h.read - 1) : i \in 1 .. h.read
      BY <2>1
    <3>5. {sent[i] : i \in 1 .. h.read} = FirstSent(h.read - 1) \cup {c}
      <4>1. ASSUME NEW x \in {sent[i] : i \in 1 .. h.read} PROVE x \in FirstSent(h.read - 1) \cup {c}
        BY <2>2, <3>3 DEF FirstSent, Firsts
      <4>2. ASSUME NEW x \in FirstSent(h.read - 1) \cup {c} PROVE x \in {sent[i] : i \in 1 .. h.read}
        BY <2>2, <3>4 DEF FirstSent, Firsts
      <4>. QED  BY <4>1, <4>2
    <3>. QED  BY <3>1, <3>2, <3>5
  <2>. QED  BY <1>0, <2>1, <2>4, <2>8, <2>12, <2>13 DEF WireInv
<1>. QED  BY <1>1, <1>2 DEF Refuse

(* The host gets answers it has not had, to calls that were not refused.   *)
LEMMA UpTeeWire ==
  ASSUME ProxyInv, WireInv, NEW n \in 1 .. ReadMax, UpTee(n)
  PROVE  WireInv'
<1>0. /\ u.pc = "read" /\ n \in Nat \ {0} /\ u.read + n =< Len(answers) /\ u.read \in Nat
      /\ UNCHANGED <<sent, answers, got>> /\ ToSet(answers) \subseteq ToSet(got)
  BY ProxyConstantsOK DEF UpTee, WireInv, ProxyInv, UpSide, UpTeeType
<1>1. CASE Die
  <2>1. h'.read = h.read /\ h'.pc = "done" /\ hostGot' = hostGot
    BY <1>1 DEF Die, ProxyInv, HostSide, HostTeeType
  <2>. QED  BY <1>0, <2>1, WireRest
<1>2. CASE /\ h' = h
           /\ hostGot' = hostGot \o
                [i \in DOMAIN Chunk(answers, u.read, n) |-> <<"answer", Chunk(answers, u.read, n)[i]>>]
  <2>. DEFINE f == Chunk(answers, u.read, n)
  <2>1. /\ answers \in Seq(Calls) /\ Once(answers, Calls) /\ Answered = Read
        /\ hostGot \in Seq(Replies) /\ OneReply(hostGot)
    BY DEF ProxyInv, UpSide, WireInv
  <2>2. f \in Seq(Calls) /\ ToSet(f) = {answers[i] : i \in (u.read + 1) .. (u.read + n)}
    <3>1. f \in Seq(Calls)
      BY <1>0, <2>1, ChunkIs
    <3>2. PICK k \in Nat : k = u.read
      BY <1>0
    <3>3. /\ Len(f) = n /\ \A i \in 1 .. n : f[i] = answers[k + i]
      BY <1>0, <2>1, <3>2, ChunkIs
    <3>. HIDE DEF f
    <3>4. DOMAIN f = 1 .. n
      BY <3>1, <3>3, LenProperties
    <3>5. /\ \A i \in 1 .. n : k + i \in (k + 1) .. (k + n)
          /\ \A j \in (k + 1) .. (k + n) : j - k \in 1 .. n /\ k + (j - k) = j
      BY <1>0, <3>2
    <3>6. ASSUME NEW x \in ToSet(f) PROVE x \in {answers[i] : i \in (k + 1) .. (k + n)}
      BY <3>3, <3>4, <3>5 DEF ToSet
    <3>7. ASSUME NEW j \in (k + 1) .. (k + n) PROVE answers[j] \in ToSet(f)
      <4>1. f[j - k] = answers[j] /\ j - k \in DOMAIN f
        BY <3>3, <3>4, <3>5
      <4>. QED  BY <4>1 DEF ToSet
    <3>. QED  BY <3>1, <3>2, <3>6, <3>7
  <2>3. Once(f, Calls)
    BY <1>0, <2>1, ChunkHas
  <2>4. hostGot' = hostGot \o [i \in DOMAIN f |-> <<"answer", f[i]>>]
    BY <1>2
  <2>. HIDE DEF f
  <2>5. Len(answers) \in Nat /\ DOMAIN answers = 1 .. Len(answers)
    BY <2>1, LenProperties
  <2>6. ToSet(f) \cap Answered = {}
    <3>. SUFFICES ASSUME NEW i \in 1 .. u.read, NEW j \in (u.read + 1) .. (u.read + n),
                         answers[i] = answers[j]
                  PROVE  FALSE
      BY <2>1, <2>2 DEF Read
    <3>1. i \in DOMAIN answers /\ j \in DOMAIN answers /\ i # j
      BY <1>0, <2>5
    <3>2. answers[i] \in Calls
      BY <2>1, <2>5, <3>1, ElementOfSeq
    <3>. QED  BY <2>1, <3>1, <3>2 DEF Once
  <2>7. ToSet(f) \subseteq ToSet(answers)
    <3>1. \A i \in (u.read + 1) .. (u.read + n) : i \in DOMAIN answers
      BY <1>0, <2>5
    <3>. QED  BY <2>2, <3>1 DEF ToSet
  <2>8. \A x \in ToSet(hostGot) : x[2] \notin ToSet(f)
    BY <1>0, <2>6, <2>7, RepliesAre
  <2>9. OneReply(hostGot')
    BY <2>1, <2>2, <2>3, <2>4, <2>8, ReplyGrows
  <2>10. ToSet(hostGot') = ToSet(hostGot) \cup {<<"answer", c>> : c \in ToSet(f)}
    BY <2>1, <2>2, <2>4, ReplyHas
  <2>11. Refused' = Refused
    <3>1. \A c : <<"refused", c>> \in ToSet(hostGot') <=> <<"refused", c>> \in ToSet(hostGot)
      BY <2>10
    <3>. QED  BY <3>1 DEF Refused
  <2>12. Passed' = Passed
    BY <1>0, <2>11 DEF Passed
  <2>. QED  BY <1>0, <1>2, <2>9, <2>11, <2>12 DEF WireInv, FirstSent, Firsts
<1>. QED  BY <1>1, <1>2 DEF UpTee

(* The other steps move no frame of a wire.                                *)
LEMMA OtherWire ==
  ASSUME ProxyInv, WireInv,
         \/ HostClose \/ UpExit \/ HaltChanges
         \/ HostPublish \/ HostEnd \/ UpPublish \/ UpEnd
         \/ Capture \/ Dispatch \/ RunToReport \/ Reported \/ UNCHANGED vars
  PROVE  WireInv'
<1>. USE DEF Capture, TakeRequest, TakeResponse, EmitFails, EnqueueLocks, Enqueued, SweepOrphans,
             WorkerEnds, Dispatch, RunToReport, Join, Grace, Reap, ReportLocks, Reported
<1>1. UNCHANGED <<sent, got, hostGot, answers>>
  BY DEF HostClose, UpExit, HaltChanges, HostPublish, HostEnd, UpPublish, UpEnd, vars, wires
<1>2. \/ h' = h
      \/ h' = [h EXCEPT !.pc = "done"]
      \/ h.pc = "publish" /\ h' = Published(h)
  BY DEF HostClose, UpExit, HaltChanges, HostPublish, HostEnd, UpPublish, UpEnd, vars, wires
<1>3. /\ h \in HostTeeType /\ (h.pc = "publish" => h.todo # <<>>)
      /\ ToSet(answers) \subseteq ToSet(got)
  BY DEF ProxyInv, HostSide, WireInv
<1>4. \/ h' = h
      \/ h'.read = h.read /\ h'.pc = "done"
      \/ h'.read = h.read /\ h.pc = "publish" /\ h'.pc \in {"read", "publish"}
  <2>1. CASE h' = [h EXCEPT !.pc = "done"]
    BY <1>3, <2>1 DEF HostTeeType
  <2>2. CASE h.pc = "publish" /\ h' = Published(h)
    BY <1>3, <2>2, PublishedIs
  <2>. QED  BY <1>2, <2>1, <2>2
<1>. QED  BY <1>1, <1>3, <1>4, WireRest

(* WireInv is an invariant.                                                *)
LEMMA WireInvariant == Spec => []WireInv
<1>1. Init => WireInv
  <2>. SUFFICES ASSUME Init PROVE WireInv
    OBVIOUS
  <2>1. sent = <<>> /\ got = <<>> /\ answers = <<>> /\ hostGot = <<>> /\ h.pc = "read" /\ h.read = 0
    BY DEF Init, Start
  <2>2. Once(sent, Calls) /\ got \in Seq(Calls) /\ InOrder(got, sent, Refused) /\ OneReply(hostGot)
    BY <2>1, EmptySeq DEF Once, InOrder, OneReply
  <2>3. Passed = {} /\ FirstSent(h.read) = {} /\ ToSet(answers) = {}
    BY <2>1, EmptyHas DEF Passed, Refused, FirstSent, Firsts
  <2>. QED  BY <2>1, <2>2, <2>3 DEF WireInv
<1>2. ProxyInv /\ WireInv /\ [Next]_vars => WireInv'
  BY PeerWire, HostTeeWire, InspectWire, ForwardWire, RefuseWire, UpTeeWire, OtherWire
     DEF Next, Wire
<1>. QED  BY <1>1, <1>2, ProxyInvariant, PTL DEF Spec

(* The proxy is transparent, for any number of calls, whatever a Read      *)
(* returns and wherever the session breaks off: what upstream reads next   *)
(* is the first request it has not read and the gate has not refused, and  *)
(* a request gets at most one reply.                                       *)
THEOREM TransparentTheorem == Spec => []Transparent
<1>1. WireInv => Transparent
  BY DEF WireInv, Transparent, InOrder, OneReply
<1>. QED  BY <1>1, WireInvariant, PTL

-----------------------------------------------------------------------------
(* Types                                                                   *)

\* What ProxyInv and WireInv leave open.
RestTyped ==
  /\ gated \in BOOLEAN /\ host \in {"up", "closed", "gone"} /\ upAlive \in BOOLEAN
  /\ chan \in Seq(Frames \ Big) /\ Len(chan) =< ChanCap
  /\ worker \in {"running", "drained", "cancelled"}
  /\ pending \in Seq(Calls) /\ counted \subseteq Calls
  /\ qmu \in {"free", "worker", "run", "dispatcher"}
  /\ (qmu = "worker" => job # <<>>) /\ (qmu = "run" <=> main = "enqueue")
  /\ main \in {"join", "grace", "reap", "report", "enqueue", "exit"}
  /\ crashes \in 0 .. 1 /\ (main # "exit" => crashes = 0)
  /\ haltFile \in {"clear", "halted"} /\ seen \in {"unread", "clear", "halted"}

(* The Correlator stays a list of calls, whatever it forgets.              *)
LEMMA Forgets ==
  ASSUME NEW s \in Seq(Calls)
  PROVE  /\ \A i \in DOMAIN s : RemoveAt(s, i) \in Seq(Calls)
         /\ \A n \in 1 .. Len(s) : SubSeq(s, n + 1, Len(s)) \in Seq(Calls)
<1>1. Len(s) \in Nat /\ DOMAIN s = 1 .. Len(s)
  BY LenProperties
<1>2. ASSUME NEW n \in 1 .. Len(s) PROVE SubSeq(s, n + 1, Len(s)) \in Seq(Calls)
  <2>1. n + 1 \in 1 .. Len(s) + 1 /\ Len(s) \in (n + 1) - 1 .. Len(s)
    BY <1>1
  <2>. QED  BY <2>1, SubSeqProperties
<1>3. ASSUME NEW i \in DOMAIN s PROVE RemoveAt(s, i) \in Seq(Calls)
  <2>1. 1 \in 1 .. Len(s) + 1 /\ i - 1 \in 1 - 1 .. Len(s)
    BY <1>1
  <2>2. SubSeq(s, 1, i - 1) \in Seq(Calls)
    BY <2>1, SubSeqProperties
  <2>. QED  BY <1>1, <1>2, <2>2, ConcatProperties DEF RemoveAt
<1>. QED  BY <1>2, <1>3

(* A frame that is published fits, or is counted.                          *)
LEMMA PublishTyped ==
  ASSUME RestTyped, NEW frame \in Frames, Publish(frame)
  PROVE  /\ chan' \in Seq(Frames \ Big) /\ Len(chan') =< ChanCap
         /\ counted' \subseteq Calls
<1>1. CASE chan' = chan /\ counted' = counted \cup {frame[2]}
  BY <1>1 DEF RestTyped, Frames
<1>2. CASE Len(chan) < ChanCap /\ frame \notin Big /\ chan' = Append(chan, frame) /\ counted' = counted
  <2>1. /\ chan' \in Seq(Frames \ Big) /\ Len(chan') = Len(chan) + 1 /\ Len(chan) \in Nat
    BY <1>2, AppendProperties, LenProperties DEF RestTyped
  <2>. QED  BY <1>2, <2>1, ProxyConstantsOK DEF RestTyped
<1>. QED  BY <1>1, <1>2 DEF Publish

(* A step keeps the types.                                                 *)
LEMMA StepTyped ==
  ASSUME ProxyInv, RestTyped, [Next]_vars
  PROVE  RestTyped'
<1>1. ASSUME HostPublish \/ UpPublish PROVE RestTyped'
  <2>1. PICK frame \in Frames : Publish(frame)
    <3>1. CASE HostPublish
      <4>1. Head(h.todo) \in Calls
        BY <3>1, HeadTailProperties DEF HostPublish, ProxyInv, HostSide, HostTeeType
      <4>2. <<"request", Head(h.todo)>> \in Frames
        BY <4>1 DEF Frames
      <4>. QED  BY <3>1, <4>2 DEF HostPublish
    <3>2. CASE UpPublish
      <4>1. Head(u.todo) \in Calls
        BY <3>2, HeadTailProperties DEF UpPublish, ProxyInv, UpSide, UpTeeType
      <4>2. <<"response", Head(u.todo)>> \in Frames
        BY <4>1 DEF Frames
      <4>. QED  BY <3>2, <4>2 DEF UpPublish
    <3>. QED  BY <1>1, <3>1, <3>2
  <2>2. UNCHANGED <<gated, host, upAlive, worker, job, qmu, pending, crashes, main, halt>>
    BY <1>1 DEF HostPublish, UpPublish, queue
  <2>. QED  BY <2>1, <2>2, PublishTyped DEF RestTyped, halt
<1>2. ASSUME TakeRequest \/ TakeResponse PROVE RestTyped'
  <2>1. chan # <<>> /\ chan' = Tail(chan)
        /\ UNCHANGED <<gated, host, upAlive, worker, qmu, crashes, main, halt>> /\ job = <<>>
    BY <1>2 DEF TakeRequest, TakeResponse, Idle, wires, queue
  <2>2. /\ Head(chan) \in Frames \ Big /\ chan' \in Seq(Frames \ Big)
        /\ Len(chan') = Len(chan) - 1 /\ Len(chan) \in Nat
    BY <2>1, HeadTailProperties, LenProperties DEF RestTyped
  <2>3. Head(chan)[2] \in Calls
    BY <2>2 DEF Frames
  <2>4. pending' \in Seq(Calls)
    <3>1. CASE pending' = Append(pending, Head(chan)[2])
      BY <2>3, <3>1, AppendProperties DEF RestTyped
    <3>2. CASE \E i \in DOMAIN pending : pending' = RemoveAt(pending, i)
      BY <3>2, Forgets DEF RestTyped
    <3>3. CASE pending' = pending
      BY <3>3 DEF RestTyped
    <3>. QED  BY <1>2, <3>1, <3>2, <3>3 DEF TakeRequest, TakeResponse
  <2>5. counted' \subseteq Calls
    BY <1>2, <2>3 DEF TakeRequest, TakeResponse, RestTyped
  <2>6. Len(chan') =< ChanCap
    BY <2>2, ProxyConstantsOK DEF RestTyped
  <2>. QED  BY <2>1, <2>2, <2>4, <2>5, <2>6 DEF RestTyped, halt
<1>3. ASSUME SweepOrphans PROVE RestTyped'
  <2>1. pending' \in Seq(Calls)
    BY <1>3, Forgets DEF SweepOrphans, RestTyped
  <2>. QED  BY <1>3, <2>1 DEF SweepOrphans, RestTyped, wires, queue, halt
<1>4. ASSUME WorkerEnds \/ EnqueueLocks \/ Dispatch PROVE RestTyped'
  BY <1>4 DEF WorkerEnds, EnqueueLocks, Dispatch, Busy, RestTyped, wires, queue, halt
<1>11. ASSUME EmitFails \/ Enqueued PROVE RestTyped'
  <2>1. PICK c \in Tools : job = <<c>>
    BY <1>11 DEF EmitFails, Enqueued, Busy, ProxyInv, Captured
  <2>2. counted' \subseteq Calls
    BY <1>11, <2>1, OneHas, ProxyConstantsOK DEF EmitFails, Enqueued, RestTyped
  <2>. QED  BY <1>11, <2>2 DEF EmitFails, Enqueued, RestTyped, wires, halt
<1>5. ASSUME RunToReport \/ Reported PROVE RestTyped'
  BY <1>5 DEF RunToReport, Join, Grace, Reap, ReportLocks, Reported, RestTyped, wires, capture,
             queue, halt
<1>6. ASSUME Refuse \/ \E n \in 1 .. ReadMax : UpTee(n) PROVE RestTyped'
  <2>1. main = "join"
    BY <1>6 DEF Refuse, UpTee, ProxyInv, Ending
  <2>. QED  BY <1>6, <2>1 DEF Refuse, UpTee, Die, RestTyped, queue, halt
<1>7. ASSUME Inspect PROVE RestTyped'
  BY <1>7 DEF Inspect, RestTyped, capture, queue
<1>8. ASSUME \/ \E c \in Calls : HostSend(c) \/ Answer(c)
             \/ HostClose \/ UpExit \/ HaltChanges
      PROVE  RestTyped'
  <2>1. CASE \E c \in Calls : HostSend(c) \/ Answer(c)
    BY <2>1 DEF HostSend, Answer, RestTyped, capture, queue, halt
  <2>2. CASE HostClose
    BY <2>2 DEF HostClose, RestTyped, capture, queue, halt
  <2>3. CASE UpExit
    <3>1. upAlive' \in BOOLEAN
      BY <2>3, Zenon DEF UpExit
    <3>. QED  BY <2>3, <3>1 DEF UpExit, RestTyped, capture, queue, halt
  <2>4. CASE HaltChanges
    BY <2>4 DEF HaltChanges, RestTyped, wires, capture, queue
  <2>. QED  BY <1>8, <2>1, <2>2, <2>3, <2>4
<1>9. ASSUME (\E n \in 1 .. ReadMax : HostTee(n)) \/ Forward \/ HostEnd \/ UpEnd PROVE RestTyped'
  BY <1>9 DEF HostTee, Forward, HostEnd, UpEnd, RestTyped, capture, queue, halt
<1>10. CASE UNCHANGED vars
  BY <1>10 DEF vars, RestTyped, wires, capture, queue, halt
<1>. QED  BY <1>1, <1>2, <1>3, <1>4, <1>5, <1>6, <1>7, <1>8, <1>9, <1>10, <1>11 DEF Next, Wire, Capture

(* Every variable stays in its type: the capture channel never holds more  *)
(* than its capacity, nor an oversized frame.                              *)
THEOREM TypeTheorem == Spec => []PTypeOK
<1>1. Init => RestTyped
  <2>. SUFFICES ASSUME Init PROVE RestTyped
    OBVIOUS
  <2>1. chan = <<>> /\ pending = <<>> /\ Len(<<>>) = 0 /\ \A S : <<>> \in Seq(S)
    BY EmptySeq DEF Init
  <2>. QED  BY <2>1, ProxyConstantsOK DEF Init, RestTyped
<1>2. ProxyInv /\ RestTyped /\ [Next]_vars => RestTyped'
  BY StepTyped
<1>3. ProxyInv /\ WireInv /\ RestTyped => PTypeOK
  <2>. SUFFICES ASSUME ProxyInv, WireInv, RestTyped PROVE PTypeOK
    OBVIOUS
  <2>1. /\ sent \in Seq(Calls) /\ got \in Seq(Calls) /\ answers \in Seq(Calls)
        /\ h \in HostTeeType /\ h.read =< Len(sent) /\ u \in UpTeeType /\ u.read =< Len(answers)
        /\ hostGot \in Seq(Replies)
        /\ events \in [Calls -> Nat] /\ \A c \in Calls : events[c] # 0 => events[c] = 1
        /\ job \in {<<>>} \cup {<<c>> : c \in Tools}
    BY DEF ProxyInv, WireInv, HostSide, UpSide, Captured
  <2>2. Len(sent) \in Nat /\ Len(answers) \in Nat
    BY <2>1, LenProperties
  <2>3. h.read \in 0 .. Len(sent) + Len(answers) /\ u.read \in 0 .. Len(sent) + Len(answers)
    BY <2>1, <2>2 DEF HostTeeType, UpTeeType
  <2>4. /\ h \in Side({"read", "forward", "refuse", "publish", "done"})
        /\ u \in Side({"read", "publish", "done"})
    BY <2>1, <2>3 DEF Side, HostTeeType, UpTeeType
  <2>5. events \in [Calls -> 0 .. 1]
    BY <2>1
  <2>. QED  BY <2>1, <2>4, <2>5 DEF PTypeOK, RestTyped, Replies, Frames
<1>. QED  BY <1>1, <1>2, <1>3, ProxyInvariant, WireInvariant, PTL DEF Spec
=============================================================================
