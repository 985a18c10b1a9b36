-------------------------- MODULE HostPatch_proofs --------------------------
(***************************************************************************)
(* Proofs about the host's config file.  Unless commands overlap, or undo  *)
(* takes a torn backup for a whole one, it is never torn; unless commands  *)
(* overlap, the user edits the file in the middle of one, or a patch comes *)
(* within a second of another, what it replaced has a backup.  Then the    *)
(* types, for commands that overlap too; and what a command that is alone  *)
(* loses: neither the original of a wrapped server nor the user's last     *)
(* word, with the excuses that the properties name.                        *)
(***************************************************************************)
EXTENDS HostPatch, FiniteSetTheorems, TLAPS

\* A whole text: entries of servers, which the torn one is not.
Text(c) == DOMAIN c \subseteq Servers

Fields == {"pc", "kind", "read", "text", "want", "bak"}

\* The backup that a patch at work has taken and that is still there.
Own(x) == IF x.pc # "idle" /\ x.bak \in DOMAIN backups THEN backups[x.bak] ELSE Torn
Excused == excused \cap {"overlap", "tornBackup"} # {}

Shapes ==
  /\ DOMAIN host = {"file", "tmp", "fd"} /\ DOMAIN host.fd = Procs
  /\ DOMAIN proc = Procs /\ \A p \in Procs : DOMAIN proc[p] = Fields
  /\ now \in Nat /\ DOMAIN backups \subseteq 0 .. now

\* A command at work has whole texts in hand, has the temporary file open
\* only while it fills it, and renames what it wrote.
Steady(p) ==
  LET x == proc[p]
  IN  /\ x.pc = "backup" => Text(x.read)
      /\ x.pc \in {"markers", "open", "fill", "rename"} => Text(x.text)
      /\ host.fd[p] = IF x.pc = "fill" THEN "tmp" ELSE "none"
      /\ x.pc = "fill" => host.tmp = Torn
      /\ x.pc = "rename" => host.tmp = x.text
      /\ x.pc # "idle" /\ x.bak \in DOMAIN backups => Text(backups[x.bak])

Alone ==
  /\ \A p, q \in Procs : Busy(p) /\ Busy(q) => p = q
  /\ Text(host.file)
  /\ \A t \in DOMAIN backups : backups[t] = Torn \/ Text(backups[t])
  /\ \A p \in Procs : Steady(p)

IInv == Excused \/ (Shapes /\ Alone)

(* A torn file is no text.                                                 *)
LEMMA TextIsWhole ==
  ASSUME NEW c, Text(c)
  PROVE  c # Torn
BY HostConstantsOK DEF Text, Torn

(* The latest backup is one: fewest others are later.                      *)
LEMMA LatestIsThere ==
  ASSUME NEW n \in Nat, NEW S, S \subseteq 0 .. n, S # {}
  PROVE  Max(S) \in S
<1>. DEFINE R == StrictSubsetOrdering(S)
            Above(t) == {u \in S : u > t}
            T == {Above(t) : t \in S}
<1>1. IsFiniteSet(S)
  <2>1. S \in SUBSET Nat /\ \A s \in S : s <= n
    OBVIOUS
  <2>. QED  BY <2>1, FS_BoundedSetOfNaturals
<1>2. T \subseteq SUBSET S /\ T # {}
  OBVIOUS
<1>3. \E A \in T : \A B \in T : ~(<<B, A>> \in R)
  <2>1. IsWellFoundedOn(R, SUBSET S)
    BY <1>1, FS_StrictSubsetOrderingWellFounded, FS_FiniteSubsetsOfFinite
  <2>. HIDE DEF T, R
  <2>. QED  BY <1>2, <2>1, WFMin
<1>4. PICK t \in S : \A u \in S : ~(<<Above(u), Above(t)>> \in R)
  BY <1>3
<1>5. ASSUME NEW u \in S, u > t
      PROVE  FALSE
  <2>1. t \in 0 .. n /\ u \in 0 .. n
    OBVIOUS
  <2>2. Above(u) \subseteq Above(t)
    <3>. SUFFICES ASSUME NEW v \in S, v > u
                  PROVE  v > t
      OBVIOUS
    <3>1. v \in 0 .. n
      OBVIOUS
    <3>. QED  BY <1>5, <2>1, <3>1
  <2>3. u \in Above(t) /\ u \notin Above(u)
    BY <1>5, <2>1
  <2>4. <<Above(u), Above(t)>> \in R
    BY <2>2, <2>3 DEF StrictSubsetOrdering
  <2>. QED  BY <1>4, <2>4
<1>6. \A u \in S : t >= u
  <2>. SUFFICES ASSUME NEW u \in S
                PROVE  t >= u
    OBVIOUS
  <2>1. t \in 0 .. n /\ u \in 0 .. n
    OBVIOUS
  <2>. QED  BY <1>5, <2>1
<1>. QED  BY <1>6 DEF Max

(* A patch, or an unpatch, of a text is a text.                            *)
LEMMA RewritesAreTexts ==
  ASSUME NEW c, Text(c)
  PROVE  /\ \A want : Text(Wrapped(c, want))
         /\ Text(Unwrapped(c))
BY DEF Text, Wrapped, Unwrapped

(* Changing one process.                                                   *)
LEMMA Becomes ==
  ASSUME Shapes, NEW p \in Procs, NEW x, DOMAIN x = Fields, Become(p, x)
  PROVE  /\ proc'[p] = x /\ \A q \in Procs \ {p} : proc'[q] = proc[q]
         /\ DOMAIN proc' = Procs /\ \A q \in Procs : DOMAIN proc'[q] = Fields
BY DEF Shapes, Become

LEMMA IdleShape == DOMAIN Idle = Fields /\ Idle.pc = "idle" /\ Idle.bak = -1
BY DEF Idle, Fields

(* The step of one command while the others are idle: it is enough to look *)
(* at that command and the files.                                          *)
LEMMA AloneStep ==
  ASSUME Shapes, Alone, NEW p \in Procs,
         \A q \in Procs \ {p} : ~Busy(q) /\ proc'[q] = proc[q] /\ host'.fd[q] = host.fd[q],
         Text(host.file)',
         \A t \in DOMAIN backups' : backups'[t] = Torn \/ Text(backups'[t]),
         Steady(p)'
  PROVE  Alone'
<1>1. \A q \in Procs \ {p} : Steady(q)'
  BY DEF Alone, Steady, Busy
<1>2. \A q, r \in Procs : Busy(q)' /\ Busy(r)' => q = r
  BY DEF Busy
<1>. QED  BY <1>1, <1>2 DEF Alone

(* A command that begins alone reads a whole text.                         *)
LEMMA AloneBegin ==
  ASSUME Shapes, Alone, ~Excused', NEW p \in Procs,
         \/ \E want \in SUBSET Servers, force \in BOOLEAN : Patch(p, want, force)
         \/ Unpatch(p) \/ Undo(p)
  PROVE  Shapes' /\ Alone'
<1>0. /\ UNCHANGED disk /\ now' = now /\ ~Busy(p) /\ excused' = excused' \cup Overlap(p)
  BY DEF Patch, Unpatch, Undo
<1>1. \A q \in Procs \ {p} : ~Busy(q)
  BY <1>0 DEF Excused, Overlap
<1>2. host.fd[p] = "none" /\ Text(host.file)
  BY <1>0 DEF Alone, Steady, Busy
<1>. DEFINE Good(x) == /\ DOMAIN x = Fields /\ x.bak = -1
                       /\ x.pc = "backup" => Text(x.read)
                       /\ x.pc \in {"idle", "backup", "open"}
                       /\ x.pc = "open" => Text(x.text)
<1>3. \E x : Become(p, x) /\ Good(x)
  <2>1. CASE \E want \in SUBSET Servers, force \in BOOLEAN : Patch(p, want, force)
    <3>1. PICK want \in SUBSET Servers :
            Become(p, [Idle EXCEPT !.pc = "backup", !.read = host.file, !.want = want])
      BY <2>1 DEF Patch
    <3>. DEFINE y == [Idle EXCEPT !.pc = "backup", !.read = host.file, !.want = want]
    <3>2. DOMAIN y = Fields /\ y.pc = "backup" /\ y.read = host.file /\ y.bak = -1
      BY IdleShape DEF Fields
    <3>3. Become(p, y)
      BY <3>1
    <3>. HIDE DEF y
    <3>. QED  BY <1>2, <3>2, <3>3
  <2>2. CASE Unpatch(p)
    <3>. DEFINE y == [Idle EXCEPT !.pc = "open", !.kind = "unpatch", !.text = Unwrapped(host.file)]
    <3>1. Become(p, Idle) \/ Become(p, y)
      BY <2>2 DEF Unpatch
    <3>2. DOMAIN y = Fields /\ y.pc = "open" /\ y.text = Unwrapped(host.file) /\ y.bak = -1
      BY IdleShape DEF Fields
    <3>3. Text(Unwrapped(host.file))
      BY <1>2, RewritesAreTexts
    <3>. HIDE DEF y
    <3>. QED  BY <3>1, <3>2, <3>3, IdleShape
  <2>3. CASE Undo(p)
    <3>. DEFINE c == backups[Max(DOMAIN backups)]
                y == [Idle EXCEPT !.pc = "open", !.kind = "undo", !.text = c]
    <3>1. /\ Become(p, y)
          /\ DOMAIN backups # {} /\ (c = Torn => "tornBackup" \in excused')
      BY <2>3 DEF Undo
    <3>2. Max(DOMAIN backups) \in DOMAIN backups
      BY <3>1, LatestIsThere DEF Shapes
    <3>3. Text(c)
      BY <3>1, <3>2 DEF Alone, Excused
    <3>4. DOMAIN y = Fields /\ y.pc = "open" /\ y.text = c /\ y.bak = -1
      BY IdleShape DEF Fields
    <3>. HIDE DEF c, y
    <3>. QED  BY <3>1, <3>3, <3>4
  <2>. QED  BY <2>1, <2>2, <2>3
<1>4. PICK x : Become(p, x) /\ Good(x)
  BY <1>3
<1>5. /\ proc'[p] = x /\ \A q \in Procs \ {p} : proc'[q] = proc[q]
      /\ DOMAIN proc' = Procs /\ \A q \in Procs : DOMAIN proc'[q] = Fields
  BY <1>4, Becomes
<1>6. Steady(p)'
  <2>1. -1 \notin DOMAIN backups'
    BY <1>0 DEF Shapes, disk
  <2>. QED  BY <1>0, <1>2, <1>4, <1>5, <2>1 DEF Steady, disk
<1>7. Shapes'
  BY <1>0, <1>5 DEF Shapes, disk
<1>8. Alone'
  BY <1>0, <1>1, <1>5, <1>6, AloneStep DEF Alone, disk
<1>. QED  BY <1>7, <1>8

(* The steps of a command.                                                 *)
LEMMA AloneWork ==
  ASSUME Shapes, Alone, NEW p \in Procs,
         \/ Backup(p) \/ WriteMarkers(p) \/ Open(p) \/ Fill(p) \/ Rename(p) \/ Verify(p)
         \/ VerifyFails(p) \/ SaveHash(p) \/ ClearHash(p)
  PROVE  Shapes' /\ Alone'
<1>. DEFINE x == proc[p]
<1>0. /\ Busy(p) /\ DOMAIN x = Fields /\ Steady(p) /\ now' = now /\ now \in Nat
      /\ Text(host.file) /\ \A t \in DOMAIN backups : backups[t] = Torn \/ Text(backups[t])
      /\ DOMAIN host = {"file", "tmp", "fd"} /\ DOMAIN host.fd = Procs
      /\ DOMAIN backups \subseteq 0 .. now
      /\ x.bak \in DOMAIN backups => Text(backups[x.bak])
  BY DEF Backup, WriteMarkers, Open, Fill, Rename, Verify, VerifyFails, SaveHash, ClearHash, Busy,
         Shapes, Alone, Steady
<1>1. \A q \in Procs \ {p} : ~Busy(q) /\ host.fd[q] = "none"
  BY <1>0 DEF Alone, Steady, Busy
<1>2. ASSUME NEW y, Become(p, y), DOMAIN y = Fields,
             DOMAIN host' = {"file", "tmp", "fd"}, DOMAIN host'.fd = Procs,
             \A q \in Procs \ {p} : host'.fd[q] = host.fd[q],
             Text(host.file)',
             DOMAIN backups' \subseteq 0 .. now,
             \A t \in DOMAIN backups' : backups'[t] = Torn \/ Text(backups'[t]),
             y.pc # "backup",
             y.pc \in {"markers", "open", "fill", "rename"} => Text(y.text),
             host'.fd[p] = IF y.pc = "fill" THEN "tmp" ELSE "none",
             y.pc = "fill" => host'.tmp = Torn,
             y.pc = "rename" => host'.tmp = y.text,
             y.bak \in DOMAIN backups' => Text(backups'[y.bak])
      PROVE  Shapes' /\ Alone'
  <2>1. /\ proc'[p] = y /\ \A q \in Procs \ {p} : proc'[q] = proc[q]
        /\ DOMAIN proc' = Procs /\ \A q \in Procs : DOMAIN proc'[q] = Fields
    BY <1>2, Becomes
  <2>2. Steady(p)'
    BY <1>2, <2>1 DEF Steady
  <2>3. Shapes'
    BY <1>0, <1>2, <2>1 DEF Shapes
  <2>. QED  BY <1>1, <1>2, <2>1, <2>2, <2>3, AloneStep
<1>10. -1 \notin DOMAIN backups
  BY <1>0
<1>3. CASE Backup(p)
  <2>. DEFINE w == Wrapped(x.read, x.want)
  <2>1. /\ backups' = With(backups, now, x.read) /\ host' = host
        /\ \/ Become(p, Idle)
           \/ Become(p, [x EXCEPT !.pc = "markers", !.text = w, !.bak = now])
           \/ Become(p, [Idle EXCEPT !.pc = "open", !.text = w, !.bak = now])
        /\ x.pc = "backup"
    BY <1>3 DEF Backup, BackupOf
  <2>2. Text(x.read) /\ Text(w)
    BY <1>0, <2>1, RewritesAreTexts DEF Steady
  <2>3. DOMAIN backups' \subseteq 0 .. now
    BY <1>0, <2>1 DEF With
  <2>4. \A t \in DOMAIN backups' : backups'[t] = Torn \/ Text(backups'[t])
    BY <1>0, <2>1, <2>2 DEF With
  <2>5. host.fd[p] = "none"
    BY <1>0, <2>1 DEF Steady
  <2>9. -1 \notin DOMAIN backups' /\ backups'[now] = x.read
    <3>1. backups'[now] = x.read
      BY <2>1 DEF With
    <3>. QED  BY <1>0, <2>3, <3>1
  <2>. HIDE DEF w
  <2>6. CASE Become(p, Idle)
    BY <1>0, <1>2, <2>1, <2>3, <2>4, <2>5, <2>6, <2>9, IdleShape
  <2>7. CASE Become(p, [x EXCEPT !.pc = "markers", !.text = w, !.bak = now])
    <3>. DEFINE y == [x EXCEPT !.pc = "markers", !.text = w, !.bak = now]
    <3>1. DOMAIN y = Fields /\ y.pc = "markers" /\ y.text = w /\ y.bak = now
      BY <1>0 DEF Fields
    <3>2. Become(p, y)
      BY <2>7
    <3>. HIDE DEF y
    <3>. QED  BY <1>0, <1>2, <2>1, <2>2, <2>3, <2>4, <2>5, <2>9, <3>1, <3>2
  <2>8. CASE Become(p, [Idle EXCEPT !.pc = "open", !.text = w, !.bak = now])
    <3>. DEFINE y == [Idle EXCEPT !.pc = "open", !.text = w, !.bak = now]
    <3>1. DOMAIN y = Fields /\ y.pc = "open" /\ y.text = w /\ y.bak = now
      BY IdleShape DEF Fields
    <3>2. Become(p, y)
      BY <2>8
    <3>. HIDE DEF y
    <3>. QED  BY <1>0, <1>2, <2>1, <2>2, <2>3, <2>4, <2>5, <2>9, <3>1, <3>2
  <2>. QED  BY <2>1, <2>6, <2>7, <2>8
<1>4. CASE WriteMarkers(p)
  <2>. DEFINE y == [Idle EXCEPT !.pc = "open", !.text = x.text, !.bak = x.bak]
  <2>1. Become(p, y) /\ host' = host /\ backups' = backups /\ x.pc = "markers"
    BY <1>4 DEF WriteMarkers
  <2>2. DOMAIN y = Fields /\ y.pc = "open" /\ y.text = x.text /\ y.bak = x.bak
    BY IdleShape DEF Fields
  <2>3. Text(x.text) /\ host.fd[p] = "none"
    BY <1>0, <2>1 DEF Steady
  <2>. HIDE DEF y
  <2>. QED  BY <1>0, <1>2, <2>1, <2>2, <2>3
<1>5. CASE Open(p)
  <2>. DEFINE y == [x EXCEPT !.pc = "fill"]
  <2>1. Become(p, y) /\ host' = OpenTmp(host, p) /\ backups' = backups /\ x.pc = "open"
    BY <1>5 DEF Open
  <2>2. DOMAIN y = Fields /\ y.pc = "fill" /\ y.text = x.text /\ y.bak = x.bak
    BY <1>0 DEF Fields
  <2>3. Text(x.text)
    BY <1>0, <2>1 DEF Steady
  <2>4. /\ DOMAIN host' = {"file", "tmp", "fd"} /\ host'.file = host.file /\ host'.tmp = Torn
        /\ host'.fd = [host.fd EXCEPT ![p] = "tmp"]
    BY <1>0, <2>1 DEF OpenTmp
  <2>5. /\ DOMAIN host'.fd = Procs /\ host'.fd[p] = "tmp"
        /\ \A q \in Procs \ {p} : host'.fd[q] = host.fd[q]
    BY <1>0, <2>4
  <2>. HIDE DEF y
  <2>. QED  BY <1>0, <1>2, <2>1, <2>2, <2>3, <2>4, <2>5
<1>6. CASE Fill(p)
  <2>. DEFINE y == [x EXCEPT !.pc = "rename"]
  <2>1. Become(p, y) /\ host' \in FillTmp(host, p, x.text) /\ backups' = backups /\ x.pc = "fill"
    BY <1>6 DEF Fill
  <2>2. DOMAIN y = Fields /\ y.pc = "rename" /\ y.text = x.text /\ y.bak = x.bak
    BY <1>0 DEF Fields
  <2>3. Text(x.text) /\ host.fd[p] = "tmp" /\ host.tmp = Torn
    BY <1>0, <2>1 DEF Steady
  <2>4. host' = [[host EXCEPT !.fd[p] = "none"] EXCEPT !.tmp = x.text]
    BY <2>1, <2>3 DEF FillTmp, Over
  <2>5. /\ DOMAIN host' = {"file", "tmp", "fd"} /\ host'.file = host.file /\ host'.tmp = x.text
        /\ host'.fd = [host.fd EXCEPT ![p] = "none"]
    BY <1>0, <2>4
  <2>6. /\ DOMAIN host'.fd = Procs /\ host'.fd[p] = "none"
        /\ \A q \in Procs \ {p} : host'.fd[q] = host.fd[q]
    BY <1>0, <2>5
  <2>. HIDE DEF y
  <2>. QED  BY <1>0, <1>2, <2>1, <2>2, <2>3, <2>5, <2>6
<1>7. CASE Rename(p)
  <2>1. backups' = backups /\ x.pc = "rename"
    BY <1>7 DEF Rename
  <2>2. Text(x.text) /\ host.tmp = x.text /\ host.fd[p] = "none"
    BY <1>0, <2>1 DEF Steady
  <2>3. \E y : /\ Become(p, y) /\ DOMAIN y = Fields /\ y.pc \in {"idle", "save", "verify"}
               /\ y.bak \in {-1, x.bak}
    <3>. DEFINE pc == IF x.kind = "undo" THEN "save" ELSE "verify"
                y == [x EXCEPT !.text = Torn, !.pc = pc]
    <3>1. Become(p, Idle) \/ Become(p, y)
      BY <1>7 DEF Rename
    <3>2. DOMAIN y = Fields /\ y.pc \in {"save", "verify"} /\ y.bak = x.bak
      BY <1>0 DEF Fields
    <3>. QED  BY <3>1, <3>2, IdleShape
  <2>4. PICK y : /\ Become(p, y) /\ DOMAIN y = Fields /\ y.pc \in {"idle", "save", "verify"}
                 /\ y.bak \in {-1, x.bak}
    BY <2>3
  <2>8. y.bak \in DOMAIN backups' => Text(backups'[y.bak])
    BY <1>0, <1>10, <2>1, <2>4
  <2>5. CASE host' = host
    BY <1>0, <1>2, <2>1, <2>2, <2>4, <2>5, <2>8
  <2>6. CASE host' = RenameTmp(host)
    <3>1. /\ DOMAIN host' = {"file", "tmp", "fd"} /\ host'.file = x.text /\ DOMAIN host'.fd = Procs
          /\ \A q \in Procs : host.fd[q] = "none" => host'.fd[q] = "none"
      BY <1>0, <2>2, <2>6 DEF RenameTmp
    <3>. QED  BY <1>0, <1>1, <1>2, <2>1, <2>2, <2>4, <2>8, <3>1
  <2>. QED  BY <1>7, <2>5, <2>6 DEF Rename
<1>8. CASE Verify(p) \/ SaveHash(p) \/ ClearHash(p)
  <2>. DEFINE y == [x EXCEPT !.pc = "save", !.text = host.file]
  <2>1. /\ Become(p, Idle) \/ Become(p, y)
        /\ host' = host /\ backups' = backups /\ x.pc \in {"verify", "save"}
    BY <1>8 DEF Verify, SaveHash, ClearHash, disk
  <2>2. DOMAIN y = Fields /\ y.pc = "save" /\ y.bak = x.bak
    BY <1>0 DEF Fields
  <2>3. host.fd[p] = "none"
    BY <1>0, <2>1 DEF Steady
  <2>. HIDE DEF y
  <2>. QED  BY <1>0, <1>2, <1>10, <2>1, <2>2, <2>3, IdleShape
<1>9. CASE VerifyFails(p)
  <2>. DEFINE bak == x.bak
  <2>1. /\ Become(p, Idle) /\ x.pc = "verify"
        /\ \/ host' = host /\ backups' = backups
           \/ /\ bak \in DOMAIN backups /\ host' = ReplaceFile(host, backups[bak])
              /\ backups' = [t \in DOMAIN backups \ {bak} |-> backups[t]]
    BY <1>9 DEF VerifyFails
  <2>2. host.fd[p] = "none"
    BY <1>0, <2>1 DEF Steady
  <2>3. /\ DOMAIN backups' \subseteq DOMAIN backups
        /\ \A t \in DOMAIN backups' : backups'[t] = backups[t]
    BY <2>1
  <2>4. /\ DOMAIN host' = {"file", "tmp", "fd"} /\ DOMAIN host'.fd = Procs /\ Text(host'.file)
        /\ \A q \in Procs : host'.fd[q] = "none"
    <3>1. CASE host' = host
      BY <1>0, <1>1, <2>2, <3>1
    <3>2. CASE bak \in DOMAIN backups /\ host' = ReplaceFile(host, backups[bak])
      BY <1>0, <1>1, <2>2, <3>2 DEF ReplaceFile
    <3>. QED  BY <2>1, <3>1, <3>2
  <2>5. -1 \notin DOMAIN backups'
    BY <1>10, <2>3
  <2>6. DOMAIN backups' \subseteq 0 .. now /\ \A t \in DOMAIN backups' : backups'[t] = Torn \/ Text(backups'[t])
    BY <1>0, <2>3
  <2>. QED  BY <1>1, <1>2, <2>1, <2>4, <2>5, <2>6, IdleShape
<1>. QED  BY <1>3, <1>4, <1>5, <1>6, <1>7, <1>8, <1>9

(* A command that is killed closes what it has open.                       *)
LEMMA AloneCrash ==
  ASSUME Shapes, Alone, NEW p \in Procs, Crash(p)
  PROVE  Shapes' /\ Alone'
<1>1. /\ Become(p, Idle) /\ host' = ShutTmp(host, p) /\ now' = now /\ Busy(p)
      /\ backups' = backups \/ backups' = With(backups, now, Torn)
  BY DEF Crash
<1>2. \A q \in Procs \ {p} : ~Busy(q)
  BY <1>1 DEF Alone
<1>3. /\ DOMAIN host' = {"file", "tmp", "fd"} /\ host'.file = host.file
      /\ host'.fd = [host.fd EXCEPT ![p] = "none"]
  BY <1>1 DEF Shapes, ShutTmp
<1>4. /\ DOMAIN host'.fd = Procs /\ host'.fd[p] = "none"
      /\ \A q \in Procs \ {p} : host'.fd[q] = host.fd[q]
  BY <1>3 DEF Shapes
<1>5. DOMAIN backups' \subseteq 0 .. now
  BY <1>1 DEF Shapes, With
<1>6. \A t \in DOMAIN backups' : backups'[t] = Torn \/ Text(backups'[t])
  BY <1>1 DEF Alone, With
<1>7. /\ proc'[p] = Idle /\ \A q \in Procs \ {p} : proc'[q] = proc[q]
      /\ DOMAIN proc' = Procs /\ \A q \in Procs : DOMAIN proc'[q] = Fields
  BY <1>1, Becomes, IdleShape
<1>8. Steady(p)'
  <2>1. -1 \notin DOMAIN backups'
    BY <1>1, <1>5 DEF Shapes
  <2>. QED  BY <1>4, <1>7, <2>1, IdleShape DEF Steady
<1>9. Shapes'
  BY <1>1, <1>3, <1>4, <1>5, <1>7 DEF Shapes
<1>. QED  BY <1>2, <1>3, <1>4, <1>6, <1>7, <1>8, <1>9, AloneStep DEF Alone

(* What the user and the host write is whole.                              *)
LEMMA AloneEdit ==
  ASSUME Shapes, Alone,
         Tick \/ \E s \in Servers : Rewrite(s) \/ Remove(s) \/ EditWrapped(s) \/ Strip(s)
  PROVE  Shapes' /\ Alone'
<1>1. CASE Tick
  BY <1>1 DEF Tick, Shapes, Alone, Steady, Busy, disk
<1>2. ASSUME NEW s \in Servers, Rewrite(s) \/ Remove(s) \/ EditWrapped(s) \/ Strip(s)
      PROVE  Shapes' /\ Alone'
  <2>1. \E text, why : Text(text) /\ Edit(s, text, why)
    <3>1. CASE Rewrite(s)
      <4>1. PICK c \in Cmds : Edit(s, With(host.file, s, Plain(c)), {})
        BY <3>1 DEF Rewrite
      <4>2. Text(With(host.file, s, Plain(c)))
        BY DEF Alone, Text, With
      <4>. QED  BY <4>1, <4>2
    <3>2. CASE Remove(s)
      <4>1. Edit(s, [t \in DOMAIN host.file \ {s} |-> host.file[t]], {})
        BY <3>2 DEF Remove
      <4>2. Text([t \in DOMAIN host.file \ {s} |-> host.file[t]])
        BY DEF Alone, Text
      <4>. QED  BY <4>1, <4>2
    <3>3. CASE EditWrapped(s)
      <4>1. PICK c \in Cmds \ Remote : Edit(s, [host.file EXCEPT ![s].cmd = c], {"marked"})
        BY <3>3 DEF EditWrapped
      <4>2. Text([host.file EXCEPT ![s].cmd = c])
        BY DEF Alone, Text
      <4>. QED  BY <4>1, <4>2
    <3>4. CASE Strip(s)
      <4>1. Edit(s, [host.file EXCEPT ![s].mark = None], {"stripped"})
        BY <3>4 DEF Strip
      <4>2. Text([host.file EXCEPT ![s].mark = None])
        BY DEF Alone, Text
      <4>. QED  BY <4>1, <4>2
    <3>. QED  BY <1>2, <3>1, <3>2, <3>3, <3>4
  <2>2. PICK text, why : Text(text) /\ Edit(s, text, why)
    BY <2>1
  <2>3. /\ host' = [host EXCEPT !.file = text]
        /\ UNCHANGED <<backups, proc, now>>
    BY <2>2 DEF Edit
  <2>4. /\ DOMAIN host' = {"file", "tmp", "fd"} /\ host'.file = text
        /\ host'.tmp = host.tmp /\ host'.fd = host.fd
    BY <2>3 DEF Shapes
  <2>5. Shapes'
    BY <2>3, <2>4 DEF Shapes
  <2>. QED  BY <2>2, <2>3, <2>4, <2>5 DEF Alone, Steady, Busy
<1>. QED  BY <1>1, <1>2

(* An excuse stays; while there is none, commands are alone.               *)
LEMMA StillAlone ==
  ASSUME IInv, [Next]_vars
  PROVE  IInv'
<1>1. CASE UNCHANGED vars
  BY <1>1 DEF vars, IInv, Shapes, Excused, Alone, Steady, Busy
<1>2. CASE Next
  <2>1. excused \subseteq excused'
    BY <1>2 DEF Next, Tick, Rewrite, Remove, EditWrapped, Strip, Edit, Patch, InitPatch, Unpatch, Undo,
                Backup, WriteMarkers, Open, Fill, Rename, Verify, VerifyFails, SaveHash, ClearHash, Crash
  <2>2. CASE ~Excused'
    <3>1. Shapes /\ Alone
      BY <2>1, <2>2 DEF IInv, Excused
    <3>2. CASE Tick \/ \E s \in Servers : Rewrite(s) \/ Remove(s) \/ EditWrapped(s) \/ Strip(s)
      BY <3>1, <3>2, AloneEdit DEF IInv
    <3>3. ASSUME NEW p \in Procs,
                 \/ \E want \in SUBSET Servers \ {{}}, force \in BOOLEAN : Patch(p, want, force)
                 \/ InitPatch(p) \/ Unpatch(p) \/ Undo(p)
          PROVE  IInv'
      BY <2>2, <3>1, <3>3, AloneBegin DEF IInv, InitPatch
    <3>4. ASSUME NEW p \in Procs,
                 \/ Backup(p) \/ WriteMarkers(p) \/ Open(p) \/ Fill(p) \/ Rename(p) \/ Verify(p)
                 \/ VerifyFails(p) \/ SaveHash(p) \/ ClearHash(p)
          PROVE  IInv'
      BY <3>1, <3>4, AloneWork DEF IInv
    <3>5. ASSUME NEW p \in Procs, Crash(p)
          PROVE  IInv'
      BY <3>1, <3>5, AloneCrash DEF IInv
    <3>. QED  BY <1>2, <3>2, <3>3, <3>4, <3>5 DEF Next
  <2>3. CASE Excused'
    BY <2>3 DEF IInv
  <2>. QED  BY <2>2, <2>3
<1>. QED  BY <1>1, <1>2

(* The host finds a whole file, whatever crashes and whatever the user     *)
(* edits, for any number of processes, servers and commands; unless two    *)
(* commands overlap, or undo takes a torn backup for a whole one.          *)
THEOREM FileIsWholeTheorem == Spec => []FileIsWhole
<1>1. Init => IInv
  <2>. SUFFICES ASSUME Init
                PROVE  Shapes /\ Alone
    BY DEF IInv
  <2>1. PICK on \in SUBSET Servers, c \in Cmds : host = Files([s \in on |-> Plain(c)], Procs)
    BY DEF Init
  <2>2. /\ DOMAIN host = {"file", "tmp", "fd"} /\ DOMAIN host.fd = Procs
        /\ \A p \in Procs : host.fd[p] = "none"
        /\ DOMAIN host.file = on
    BY <2>1 DEF Files
  <2>3. \A p \in Procs : proc[p] = Idle
    BY DEF Init
  <2>4. DOMAIN backups = {}
    BY DEF Init
  <2>5. now = 0 /\ DOMAIN proc = Procs
    BY DEF Init
  <2>6. Shapes
    BY <2>2, <2>3, <2>4, <2>5, IdleShape DEF Shapes
  <2>7. Alone
    BY <2>2, <2>3, <2>4, IdleShape DEF Alone, Steady, Busy, Text
  <2>. QED  BY <2>6, <2>7
<1>2. IInv => FileIsWhole
  BY TextIsWhole DEF IInv, Excused, Alone, FileIsWhole
<1>. QED  BY <1>1, <1>2, StillAlone, PTL DEF Spec

-----------------------------------------------------------------------------
(* What a patch replaced is in a backup                                    *)

NoBackup == excused \cap {"overlap", "sameSecond", "raced"} # {}

\* A patch has in hand what the file is, and from its backup to its rename
\* what the file is has a backup.
Saved(p) ==
  LET x == proc[p]
  IN  /\ host.fd[p] = IF x.pc = "fill" THEN "tmp" ELSE "none"
      /\ x.pc = "backup" => x.read = host.file
      /\ x.pc = "markers" \/ (x.kind = "patch" /\ x.pc \in {"open", "fill", "rename"}) =>
           host.file \in Range(backups)

AllSaved ==
  /\ \A p, q \in Procs : Busy(p) /\ Busy(q) => p = q
  /\ replaced \subseteq Range(backups)
  /\ \A p \in Procs : Saved(p)

BInv == NoBackup \/ (Shapes /\ AllSaved)

(* A backup in a second of its own takes none away.                        *)
LEMMA OneMore ==
  ASSUME NEW f, NEW x, NEW v, x \notin DOMAIN f
  PROVE  Range(With(f, x, v)) = Range(f) \cup {v}
<1>1. DOMAIN With(f, x, v) = DOMAIN f \cup {x}
  BY DEF With
<1>2. \A y \in DOMAIN f : With(f, x, v)[y] = f[y]
  BY DEF With
<1>3. With(f, x, v)[x] = v
  BY DEF With
<1>. QED  BY <1>1, <1>2, <1>3 DEF Range

(* The step of one command while the others are idle: it is enough to look *)
(* at that command and the files.                                          *)
LEMMA SavedStep ==
  ASSUME Shapes, AllSaved, NEW p \in Procs, NEW y, DOMAIN y = Fields, Become(p, y),
         \A q \in Procs \ {p} : ~Busy(q) /\ host'.fd[q] = host.fd[q],
         DOMAIN host' = {"file", "tmp", "fd"}, DOMAIN host'.fd = Procs,
         now' = now, DOMAIN backups' \subseteq 0 .. now,
         replaced' \subseteq Range(backups'),
         host'.fd[p] = IF y.pc = "fill" THEN "tmp" ELSE "none",
         y.pc = "backup" => y.read = host'.file,
         y.pc = "markers" \/ (y.kind = "patch" /\ y.pc \in {"open", "fill", "rename"}) =>
           host'.file \in Range(backups')
  PROVE  Shapes' /\ AllSaved'
<1>1. /\ proc'[p] = y /\ \A q \in Procs \ {p} : proc'[q] = proc[q]
      /\ DOMAIN proc' = Procs /\ \A q \in Procs : DOMAIN proc'[q] = Fields
  BY Becomes
<1>2. Shapes'
  BY <1>1 DEF Shapes
<1>3. Saved(p)'
  BY <1>1 DEF Saved, Range
<1>4. \A q \in Procs \ {p} : Saved(q)'
  BY <1>1 DEF AllSaved, Saved, Busy
<1>5. \A q, r \in Procs : Busy(q)' /\ Busy(r)' => q = r
  BY <1>1 DEF Busy
<1>6. (replaced \subseteq Range(backups))'
  BY DEF Range
<1>. QED  BY <1>2, <1>3, <1>4, <1>5, <1>6 DEF AllSaved

(* A command that begins, alone, has in hand what the file is.             *)
LEMMA SavedBegin ==
  ASSUME Shapes, AllSaved, ~NoBackup', NEW p \in Procs,
         \/ \E want \in SUBSET Servers, force \in BOOLEAN : Patch(p, want, force)
         \/ Unpatch(p) \/ Undo(p)
  PROVE  Shapes' /\ AllSaved'
<1>1. /\ UNCHANGED <<disk, now, replaced>> /\ ~Busy(p) /\ excused' = excused' \cup Overlap(p)
  BY DEF Patch, Unpatch, Undo
<1>2. \A q \in Procs \ {p} : ~Busy(q)
  BY <1>1 DEF NoBackup, Overlap
<1>3. host.fd[p] = "none"
  BY <1>1 DEF AllSaved, Saved, Busy
<1>. DEFINE Good(y) == /\ DOMAIN y = Fields
                       /\ \/ y.pc = "idle"
                          \/ y.pc = "backup" /\ y.read = host.file
                          \/ y.pc = "open" /\ y.kind # "patch"
<1>4. \E y : Become(p, y) /\ Good(y)
  <2>1. CASE \E want \in SUBSET Servers, force \in BOOLEAN : Patch(p, want, force)
    <3>1. PICK want \in SUBSET Servers :
            Become(p, [Idle EXCEPT !.pc = "backup", !.read = host.file, !.want = want])
      BY <2>1 DEF Patch
    <3>. DEFINE y == [Idle EXCEPT !.pc = "backup", !.read = host.file, !.want = want]
    <3>2. DOMAIN y = Fields /\ y.pc = "backup" /\ y.read = host.file
      BY IdleShape DEF Fields
    <3>3. Become(p, y)
      BY <3>1
    <3>. HIDE DEF y
    <3>. QED  BY <3>2, <3>3
  <2>2. CASE Unpatch(p)
    <3>. DEFINE y == [Idle EXCEPT !.pc = "open", !.kind = "unpatch", !.text = Unwrapped(host.file)]
    <3>1. Become(p, Idle) \/ Become(p, y)
      BY <2>2 DEF Unpatch
    <3>2. DOMAIN y = Fields /\ y.pc = "open" /\ y.kind = "unpatch"
      BY IdleShape DEF Fields
    <3>. HIDE DEF y
    <3>. QED  BY <3>1, <3>2, IdleShape
  <2>3. CASE Undo(p)
    <3>. DEFINE c == backups[Max(DOMAIN backups)]
                y == [Idle EXCEPT !.pc = "open", !.kind = "undo", !.text = c]
    <3>1. Become(p, y)
      BY <2>3 DEF Undo
    <3>2. DOMAIN y = Fields /\ y.pc = "open" /\ y.kind = "undo"
      BY IdleShape DEF Fields
    <3>. HIDE DEF c, y
    <3>. QED  BY <3>1, <3>2
  <2>. QED  BY <2>1, <2>2, <2>3
<1>5. PICK y : Become(p, y) /\ Good(y)
  BY <1>4
<1>6. host' = host /\ backups' = backups /\ now' = now /\ replaced' = replaced
  BY <1>1 DEF disk
<1>7. /\ DOMAIN host = {"file", "tmp", "fd"} /\ DOMAIN host.fd = Procs
      /\ DOMAIN backups \subseteq 0 .. now /\ replaced \subseteq Range(backups)
  BY DEF Shapes, AllSaved
<1>. QED  BY <1>2, <1>3, <1>5, <1>6, <1>7, SavedStep

(* The steps of a command: the file changes by the rename only, which is   *)
(* the last that needs the backup.                                         *)
LEMMA SavedWork ==
  ASSUME Shapes, AllSaved, ~NoBackup', NEW p \in Procs,
         \/ Backup(p) \/ WriteMarkers(p) \/ Open(p) \/ Fill(p) \/ Rename(p) \/ Verify(p)
         \/ VerifyFails(p) \/ SaveHash(p) \/ ClearHash(p)
  PROVE  Shapes' /\ AllSaved'
<1>. DEFINE x == proc[p]
<1>0. /\ Busy(p) /\ DOMAIN x = Fields /\ Saved(p) /\ now' = now /\ now \in Nat
      /\ replaced \subseteq Range(backups) /\ DOMAIN backups \subseteq 0 .. now
      /\ DOMAIN host = {"file", "tmp", "fd"} /\ DOMAIN host.fd = Procs
  BY DEF Backup, WriteMarkers, Open, Fill, Rename, Verify, VerifyFails, SaveHash, ClearHash, Busy,
         Shapes, AllSaved
<1>1. \A q \in Procs \ {p} : ~Busy(q) /\ host.fd[q] = "none"
  BY <1>0 DEF AllSaved, Saved, Busy
<1>2. CASE Backup(p)
  <2>. DEFINE w == Wrapped(x.read, x.want)
  <2>1. /\ backups' = With(backups, now, x.read) /\ host' = host /\ replaced' = replaced
        /\ \/ Become(p, Idle)
           \/ Become(p, [x EXCEPT !.pc = "markers", !.text = w, !.bak = now])
           \/ Become(p, [Idle EXCEPT !.pc = "open", !.text = w, !.bak = now])
        /\ x.pc = "backup"
        /\ excused' = excused \cup {e \in {"sameSecond"} : now \in DOMAIN backups}
    BY <1>2 DEF Backup, BackupOf
  <2>2. now \notin DOMAIN backups
    BY <2>1 DEF NoBackup
  <2>3. x.read = host.file /\ host.fd[p] = "none"
    BY <1>0, <2>1 DEF Saved
  <2>4. Range(backups') = Range(backups) \cup {host.file}
    BY <2>1, <2>2, <2>3, OneMore
  <2>5. DOMAIN backups' \subseteq 0 .. now
    BY <1>0, <2>1 DEF With
  <2>6. \E y : Become(p, y) /\ DOMAIN y = Fields /\ y.pc \in {"idle", "markers", "open"}
    <3>1. CASE Become(p, Idle)
      BY <3>1, IdleShape
    <3>2. CASE Become(p, [x EXCEPT !.pc = "markers", !.text = w, !.bak = now])
      <4>. DEFINE y == [x EXCEPT !.pc = "markers", !.text = w, !.bak = now]
      <4>1. DOMAIN y = Fields /\ y.pc = "markers"
        BY <1>0 DEF Fields
      <4>2. Become(p, y)
        BY <3>2
      <4>. HIDE DEF y
      <4>. QED  BY <4>1, <4>2
    <3>3. CASE Become(p, [Idle EXCEPT !.pc = "open", !.text = w, !.bak = now])
      <4>. DEFINE y == [Idle EXCEPT !.pc = "open", !.text = w, !.bak = now]
      <4>1. DOMAIN y = Fields /\ y.pc = "open"
        BY IdleShape DEF Fields
      <4>2. Become(p, y)
        BY <3>3
      <4>. HIDE DEF y
      <4>. QED  BY <4>1, <4>2
    <3>. QED  BY <2>1, <3>1, <3>2, <3>3
  <2>7. PICK y : Become(p, y) /\ DOMAIN y = Fields /\ y.pc \in {"idle", "markers", "open"}
    BY <2>6
  <2>8. replaced' \subseteq Range(backups') /\ host'.file \in Range(backups')
    BY <1>0, <2>1, <2>4
  <2>. QED  BY <1>0, <1>1, <2>1, <2>3, <2>5, <2>7, <2>8, SavedStep
<1>3. CASE WriteMarkers(p)
  <2>. DEFINE y == [Idle EXCEPT !.pc = "open", !.text = x.text, !.bak = x.bak]
  <2>1. /\ Become(p, y) /\ x.pc = "markers"
        /\ host' = host /\ backups' = backups /\ replaced' = replaced
    BY <1>3 DEF WriteMarkers
  <2>2. DOMAIN y = Fields /\ y.pc = "open"
    BY IdleShape DEF Fields
  <2>3. host.file \in Range(backups) /\ host.fd[p] = "none"
    BY <1>0, <2>1 DEF Saved
  <2>. HIDE DEF y
  <2>. QED  BY <1>0, <1>1, <2>1, <2>2, <2>3, SavedStep
<1>4. CASE Open(p)
  <2>. DEFINE y == [x EXCEPT !.pc = "fill"]
  <2>1. /\ Become(p, y) /\ host' = OpenTmp(host, p) /\ x.pc = "open"
        /\ backups' = backups /\ replaced' = replaced
    BY <1>4 DEF Open
  <2>2. DOMAIN y = Fields /\ y.pc = "fill" /\ y.kind = x.kind
    BY <1>0 DEF Fields
  <2>3. x.kind = "patch" => host.file \in Range(backups)
    BY <1>0, <2>1 DEF Saved
  <2>4. /\ DOMAIN host' = {"file", "tmp", "fd"} /\ host'.file = host.file
        /\ host'.fd = [host.fd EXCEPT ![p] = "tmp"]
    BY <1>0, <2>1 DEF OpenTmp
  <2>5. /\ DOMAIN host'.fd = Procs /\ host'.fd[p] = "tmp"
        /\ \A q \in Procs \ {p} : host'.fd[q] = host.fd[q]
    BY <1>0, <2>4
  <2>. HIDE DEF y
  <2>. QED  BY <1>0, <1>1, <2>1, <2>2, <2>3, <2>4, <2>5, SavedStep
<1>5. CASE Fill(p)
  <2>. DEFINE y == [x EXCEPT !.pc = "rename"]
  <2>1. /\ Become(p, y) /\ host' \in FillTmp(host, p, x.text) /\ x.pc = "fill"
        /\ backups' = backups /\ replaced' = replaced
    BY <1>5 DEF Fill
  <2>2. DOMAIN y = Fields /\ y.pc = "rename" /\ y.kind = x.kind
    BY <1>0 DEF Fields
  <2>3. host.fd[p] = "tmp" /\ (x.kind = "patch" => host.file \in Range(backups))
    BY <1>0, <2>1 DEF Saved
  <2>4. PICK t : host' = [[host EXCEPT !.fd[p] = "none"] EXCEPT !.tmp = t]
    BY <2>1, <2>3 DEF FillTmp
  <2>5. /\ DOMAIN host' = {"file", "tmp", "fd"} /\ host'.file = host.file
        /\ host'.fd = [host.fd EXCEPT ![p] = "none"]
    BY <1>0, <2>4
  <2>6. /\ DOMAIN host'.fd = Procs /\ host'.fd[p] = "none"
        /\ \A q \in Procs \ {p} : host'.fd[q] = host.fd[q]
    BY <1>0, <2>5
  <2>. HIDE DEF y
  <2>. QED  BY <1>0, <1>1, <2>1, <2>2, <2>3, <2>5, <2>6, SavedStep
<1>6. CASE Rename(p)
  <2>1. backups' = backups /\ x.pc = "rename"
    BY <1>6 DEF Rename
  <2>2. host.fd[p] = "none" /\ (x.kind = "patch" => host.file \in Range(backups))
    BY <1>0, <2>1 DEF Saved
  <2>3. \E y : Become(p, y) /\ DOMAIN y = Fields /\ y.pc \in {"idle", "save", "verify"}
    <3>. DEFINE pc == IF x.kind = "undo" THEN "save" ELSE "verify"
                y == [x EXCEPT !.text = Torn, !.pc = pc]
    <3>1. Become(p, Idle) \/ Become(p, y)
      BY <1>6 DEF Rename
    <3>2. DOMAIN y = Fields /\ y.pc \in {"save", "verify"}
      BY <1>0 DEF Fields
    <3>. QED  BY <3>1, <3>2, IdleShape
  <2>4. PICK y : Become(p, y) /\ DOMAIN y = Fields /\ y.pc \in {"idle", "save", "verify"}
    BY <2>3
  <2>5. replaced' \subseteq Range(backups)
    BY <1>0, <1>6, <2>2 DEF Rename
  <2>6. CASE host' = host
    BY <1>0, <1>1, <2>1, <2>2, <2>4, <2>5, <2>6, SavedStep
  <2>7. CASE host' = RenameTmp(host)
    <3>1. /\ DOMAIN host' = {"file", "tmp", "fd"} /\ DOMAIN host'.fd = Procs
          /\ \A q \in Procs : host.fd[q] = "none" => host'.fd[q] = "none"
      BY <1>0, <2>7 DEF RenameTmp
    <3>. QED  BY <1>0, <1>1, <2>1, <2>2, <2>4, <2>5, <3>1, SavedStep
  <2>. QED  BY <1>6, <2>6, <2>7 DEF Rename
<1>7. CASE Verify(p) \/ SaveHash(p) \/ ClearHash(p)
  <2>. DEFINE y == [x EXCEPT !.pc = "save", !.text = host.file]
  <2>1. /\ Become(p, Idle) \/ Become(p, y)
        /\ host' = host /\ backups' = backups /\ replaced' = replaced /\ x.pc \in {"verify", "save"}
    BY <1>7 DEF Verify, SaveHash, ClearHash, disk
  <2>2. DOMAIN y = Fields /\ y.pc = "save"
    BY <1>0 DEF Fields
  <2>3. host.fd[p] = "none"
    BY <1>0, <2>1 DEF Saved
  <2>. HIDE DEF y
  <2>4. PICK z : Become(p, z) /\ DOMAIN z = Fields /\ z.pc \in {"idle", "save"}
    BY <2>1, <2>2, IdleShape
  <2>. QED  BY <1>0, <1>1, <2>1, <2>3, <2>4, SavedStep
<1>8. CASE VerifyFails(p)
  <2>. DEFINE bak == x.bak
  <2>1. /\ Become(p, Idle) /\ x.pc = "verify"
        /\ \/ host' = host /\ backups' = backups /\ replaced' = replaced
           \/ /\ bak \in DOMAIN backups /\ host' = ReplaceFile(host, backups[bak])
              /\ backups' = [t \in DOMAIN backups \ {bak} |-> backups[t]]
              /\ replaced' = replaced \ {backups[bak]}
    BY <1>8 DEF VerifyFails
  <2>2. host.fd[p] = "none"
    BY <1>0, <2>1 DEF Saved
  <2>3. DOMAIN backups' \subseteq 0 .. now
    BY <1>0, <2>1
  <2>4. /\ DOMAIN host' = {"file", "tmp", "fd"} /\ DOMAIN host'.fd = Procs
        /\ \A q \in Procs : host'.fd[q] = "none"
    <3>1. CASE host' = host
      BY <1>0, <1>1, <2>2, <3>1
    <3>2. CASE host' = ReplaceFile(host, backups[bak])
      BY <1>0, <1>1, <2>2, <3>2 DEF ReplaceFile
    <3>. QED  BY <2>1, <3>1, <3>2
  <2>5. replaced' \subseteq Range(backups')
    <3>1. CASE backups' = backups /\ replaced' = replaced
      BY <1>0, <3>1
    <3>2. CASE /\ backups' = [t \in DOMAIN backups \ {bak} |-> backups[t]]
               /\ replaced' = replaced \ {backups[bak]}
      BY <1>0, <3>2 DEF Range
    <3>. QED  BY <2>1, <3>1, <3>2
  <2>. QED  BY <1>0, <1>1, <2>1, <2>3, <2>4, <2>5, IdleShape, SavedStep
<1>. QED  BY <1>2, <1>3, <1>4, <1>5, <1>6, <1>7, <1>8

(* A command that is killed leaves the file, and a torn backup at worst.   *)
LEMMA SavedCrash ==
  ASSUME Shapes, AllSaved, ~NoBackup', NEW p \in Procs, Crash(p)
  PROVE  Shapes' /\ AllSaved'
<1>1. /\ Become(p, Idle) /\ host' = ShutTmp(host, p) /\ now' = now /\ Busy(p)
      /\ replaced' = replaced
      /\ backups' = backups \/ backups' = With(backups, now, Torn)
      /\ {e \in {"sameSecond"} : backups' # backups /\ now \in DOMAIN backups} \subseteq excused'
  BY DEF Crash
<1>2. \A q \in Procs \ {p} : ~Busy(q)
  BY <1>1 DEF AllSaved
<1>3. /\ DOMAIN host' = {"file", "tmp", "fd"}
      /\ host'.fd = [host.fd EXCEPT ![p] = "none"]
  BY <1>1 DEF Shapes, ShutTmp
<1>4. /\ DOMAIN host'.fd = Procs /\ host'.fd[p] = "none"
      /\ \A q \in Procs \ {p} : host'.fd[q] = host.fd[q]
  BY <1>3 DEF Shapes
<1>5. DOMAIN backups' \subseteq 0 .. now
  BY <1>1 DEF Shapes, With
<1>6. Range(backups) \subseteq Range(backups')
  <2>1. CASE backups' = backups
    BY <2>1
  <2>2. CASE backups' # backups
    <3>1. backups' = With(backups, now, Torn) /\ now \notin DOMAIN backups
      BY <1>1, <2>2 DEF NoBackup
    <3>. QED  BY <3>1, OneMore
  <2>. QED  BY <2>1, <2>2
<1>7. replaced' \subseteq Range(backups')
  BY <1>1, <1>6 DEF AllSaved
<1>. QED  BY <1>1, <1>2, <1>3, <1>4, <1>5, <1>7, IdleShape, SavedStep

(* The user edits while no command is at work, or it is an excuse.         *)
LEMMA SavedEdit ==
  ASSUME Shapes, AllSaved, ~NoBackup',
         Tick \/ \E s \in Servers : Rewrite(s) \/ Remove(s) \/ EditWrapped(s) \/ Strip(s)
  PROVE  Shapes' /\ AllSaved'
<1>1. CASE Tick
  BY <1>1 DEF Tick, Shapes, AllSaved, Saved, Busy, Range, disk
<1>2. ASSUME NEW s \in Servers, Rewrite(s) \/ Remove(s) \/ EditWrapped(s) \/ Strip(s)
      PROVE  Shapes' /\ AllSaved'
  <2>1. \E text, why : Edit(s, text, why)
    BY <1>2 DEF Rewrite, Remove, EditWrapped, Strip
  <2>2. PICK text, why : Edit(s, text, why)
    BY <2>1
  <2>3. /\ host' = [host EXCEPT !.file = text] /\ replaced' = replaced
        /\ backups' = backups /\ proc' = proc /\ now' = now
        /\ {e \in {"raced"} : \E p \in Procs : Busy(p)} \subseteq excused'
    BY <2>2 DEF Edit
  <2>4. \A p \in Procs : proc[p].pc = "idle"
    BY <2>3 DEF NoBackup, Busy
  <2>5. DOMAIN host' = {"file", "tmp", "fd"} /\ host'.fd = host.fd
    BY <2>3 DEF Shapes
  <2>6. Shapes'
    BY <2>3, <2>5 DEF Shapes
  <2>7. \A p \in Procs : Saved(p)'
    BY <2>3, <2>4, <2>5 DEF AllSaved, Saved
  <2>8. (\A p, q \in Procs : Busy(p) /\ Busy(q) => p = q)'
    BY <2>3, <2>4 DEF Busy
  <2>9. (replaced \subseteq Range(backups))'
    BY <2>3 DEF AllSaved
  <2>. QED  BY <2>6, <2>7, <2>8, <2>9 DEF AllSaved
<1>. QED  BY <1>1, <1>2

(* An excuse stays; while there is none, what is replaced has a backup.    *)
LEMMA StillSaved ==
  ASSUME BInv, [Next]_vars
  PROVE  BInv'
<1>1. CASE UNCHANGED vars
  BY <1>1 DEF vars, BInv, Shapes, NoBackup, AllSaved, Saved, Busy, Range
<1>2. CASE Next
  <2>1. excused \subseteq excused'
    BY <1>2 DEF Next, Tick, Rewrite, Remove, EditWrapped, Strip, Edit, Patch, InitPatch, Unpatch, Undo,
                Backup, WriteMarkers, Open, Fill, Rename, Verify, VerifyFails, SaveHash, ClearHash, Crash
  <2>2. CASE ~NoBackup'
    <3>1. Shapes /\ AllSaved
      BY <2>1, <2>2 DEF BInv, NoBackup
    <3>2. CASE Tick \/ \E s \in Servers : Rewrite(s) \/ Remove(s) \/ EditWrapped(s) \/ Strip(s)
      BY <2>2, <3>1, <3>2, SavedEdit DEF BInv
    <3>3. ASSUME NEW p \in Procs,
                 \/ \E want \in SUBSET Servers \ {{}}, force \in BOOLEAN : Patch(p, want, force)
                 \/ InitPatch(p) \/ Unpatch(p) \/ Undo(p)
          PROVE  BInv'
      BY <2>2, <3>1, <3>3, SavedBegin DEF BInv, InitPatch
    <3>4. ASSUME NEW p \in Procs,
                 \/ Backup(p) \/ WriteMarkers(p) \/ Open(p) \/ Fill(p) \/ Rename(p) \/ Verify(p)
                 \/ VerifyFails(p) \/ SaveHash(p) \/ ClearHash(p)
          PROVE  BInv'
      BY <2>2, <3>1, <3>4, SavedWork DEF BInv
    <3>5. ASSUME NEW p \in Procs, Crash(p)
          PROVE  BInv'
      BY <2>2, <3>1, <3>5, SavedCrash DEF BInv
    <3>. QED  BY <1>2, <3>2, <3>3, <3>4, <3>5 DEF Next
  <2>3. CASE NoBackup'
    BY <2>3 DEF BInv
  <2>. QED  BY <2>2, <2>3
<1>. QED  BY <1>1, <1>2

(* There is a way back, for any number of processes, servers, commands,    *)
(* edits and crashes: the file that a patch replaced is in a backup,       *)
(* unless the next patch came within the second, commands overlap, or the  *)
(* user edits the file in the middle of one.                               *)
THEOREM BackedUpTheorem == Spec => []BackedUp
<1>1. Init => BInv
  <2>. SUFFICES ASSUME Init
                PROVE  Shapes /\ AllSaved
    BY DEF BInv
  <2>1. PICK on \in SUBSET Servers, c \in Cmds : host = Files([s \in on |-> Plain(c)], Procs)
    BY DEF Init
  <2>2. /\ DOMAIN host = {"file", "tmp", "fd"} /\ DOMAIN host.fd = Procs
        /\ \A p \in Procs : host.fd[p] = "none"
    BY <2>1 DEF Files
  <2>3. \A p \in Procs : proc[p] = Idle
    BY DEF Init
  <2>4. DOMAIN backups = {} /\ replaced = {}
    BY DEF Init
  <2>5. now = 0 /\ DOMAIN proc = Procs
    BY DEF Init
  <2>6. Shapes
    BY <2>2, <2>3, <2>4, <2>5, IdleShape DEF Shapes
  <2>7. AllSaved
    BY <2>2, <2>3, <2>4, IdleShape DEF AllSaved, Saved, Busy
  <2>. QED  BY <2>6, <2>7
<1>2. BInv => BackedUp
  BY DEF BInv, NoBackup, AllSaved, BackedUp
<1>. QED  BY <1>1, <1>2, StillSaved, PTL DEF Spec

-----------------------------------------------------------------------------
(* Types                                                                   *)

\* Unless the host strips markers, a server is wrapped once at most, and in
\* JSON exactly those are wrapped that carry the original.
Sound(c) ==
  \/ c = Torn
  \/ /\ Content(c)
     /\ \A s \in DOMAIN c :
          /\ format = "text" => c[s].mark = None
          /\ "stripped" \in excused \/
               /\ c[s].depth =< 1
               /\ format = "json" =>
                    IF c[s].mark = None THEN c[s].depth = 0
                    ELSE c[s].depth = 1 /\ c[s].mark.depth = 0

SoundMarkers ==
  markers \in {None, Torn} \/
    /\ format = "text" /\ DOMAIN markers \subseteq Servers
    /\ \A s \in DOMAIN markers : markers[s] \in Mark /\ markers[s].depth = 0

SoundProc(p) ==
  LET x == proc[p]
  IN  /\ DOMAIN x = Fields /\ Sound(x.read) /\ Sound(x.text)
      /\ x.pc = "markers" => format = "text" /\ x.read # Torn

TInv ==
  /\ DOMAIN host = {"file", "tmp", "fd"} /\ DOMAIN host.fd = Procs /\ DOMAIN proc = Procs
  /\ format \in {"json", "text"} /\ now \in 0 .. MaxSeconds /\ DOMAIN backups \subseteq 0 .. now
  /\ \A p \in Procs : host.fd[p] \in FDs /\ SoundProc(p)
  /\ Sound(host.file) /\ (host.tmp = NoTmp \/ Sound(host.tmp))
  /\ \A t \in DOMAIN backups : Sound(backups[t])
  /\ SoundMarkers

(* Neither a text nor an original is one of the values that stand for      *)
(* their absence.                                                          *)
LEMMA MarkIsThere == \A m \in Mark : m # None
BY DEF Mark, None

LEMMA CmdsRun == Cmds \subseteq Runs
BY DEF Runs

(* The command of an entry is one.                                         *)
LEMMA CommandRuns ==
  ASSUME NEW e, e.cmd \in Runs
  PROVE  Command(e) \in Runs
BY DEF Command, Runs

(* What is sound stays so.                                                 *)
LEMMA StaysSound ==
  ASSUME NEW c, Sound(c), excused \subseteq excused', format' = format
  PROVE  Sound(c)'
BY DEF Sound

(* A patch wraps what is not managed, which is wrapped at most for want of *)
(* its marker.                                                             *)
LEMMA WrapIsSound ==
  ASSUME NEW c, Sound(c), c # Torn, format \in {"json", "text"}, NEW want
  PROVE  Sound(Wrapped(c, want))
<1>. DEFINE w == Wrapped(c, want)
<1>1. DOMAIN w = DOMAIN c /\ DOMAIN c \subseteq Servers
  BY DEF Sound, Content, Wrapped
<1>2. ASSUME NEW s \in DOMAIN c
      PROVE  /\ Entry(w[s]) /\ (format = "text" => w[s].mark = None)
             /\ "stripped" \in excused \/
                  /\ w[s].depth =< 1
                  /\ format = "json" =>
                       IF w[s].mark = None THEN w[s].depth = 0
                       ELSE w[s].depth = 1 /\ w[s].mark.depth = 0
  <2>1. Entry(c[s])
    BY DEF Sound, Content
  <2>2. CASE s \notin ToWrap(c, want)
    <3>1. w[s] = c[s]
      BY <2>2 DEF Wrapped
    <3>. QED  BY <2>1, <3>1 DEF Sound
  <2>3. CASE s \in ToWrap(c, want)
    <3>. DEFINE m == IF format = "json" THEN Original(c[s]) ELSE None
    <3>0. PICK r : r = Command(c[s])
      OBVIOUS
    <3>1. w[s] = [cmd |-> r, depth |-> c[s].depth + 1, mark |-> m]
      BY <2>3, <3>0 DEF Wrapped
    <3>2. Original(c[s]) \in Mark /\ Original(c[s]).depth = c[s].depth
      BY <2>1, CommandRuns DEF Original, Entry, Mark
    <3>3. IF format = "json" THEN c[s].mark = None ELSE ~(c[s].depth > 0)
      BY <2>3 DEF ToWrap, Managed
    <3>4. r \in Runs /\ c[s].depth \in Nat
      BY <2>1, <3>0, CommandRuns DEF Entry
    <3>5. "stripped" \in excused \/ c[s].depth = 0
      BY <3>3, <3>4 DEF Sound
    <3>6. CASE format = "json"
      <4>1. m = Original(c[s]) /\ m # None
        BY <3>2, <3>6, MarkIsThere
      <4>. HIDE DEF m
      <4>2. /\ DOMAIN w[s] = {"cmd", "depth", "mark"} /\ w[s].cmd = r
            /\ w[s].depth = c[s].depth + 1 /\ w[s].mark = m
        BY <3>1
      <4>. HIDE DEF w
      <4>3. Entry(w[s])
        BY <3>2, <3>4, <4>1, <4>2 DEF Entry
      <4>. QED  BY <3>2, <3>4, <3>5, <3>6, <4>1, <4>2, <4>3
    <3>7. CASE format = "text"
      <4>1. /\ DOMAIN w[s] = {"cmd", "depth", "mark"} /\ w[s].cmd = r
            /\ w[s].depth = c[s].depth + 1 /\ w[s].mark = None
        BY <3>1, <3>7
      <4>. HIDE DEF w
      <4>2. Entry(w[s])
        BY <3>4, <4>1 DEF Entry
      <4>. QED  BY <3>4, <3>5, <3>7, <4>1, <4>2
    <3>. QED  BY <3>6, <3>7
  <2>. QED  BY <2>2, <2>3
<1>. QED  BY <1>1, <1>2 DEF Sound, Content

(* Where an original is kept.                                              *)
LEMMA MarkIsWhere ==
  ASSUME NEW c, NEW s
  PROVE  /\ format = "json" => MarkOf(c, s) = c[s].mark
         /\ format # "json" /\ s \in DOMAIN markers => MarkOf(c, s) = markers[s]
         /\ format # "json" /\ s \notin DOMAIN markers => MarkOf(c, s) = None
BY DEF MarkOf

(* An unpatch puts originals back.                                         *)
LEMMA UnwrapIsSound ==
  ASSUME NEW c, Sound(c), ~CannotUnpatch(c), format \in {"json", "text"}, SoundMarkers
  PROVE  Sound(Unwrapped(c))
<1>. DEFINE w == Unwrapped(c)
<1>0. Content(c)
  BY DEF CannotUnpatch, Sound
<1>1. DOMAIN w = DOMAIN c /\ DOMAIN c \subseteq Servers
  BY <1>0 DEF Content, Unwrapped
<1>2. ASSUME NEW s \in DOMAIN c
      PROVE  /\ Entry(w[s]) /\ (format = "text" => w[s].mark = None)
             /\ "stripped" \in excused \/
                  /\ w[s].depth =< 1
                  /\ format = "json" =>
                       IF w[s].mark = None THEN w[s].depth = 0
                       ELSE w[s].depth = 1 /\ w[s].mark.depth = 0
  <2>1. Entry(c[s]) /\ c # Torn
    BY <1>0 DEF Content, CannotUnpatch
  <2>2. CASE MarkOf(c, s) = None
    <3>1. w[s] = c[s]
      BY <2>2 DEF Unwrapped
    <3>. QED  BY <2>1, <3>1 DEF Sound
  <2>3. CASE MarkOf(c, s) # None
    <3>1. PICK m : m = MarkOf(c, s)
      OBVIOUS
    <3>2. m \in Mark /\ ("stripped" \in excused \/ m.depth = 0)
      <4>1. CASE format = "json"
        <5>1. m = c[s].mark
          BY <3>1, <4>1, MarkIsWhere
        <5>2. c[s].mark # None
          BY <2>3, <3>1, <5>1
        <5>3. m \in Mark
          BY <2>1, <5>1, <5>2 DEF Entry
        <5>4. "stripped" \in excused \/ c[s].mark.depth = 0
          BY <2>1, <4>1, <5>2 DEF Sound
        <5>. QED  BY <5>1, <5>3, <5>4
      <4>2. CASE format = "text"
        <5>1. s \in DOMAIN markers /\ m = markers[s]
          BY <2>3, <3>1, <4>2, MarkIsWhere
        <5>. QED  BY <4>2, <5>1 DEF SoundMarkers, CannotUnpatch
      <4>. QED  BY <4>1, <4>2
    <3>3. w[s] = [cmd |-> m.cmd, depth |-> m.depth, mark |-> None]
      BY <2>3, <3>1 DEF Unwrapped, Restored
    <3>4. m.cmd \in Runs /\ m.depth \in Nat
      BY <3>2 DEF Mark
    <3>5. /\ DOMAIN w[s] = {"cmd", "depth", "mark"} /\ w[s].cmd = m.cmd
          /\ w[s].depth = m.depth /\ w[s].mark = None
      BY <3>3
    <3>. HIDE DEF w
    <3>6. Entry(w[s])
      BY <3>4, <3>5 DEF Entry
    <3>. QED  BY <3>2, <3>4, <3>5, <3>6
  <2>. QED  BY <2>2, <2>3
<1>. QED  BY <1>1, <1>2 DEF Sound, Content

(* The step of one command: it is enough to look at what it has in hand    *)
(* and at the files.                                                       *)
LEMMA SoundStep ==
  ASSUME TInv, excused \subseteq excused', format' = format, now' = now, SoundMarkers',
         NEW p \in Procs, NEW y, Become(p, y), DOMAIN y = Fields, Sound(y.read), Sound(y.text),
         y.pc = "markers" => format = "text" /\ y.read # Torn,
         NEW h, host' = h, DOMAIN h = {"file", "tmp", "fd"}, DOMAIN h.fd = Procs,
         \A q \in Procs : h.fd[q] \in FDs,
         Sound(h.file), h.tmp = NoTmp \/ Sound(h.tmp),
         NEW b, backups' = b, DOMAIN b \subseteq 0 .. now, \A t \in DOMAIN b : Sound(b[t])
  PROVE  TInv'
<1>1. /\ proc'[p] = y /\ \A q \in Procs \ {p} : proc'[q] = proc[q]
      /\ DOMAIN proc' = Procs
  BY DEF TInv, Become
<1>2. SoundProc(p)'
  <2>1. PICK r, t : r = y.read /\ t = y.text
    OBVIOUS
  <2>2. Sound(r)' /\ Sound(t)'
    BY <2>1, StaysSound
  <2>. QED  BY <1>1, <2>1, <2>2 DEF SoundProc
<1>3. ASSUME NEW q \in Procs \ {p}
      PROVE  SoundProc(q)'
  <2>1. PICK x : x = proc[q]
    OBVIOUS
  <2>2. PICK r, t : r = x.read /\ t = x.text
    OBVIOUS
  <2>3. /\ DOMAIN x = Fields /\ Sound(r) /\ Sound(t)
        /\ x.pc = "markers" => format = "text" /\ x.read # Torn
    BY <2>1, <2>2 DEF TInv, SoundProc
  <2>4. Sound(r)' /\ Sound(t)'
    BY <2>3, StaysSound
  <2>. QED  BY <1>1, <2>1, <2>2, <2>3, <2>4 DEF SoundProc
<1>4. Sound(host.file)' /\ (host'.tmp = NoTmp \/ Sound(host.tmp)')
  <2>1. PICK f, t : f = h.file /\ t = h.tmp
    OBVIOUS
  <2>2. Sound(f)' /\ (t = NoTmp \/ Sound(t)')
    BY <2>1, StaysSound
  <2>. QED  BY <2>1, <2>2
<1>5. \A t \in DOMAIN backups' : Sound(backups[t])'
  <2>. SUFFICES ASSUME NEW t \in DOMAIN b
                PROVE  Sound(b[t])'
    OBVIOUS
  <2>. QED  BY StaysSound
<1>6. \A q \in Procs : SoundProc(q)' /\ host'.fd[q] \in FDs
  BY <1>2, <1>3
<1>. QED  BY <1>1, <1>4, <1>5, <1>6 DEF TInv

(* What no step of a command disturbs.                                     *)
LEMMA SoundHere ==
  ASSUME TInv, NEW p \in Procs
  PROVE  /\ DOMAIN host = {"file", "tmp", "fd"} /\ DOMAIN host.fd = Procs
         /\ format \in {"json", "text"} /\ now \in Nat /\ DOMAIN backups \subseteq 0 .. now
         /\ \A q \in Procs : host.fd[q] \in FDs
         /\ Sound(host.file) /\ (host.tmp = NoTmp \/ Sound(host.tmp))
         /\ \A t \in DOMAIN backups : Sound(backups[t])
         /\ SoundMarkers /\ SoundProc(p) /\ DOMAIN proc[p] = Fields
BY DEF TInv, SoundProc

LEMMA IdleIsSound ==
  /\ DOMAIN Idle = Fields /\ Sound(Idle.read) /\ Sound(Idle.text) /\ Idle.pc # "markers"
BY DEF Idle, Fields, Sound

LEMMA MarkersStay ==
  ASSUME SoundMarkers, markers' = markers, format' = format
  PROVE  SoundMarkers'
BY DEF SoundMarkers

(* A command that begins reads what is sound.                              *)
LEMMA SoundBegin ==
  ASSUME TInv, NEW p \in Procs,
         \/ \E want \in SUBSET Servers, force \in BOOLEAN : Patch(p, want, force)
         \/ Unpatch(p) \/ Undo(p)
  PROVE  TInv'
<1>0. /\ UNCHANGED disk /\ now' = now /\ excused \subseteq excused'
  BY DEF Patch, Unpatch, Undo
<1>. DEFINE Good(y) == DOMAIN y = Fields /\ Sound(y.read) /\ Sound(y.text) /\ y.pc # "markers"
<1>1. \E y : Become(p, y) /\ Good(y)
  <2>1. CASE \E want \in SUBSET Servers, force \in BOOLEAN : Patch(p, want, force)
    <3>1. PICK want \in SUBSET Servers :
            Become(p, [Idle EXCEPT !.pc = "backup", !.read = host.file, !.want = want])
      BY <2>1 DEF Patch
    <3>. DEFINE y == [Idle EXCEPT !.pc = "backup", !.read = host.file, !.want = want]
    <3>2. DOMAIN y = Fields /\ y.pc = "backup" /\ y.read = host.file /\ y.text = Idle.text
      BY IdleIsSound DEF Fields
    <3>3. Become(p, y)
      BY <3>1
    <3>. HIDE DEF y
    <3>. QED  BY <3>2, <3>3, IdleIsSound, SoundHere
  <2>2. CASE Unpatch(p)
    <3>. DEFINE y == [Idle EXCEPT !.pc = "open", !.kind = "unpatch", !.text = Unwrapped(host.file)]
    <3>1. Become(p, Idle) \/ (Become(p, y) /\ ~CannotUnpatch(host.file))
      BY <2>2 DEF Unpatch
    <3>2. DOMAIN y = Fields /\ y.pc = "open" /\ y.text = Unwrapped(host.file) /\ y.read = Idle.read
      BY IdleIsSound DEF Fields
    <3>3. ~CannotUnpatch(host.file) => Sound(Unwrapped(host.file))
      BY UnwrapIsSound, SoundHere
    <3>. HIDE DEF y
    <3>. QED  BY <3>1, <3>2, <3>3, IdleIsSound
  <2>3. CASE Undo(p)
    <3>. DEFINE c == backups[Max(DOMAIN backups)]
                y == [Idle EXCEPT !.pc = "open", !.kind = "undo", !.text = c]
    <3>1. Become(p, y) /\ DOMAIN backups # {}
      BY <2>3 DEF Undo
    <3>2. Max(DOMAIN backups) \in DOMAIN backups
      BY <3>1, LatestIsThere, SoundHere
    <3>3. Sound(c)
      BY <3>2, SoundHere
    <3>4. DOMAIN y = Fields /\ y.pc = "open" /\ y.text = c /\ y.read = Idle.read
      BY IdleIsSound DEF Fields
    <3>. HIDE DEF c, y
    <3>. QED  BY <3>1, <3>3, <3>4, IdleIsSound
  <2>. QED  BY <2>1, <2>2, <2>3
<1>2. PICK y : Become(p, y) /\ Good(y)
  BY <1>1
<1>3. SoundMarkers'
  BY <1>0, MarkersStay, SoundHere DEF disk
<1>4. host' = host /\ backups' = backups /\ format' = format
  BY <1>0 DEF disk
<1>. QED  BY <1>0, <1>2, <1>3, <1>4, SoundStep, SoundHere

(* So are its steps: what it writes is sound, and so is what it leaves     *)
(* torn.                                                                   *)
LEMMA SoundWork ==
  ASSUME TInv, NEW p \in Procs,
         \/ Backup(p) \/ WriteMarkers(p) \/ Open(p) \/ Fill(p) \/ Rename(p) \/ Verify(p)
         \/ VerifyFails(p) \/ SaveHash(p) \/ ClearHash(p) \/ Crash(p)
  PROVE  TInv'
<1>. DEFINE x == proc[p]
<1>0. format' = format /\ now' = now /\ excused \subseteq excused'
  BY DEF Backup, WriteMarkers, Open, Fill, Rename, Verify, VerifyFails, SaveHash, ClearHash, Crash, disk
<1>1. /\ DOMAIN x = Fields /\ Sound(x.read) /\ Sound(x.text)
      /\ x.pc = "markers" => format = "text" /\ x.read # Torn
  BY SoundHere DEF SoundProc
<1>2. Sound(Torn)
  BY DEF Sound
<1>3. CASE Backup(p)
  <2>. DEFINE w == Wrapped(x.read, x.want)
  <2>1. /\ backups' = With(backups, now, x.read) /\ host' = host /\ markers' = markers
        /\ \/ Become(p, Idle)
           \/ /\ ~CannotPatch(x.read, x.want)
              /\ \/ format = "text" /\ Become(p, [x EXCEPT !.pc = "markers", !.text = w, !.bak = now])
                 \/ Become(p, [Idle EXCEPT !.pc = "open", !.text = w, !.bak = now])
    BY <1>3 DEF Backup, BackupOf
  <2>2. ~CannotPatch(x.read, x.want) => x.read # Torn /\ Sound(w)
    <3>1. ~CannotPatch(x.read, x.want) => x.read # Torn
      BY DEF CannotPatch, Unparsable
    <3>. QED  BY <1>1, <3>1, WrapIsSound, SoundHere
  <2>3. DOMAIN backups' \subseteq 0 .. now /\ \A t \in DOMAIN backups' : Sound(backups'[t])
    <3>1. PICK b : b = With(backups, now, x.read)
      OBVIOUS
    <3>2. DOMAIN b \subseteq 0 .. now
      BY <3>1, SoundHere DEF With
    <3>3. \A t \in DOMAIN b : Sound(b[t])
      BY <1>1, <3>1, SoundHere DEF With
    <3>. QED  BY <2>1, <3>1, <3>2, <3>3
  <2>. HIDE DEF w
  <2>4. \E y : /\ Become(p, y) /\ DOMAIN y = Fields /\ Sound(y.read) /\ Sound(y.text)
               /\ y.pc = "markers" => format = "text" /\ y.read # Torn
    <3>1. CASE Become(p, Idle)
      BY <3>1, IdleIsSound
    <3>2. CASE ~CannotPatch(x.read, x.want) /\ format = "text" /\ Become(p, [x EXCEPT !.pc = "markers", !.text = w, !.bak = now])
      <4>. DEFINE y == [x EXCEPT !.pc = "markers", !.text = w, !.bak = now]
      <4>1. DOMAIN y = Fields /\ y.pc = "markers" /\ y.text = w /\ y.read = x.read
        BY <1>1 DEF Fields
      <4>2. Become(p, y)
        BY <3>2
      <4>. HIDE DEF y
      <4>. QED  BY <1>1, <2>2, <3>2, <4>1, <4>2
    <3>3. CASE ~CannotPatch(x.read, x.want) /\ Become(p, [Idle EXCEPT !.pc = "open", !.text = w, !.bak = now])
      <4>. DEFINE y == [Idle EXCEPT !.pc = "open", !.text = w, !.bak = now]
      <4>1. DOMAIN y = Fields /\ y.pc = "open" /\ y.text = w /\ y.read = Idle.read
        BY IdleIsSound DEF Fields
      <4>2. Become(p, y)
        BY <3>3
      <4>. HIDE DEF y
      <4>. QED  BY <2>2, <3>3, <4>1, <4>2, IdleIsSound
    <3>. QED  BY <2>1, <3>1, <3>2, <3>3
  <2>5. PICK y : /\ Become(p, y) /\ DOMAIN y = Fields /\ Sound(y.read) /\ Sound(y.text)
                 /\ y.pc = "markers" => format = "text" /\ y.read # Torn
    BY <2>4
  <2>6. SoundMarkers'
    BY <1>0, <2>1, MarkersStay, SoundHere
  <2>. QED  BY <1>0, <2>1, <2>3, <2>5, <2>6, SoundStep, SoundHere
<1>4. CASE WriteMarkers(p)
  <2>. DEFINE y == [Idle EXCEPT !.pc = "open", !.text = x.text, !.bak = x.bak]
              c == x.read
              wraps == ToWrap(c, x.want)
  <2>1. /\ Become(p, y) /\ host' = host /\ backups' = backups /\ x.pc = "markers"
        /\ markers' = [s \in wraps |-> Original(c[s])]
    BY <1>4 DEF WriteMarkers
  <2>2. format = "text" /\ Content(c)
    BY <1>1, <2>1 DEF Sound
  <2>3. wraps \subseteq DOMAIN c /\ \A s \in wraps : ~(c[s].depth > 0)
    BY <2>2 DEF ToWrap, Managed
  <2>4. \A s \in wraps : Original(c[s]) \in Mark /\ Original(c[s]).depth = 0
    BY <2>2, <2>3, CommandRuns DEF Original, Mark, Content, Entry
  <2>5. SoundMarkers'
    <3>. HIDE DEF wraps
    <3>1. DOMAIN markers' = wraps /\ \A s \in wraps : markers'[s] = Original(c[s])
      BY <2>1
    <3>2. wraps \subseteq Servers
      BY <2>2, <2>3 DEF Content
    <3>. QED  BY <1>0, <2>2, <2>4, <3>1, <3>2 DEF SoundMarkers
  <2>6. DOMAIN y = Fields /\ y.pc = "open" /\ y.text = x.text /\ y.read = Idle.read
    BY IdleIsSound DEF Fields
  <2>. HIDE DEF y
  <2>. QED  BY <1>0, <1>1, <2>1, <2>5, <2>6, IdleIsSound, SoundStep, SoundHere
<1>5. CASE Open(p) \/ Fill(p)
  <2>1. PICK pc \in {"fill", "rename"} : Become(p, [x EXCEPT !.pc = pc])
    BY <1>5 DEF Open, Fill
  <2>. DEFINE y == [x EXCEPT !.pc = pc]
  <2>2. DOMAIN y = Fields /\ y.pc = pc /\ y.text = x.text /\ y.read = x.read
    BY <1>1 DEF Fields
  <2>3. Become(p, y)
    BY <2>1
  <2>. HIDE DEF y
  <2>4. backups' = backups /\ markers' = markers
    BY <1>5 DEF Open, Fill
  <2>5. SoundMarkers'
    BY <1>0, <2>4, MarkersStay, SoundHere
  <2>6. /\ DOMAIN host' = {"file", "tmp", "fd"} /\ DOMAIN host'.fd = Procs
        /\ \A q \in Procs : host'.fd[q] \in FDs
        /\ host'.file \in {host.file, x.text, Torn} /\ host'.tmp \in {host.tmp, x.text, Torn}
    <3>1. CASE Open(p)
      <4>1. host' = [host EXCEPT !.tmp = Torn, !.fd[p] = "tmp"]
        BY <3>1 DEF Open, OpenTmp
      <4>2. /\ DOMAIN host' = {"file", "tmp", "fd"} /\ host'.file = host.file /\ host'.tmp = Torn
            /\ host'.fd = [host.fd EXCEPT ![p] = "tmp"]
        BY <4>1, SoundHere
      <4>. QED  BY <4>2, SoundHere DEF FDs
    <3>2. CASE Fill(p)
      <4>. DEFINE shut == [host EXCEPT !.fd[p] = "none"]
      <4>1. /\ DOMAIN shut = {"file", "tmp", "fd"} /\ shut.file = host.file /\ shut.tmp = host.tmp
            /\ shut.fd = [host.fd EXCEPT ![p] = "none"]
        BY SoundHere
      <4>. HIDE DEF shut
      <4>2. host.fd[p] \in {"none", "tmp", "file", "gone"}
        BY SoundHere DEF FDs
      <4>3. \/ host' = shut
            \/ \E t \in {x.text, Torn} : host' = [shut EXCEPT !.tmp = t]
            \/ \E t \in {x.text, Torn} : host' = [shut EXCEPT !.file = t]
        BY <3>2, <4>2 DEF Fill, FillTmp, Over, shut
      <4>4. /\ DOMAIN host' = {"file", "tmp", "fd"} /\ host'.fd = shut.fd
            /\ host'.file \in {host.file, x.text, Torn} /\ host'.tmp \in {host.tmp, x.text, Torn}
        BY <4>1, <4>3
      <4>. QED  BY <4>1, <4>4, SoundHere DEF FDs
    <3>. QED  BY <1>5, <3>1, <3>2
  <2>7. PICK h : h = host'
    OBVIOUS
  <2>8. Sound(h.file) /\ (h.tmp = NoTmp \/ Sound(h.tmp))
    BY <1>1, <1>2, <2>6, <2>7, SoundHere
  <2>. QED  BY <1>0, <1>1, <2>2, <2>3, <2>4, <2>5, <2>6, <2>7, <2>8, SoundStep, SoundHere
<1>6. CASE Rename(p) \/ Verify(p) \/ SaveHash(p) \/ ClearHash(p)
  <2>1. backups' = backups /\ markers' = markers
    BY <1>6 DEF Rename, Verify, SaveHash, ClearHash, disk
  <2>2. SoundMarkers'
    BY <1>0, <2>1, MarkersStay, SoundHere
  <2>3. \E pc \in {"save", "verify"}, text \in {Torn, host.file} :
          Become(p, Idle) \/ Become(p, [x EXCEPT !.pc = pc, !.text = text])
    <3>1. CASE Rename(p)
      <4>. DEFINE pc == IF x.kind = "undo" THEN "save" ELSE "verify"
      <4>1. Become(p, Idle) \/ Become(p, [x EXCEPT !.text = Torn, !.pc = pc])
        BY <3>1 DEF Rename
      <4>2. [x EXCEPT !.text = Torn, !.pc = pc] = [x EXCEPT !.pc = pc, !.text = Torn]
        BY <1>1 DEF Fields
      <4>. QED  BY <4>1, <4>2
    <3>2. CASE Verify(p)
      BY <3>2 DEF Verify
    <3>3. CASE SaveHash(p) \/ ClearHash(p)
      BY <3>3 DEF SaveHash, ClearHash
    <3>. QED  BY <1>6, <3>1, <3>2, <3>3
  <2>4. PICK pc \in {"save", "verify"}, text \in {Torn, host.file} :
          Become(p, Idle) \/ Become(p, [x EXCEPT !.pc = pc, !.text = text])
    BY <2>3
  <2>. DEFINE z == [x EXCEPT !.pc = pc, !.text = text]
  <2>5. DOMAIN z = Fields /\ z.pc = pc /\ z.text = text /\ z.read = x.read
    BY <1>1 DEF Fields
  <2>6. Become(p, Idle) \/ Become(p, z)
    BY <2>4
  <2>. HIDE DEF z
  <2>7. PICK y : /\ Become(p, y) /\ DOMAIN y = Fields /\ Sound(y.read) /\ Sound(y.text)
                 /\ y.pc # "markers"
    BY <1>1, <1>2, <2>5, <2>6, IdleIsSound, SoundHere
  <2>8. host' = host \/ (host' = RenameTmp(host) /\ host.tmp # NoTmp)
    BY <1>6 DEF Rename, Verify, SaveHash, ClearHash, disk, CanRename
  <2>9. /\ DOMAIN host' = {"file", "tmp", "fd"} /\ DOMAIN host'.fd = Procs
        /\ \A q \in Procs : host'.fd[q] \in FDs
        /\ Sound(host'.file) /\ (host'.tmp = NoTmp \/ Sound(host'.tmp))
    <3>1. CASE host' = host
      BY <3>1, SoundHere
    <3>2. CASE host' = RenameTmp(host) /\ host.tmp # NoTmp
      <4>1. PICK h : h = RenameTmp(host)
        OBVIOUS
      <4>2. /\ DOMAIN h = {"file", "tmp", "fd"} /\ h.file = host.tmp /\ h.tmp = NoTmp
            /\ DOMAIN h.fd = Procs
        BY <4>1, SoundHere DEF RenameTmp
      <4>3. \A q \in Procs : h.fd[q] \in FDs
        BY <4>1, SoundHere DEF RenameTmp, FDs
      <4>. QED  BY <3>2, <4>1, <4>2, <4>3, SoundHere
    <3>. QED  BY <2>8, <3>1, <3>2
  <2>10. PICK h : h = host'
    OBVIOUS
  <2>. QED  BY <1>0, <2>1, <2>2, <2>7, <2>9, <2>10, SoundStep, SoundHere
<1>7. CASE Crash(p)
  <2>1. /\ Become(p, Idle) /\ host' = ShutTmp(host, p)
        /\ backups' = backups \/ backups' = With(backups, now, Torn)
        /\ markers' = markers \/ markers' = Torn
    BY <1>7 DEF Crash
  <2>2. SoundMarkers'
    <3>1. CASE markers' = markers
      BY <1>0, <3>1, MarkersStay, SoundHere
    <3>2. CASE markers' = Torn
      BY <3>2 DEF SoundMarkers
    <3>. QED  BY <2>1, <3>1, <3>2
  <2>3. /\ DOMAIN host' = {"file", "tmp", "fd"} /\ host'.file = host.file /\ host'.tmp = host.tmp
        /\ host'.fd = [host.fd EXCEPT ![p] = "none"]
    BY <2>1, SoundHere DEF ShutTmp
  <2>4. DOMAIN host'.fd = Procs /\ \A q \in Procs : host'.fd[q] \in FDs
    BY <2>3, SoundHere DEF FDs
  <2>5. DOMAIN backups' \subseteq 0 .. now /\ \A t \in DOMAIN backups' : Sound(backups'[t])
    <3>1. CASE backups' = backups
      BY <3>1, SoundHere
    <3>2. CASE backups' = With(backups, now, Torn)
      <4>1. PICK b : b = With(backups, now, Torn)
        OBVIOUS
      <4>2. DOMAIN b \subseteq 0 .. now
        BY <4>1, SoundHere DEF With
      <4>3. \A t \in DOMAIN b : Sound(b[t])
        BY <1>2, <4>1, SoundHere DEF With
      <4>. QED  BY <3>2, <4>1, <4>2, <4>3
    <3>. QED  BY <2>1, <3>1, <3>2
  <2>6. PICK h : h = host'
    OBVIOUS
  <2>7. PICK b : b = backups'
    OBVIOUS
  <2>8. Sound(h.file) /\ (h.tmp = NoTmp \/ Sound(h.tmp))
    BY <2>3, <2>6, SoundHere
  <2>. QED  BY <1>0, <2>1, <2>2, <2>3, <2>4, <2>5, <2>6, <2>7, <2>8, IdleIsSound, SoundStep, SoundHere
<1>8. CASE VerifyFails(p)
  <2>. DEFINE bak == x.bak
  <2>1. /\ Become(p, Idle) /\ markers' = markers
        /\ \/ host' = host /\ backups' = backups
           \/ /\ bak \in DOMAIN backups /\ host' = ReplaceFile(host, backups[bak])
              /\ backups' = [t \in DOMAIN backups \ {bak} |-> backups[t]]
    BY <1>8 DEF VerifyFails
  <2>2. SoundMarkers'
    BY <1>0, <2>1, MarkersStay, SoundHere
  <2>3. PICK h : h = host'
    OBVIOUS
  <2>4. PICK b : b = backups'
    OBVIOUS
  <2>5. /\ DOMAIN h = {"file", "tmp", "fd"} /\ DOMAIN h.fd = Procs
        /\ \A q \in Procs : h.fd[q] \in FDs
        /\ Sound(h.file) /\ (h.tmp = NoTmp \/ Sound(h.tmp))
    <3>1. CASE host' = host
      BY <2>3, <3>1, SoundHere
    <3>2. CASE bak \in DOMAIN backups /\ host' = ReplaceFile(host, backups[bak])
      <4>1. /\ DOMAIN h = {"file", "tmp", "fd"} /\ DOMAIN h.fd = Procs
            /\ h.file = backups[bak] /\ h.tmp = host.tmp
        BY <2>3, <3>2, SoundHere DEF ReplaceFile
      <4>2. \A q \in Procs : h.fd[q] \in FDs
        BY <2>3, <3>2, SoundHere DEF ReplaceFile, FDs
      <4>. QED  BY <3>2, <4>1, <4>2, SoundHere
    <3>. QED  BY <2>1, <3>1, <3>2
  <2>6. DOMAIN b \subseteq 0 .. now /\ \A t \in DOMAIN b : Sound(b[t])
    <3>1. DOMAIN b \subseteq DOMAIN backups /\ \A t \in DOMAIN b : b[t] = backups[t]
      BY <2>1, <2>4
    <3>. QED  BY <3>1, SoundHere
  <2>. QED  BY <1>0, <2>1, <2>2, <2>3, <2>4, <2>5, <2>6, IdleIsSound, SoundStep, SoundHere
<1>. QED  BY <1>3, <1>4, <1>5, <1>6, <1>7, <1>8

(* The user writes entries that are not wrapped, and changes what a        *)
(* wrapped one runs; the host strips.                                      *)
LEMMA SoundEdit ==
  ASSUME TInv, Tick \/ \E s \in Servers : Rewrite(s) \/ Remove(s) \/ EditWrapped(s) \/ Strip(s)
  PROVE  TInv'
<1>1. CASE Tick
  <2>1. /\ UNCHANGED disk /\ proc' = proc /\ excused' = excused /\ now' = now + 1 /\ now < MaxSeconds
    BY <1>1 DEF Tick
  <2>2. now' \in 0 .. MaxSeconds /\ DOMAIN backups \subseteq 0 .. now'
    BY <2>1, HostConstantsOK DEF TInv
  <2>. QED  BY <2>1, <2>2 DEF TInv, SoundProc, Sound, SoundMarkers, disk
<1>2. ASSUME NEW s \in Servers, Rewrite(s) \/ Remove(s) \/ EditWrapped(s) \/ Strip(s)
      PROVE  TInv'
  <2>1. host.file # Torn /\ Content(host.file)
    <3>1. host.file # Torn
      BY <1>2 DEF Rewrite, Remove, EditWrapped, Strip, Edit
    <3>. QED  BY <3>1 DEF TInv, Sound
  <2>. DEFINE c == host.file
              Right(e) == /\ Entry(e) /\ (format = "text" => e.mark = None)
                          /\ "stripped" \in excused' \/
                               /\ e.depth =< 1
                               /\ format = "json" =>
                                    IF e.mark = None THEN e.depth = 0
                                    ELSE e.depth = 1 /\ e.mark.depth = 0
  <2>2. \A t \in DOMAIN c : excused \subseteq excused' => Right(c[t])
    BY <2>1 DEF TInv, Sound, Content
  <2>3. \E text, why : /\ Edit(s, text, why) /\ DOMAIN text \subseteq Servers
                       /\ \A t \in DOMAIN text : (t \in DOMAIN c /\ text[t] = c[t]) \/ Right(text[t])
    <3>1. CASE Rewrite(s)
      <4>1. PICK r \in Cmds : Edit(s, With(c, s, Plain(r)), {})
        BY <3>1 DEF Rewrite
      <4>2. Right(Plain(r))
        BY CmdsRun DEF Plain, Entry
      <4>3. \A t \in DOMAIN With(c, s, Plain(r)) :
              IF t = s THEN With(c, s, Plain(r))[t] = Plain(r)
              ELSE t \in DOMAIN c /\ With(c, s, Plain(r))[t] = c[t]
        BY DEF With
      <4>4. DOMAIN With(c, s, Plain(r)) \subseteq Servers
        BY <2>1 DEF With, Content
      <4>. QED  BY <4>1, <4>2, <4>3, <4>4
    <3>2. CASE Remove(s)
      <4>1. Edit(s, [t \in DOMAIN c \ {s} |-> c[t]], {})
        BY <3>2 DEF Remove
      <4>. QED  BY <2>1, <4>1 DEF Content
    <3>3. CASE EditWrapped(s)
      <4>1. PICK r \in Cmds \ Remote : Edit(s, [c EXCEPT ![s].cmd = r], {"marked"})
        BY <3>3 DEF EditWrapped
      <4>2. s \in DOMAIN c
        BY <3>3 DEF EditWrapped
      <4>. DEFINE w == [c EXCEPT ![s].cmd = r]
      <4>3. excused \subseteq excused'
        BY <4>1 DEF Edit
      <4>4. DOMAIN w = DOMAIN c /\ w[s] = [c[s] EXCEPT !.cmd = r] /\ \A t \in DOMAIN c \ {s} : w[t] = c[t]
        BY <4>2
      <4>. HIDE DEF w
      <4>5. Right(c[s])
        BY <2>2, <4>2, <4>3
      <4>6. /\ DOMAIN w[s] = DOMAIN c[s] /\ w[s].cmd = r
            /\ w[s].depth = c[s].depth /\ w[s].mark = c[s].mark
        BY <4>4, <4>5 DEF Entry
      <4>7. Right(w[s])
        BY <4>5, <4>6, CmdsRun DEF Entry
      <4>8. Edit(s, w, {"marked"})
        BY <4>1 DEF w
      <4>9. DOMAIN w \subseteq Servers
        BY <2>1, <4>4 DEF Content
      <4>. HIDE DEF Right
      <4>. QED  BY <4>4, <4>7, <4>8, <4>9
    <3>4. CASE Strip(s)
      <4>1. Edit(s, [c EXCEPT ![s].mark = None], {"stripped"}) /\ s \in DOMAIN c
        BY <3>4 DEF Strip
      <4>. DEFINE w == [c EXCEPT ![s].mark = None]
      <4>2. excused \subseteq excused' /\ "stripped" \in excused'
        BY <4>1 DEF Edit
      <4>3. DOMAIN w = DOMAIN c /\ w[s] = [c[s] EXCEPT !.mark = None] /\ \A t \in DOMAIN c \ {s} : w[t] = c[t]
        BY <4>1
      <4>4. Edit(s, w, {"stripped"})
        BY <4>1
      <4>. HIDE DEF w
      <4>5. Right(c[s])
        BY <2>2, <4>1, <4>2
      <4>6. /\ DOMAIN w[s] = DOMAIN c[s] /\ w[s].cmd = c[s].cmd
            /\ w[s].depth = c[s].depth /\ w[s].mark = None
        BY <4>3, <4>5 DEF Entry
      <4>7. Right(w[s])
        BY <4>2, <4>5, <4>6 DEF Entry
      <4>8. DOMAIN w \subseteq Servers
        BY <2>1, <4>3 DEF Content
      <4>. HIDE DEF Right
      <4>. QED  BY <4>3, <4>4, <4>7, <4>8
    <3>. QED  BY <1>2, <3>1, <3>2, <3>3, <3>4
  <2>4. PICK text, why : /\ Edit(s, text, why) /\ DOMAIN text \subseteq Servers
                         /\ \A t \in DOMAIN text : (t \in DOMAIN c /\ text[t] = c[t]) \/ Right(text[t])
    BY <2>3
  <2>5. /\ host' = [host EXCEPT !.file = text] /\ excused \subseteq excused'
        /\ format' = format /\ backups' = backups /\ markers' = markers /\ proc' = proc /\ now' = now
    BY <2>4 DEF Edit
  <2>6. /\ DOMAIN host' = {"file", "tmp", "fd"} /\ host'.file = text
        /\ host'.tmp = host.tmp /\ host'.fd = host.fd
    BY <2>5 DEF TInv
  <2>7. \A t \in DOMAIN text : Right(text[t])
    BY <2>2, <2>4, <2>5
  <2>8. Sound(text)'
    BY <2>4, <2>5, <2>7 DEF Sound, Content
  <2>9. \A p \in Procs : SoundProc(p)'
    <3>. SUFFICES ASSUME NEW p \in Procs
                  PROVE  SoundProc(p)'
      OBVIOUS
    <3>1. PICK r, t : r = proc[p].read /\ t = proc[p].text
      OBVIOUS
    <3>2. Sound(r) /\ Sound(t) /\ SoundProc(p)
      BY <3>1 DEF TInv, SoundProc
    <3>3. Sound(r)' /\ Sound(t)'
      BY <2>5, <3>2, StaysSound
    <3>. QED  BY <2>5, <3>1, <3>2, <3>3 DEF SoundProc
  <2>10. host'.tmp = NoTmp \/ Sound(host.tmp)'
    <3>1. PICK t : t = host.tmp
      OBVIOUS
    <3>2. t = NoTmp \/ Sound(t)'
      BY <2>5, <3>1, StaysSound DEF TInv
    <3>. QED  BY <2>6, <3>1, <3>2
  <2>11. \A t \in DOMAIN backups' : Sound(backups[t])'
    <3>. SUFFICES ASSUME NEW t \in DOMAIN backups
                  PROVE  Sound(backups[t])'
      BY <2>5
    <3>1. PICK b : b = backups[t]
      OBVIOUS
    <3>2. Sound(b)'
      BY <2>5, <3>1, StaysSound DEF TInv
    <3>. QED  BY <2>5, <3>1, <3>2
  <2>12. SoundMarkers'
    BY <2>5, MarkersStay DEF TInv
  <2>. QED  BY <2>5, <2>6, <2>8, <2>9, <2>10, <2>11, <2>12 DEF TInv
<1>. QED  BY <1>1, <1>2

LEMMA StillSound ==
  ASSUME TInv, [Next]_vars
  PROVE  TInv'
<1>1. CASE UNCHANGED vars
  BY <1>1 DEF vars, TInv, SoundProc, Sound, SoundMarkers
<1>2. CASE Next
  <2>1. CASE Tick \/ \E s \in Servers : Rewrite(s) \/ Remove(s) \/ EditWrapped(s) \/ Strip(s)
    BY <2>1, SoundEdit
  <2>2. ASSUME NEW p \in Procs,
               \/ \E want \in SUBSET Servers \ {{}}, force \in BOOLEAN : Patch(p, want, force)
               \/ InitPatch(p) \/ Unpatch(p) \/ Undo(p)
        PROVE  TInv'
    BY <2>2, SoundBegin DEF InitPatch
  <2>3. ASSUME NEW p \in Procs,
               \/ Backup(p) \/ WriteMarkers(p) \/ Open(p) \/ Fill(p) \/ Rename(p) \/ Verify(p)
               \/ VerifyFails(p) \/ SaveHash(p) \/ ClearHash(p) \/ Crash(p)
        PROVE  TInv'
    BY <2>3, SoundWork
  <2>. QED  BY <1>2, <2>1, <2>2, <2>3 DEF Next
<1>. QED  BY <1>1, <1>2

LEMMA SoundFirst == Init => TInv
<1>. SUFFICES ASSUME Init
              PROVE  TInv
  OBVIOUS
<1>1. PICK on \in SUBSET Servers, c \in Cmds : host = Files([s \in on |-> Plain(c)], Procs)
  BY DEF Init
<1>2. /\ DOMAIN host = {"file", "tmp", "fd"} /\ DOMAIN host.fd = Procs
      /\ \A p \in Procs : host.fd[p] \in FDs
      /\ host.file = [s \in on |-> Plain(c)] /\ host.tmp = NoTmp
  BY <1>1 DEF Files, FDs
<1>3. Sound([s \in on |-> Plain(c)])
  BY CmdsRun DEF Sound, Content, Plain, Entry
<1>4. \A p \in Procs : SoundProc(p)
  BY IdleIsSound DEF Init, SoundProc
<1>5. /\ DOMAIN proc = Procs /\ format \in {"json", "text"} /\ now \in 0 .. MaxSeconds
      /\ DOMAIN backups = {} /\ SoundMarkers
  BY HostConstantsOK DEF Init, SoundMarkers
<1>. QED  BY <1>2, <1>3, <1>4, <1>5 DEF TInv

LEMMA AlwaysSound == Spec => []TInv
BY SoundFirst, StillSound, PTL DEF Spec

(* Types, for any number of commands, edits and crashes, overlapping or    *)
(* not; and no server is wrapped twice unless its host strips the marker.  *)
THEOREM TypeTheorem == Spec => []TypeOK
<1>1. TInv => TypeOK
  <2>. SUFFICES ASSUME TInv
                PROVE  TypeOK
    OBVIOUS
  <2>1. ASSUME NEW c, Sound(c), c # Torn
        PROVE  Content(c) /\ \A s \in DOMAIN c : c[s].depth =< 1 \/ "stripped" \in excused
    BY <2>1 DEF Sound
  <2>2. \A t \in DOMAIN backups : t \in 0 .. MaxSeconds
    BY HostConstantsOK DEF TInv
  <2>3. \A t \in DOMAIN backups : backups[t] = Torn \/ Content(backups[t])
    BY <2>1 DEF TInv
  <2>. QED  BY <2>1, <2>2, <2>3 DEF TInv, SoundMarkers, TypeOK
<1>. QED  BY <1>1, AlwaysSound, PTL

-----------------------------------------------------------------------------
(* What a command that is alone loses                                      *)

Latest == backups[Max(DOMAIN backups)]

\* The backup of the last patch: what undo takes, unless a patch has put its
\* own backup back.
Newest == IF DOMAIN backups = {} \/ "unverified" \in excused THEN Torn ELSE Latest

\* A command alone has the temporary file open only while it fills it,
\* renames what it wrote, and writes markers after a backup of what it read.
\* Its backup is then the latest; undo has nothing to verify.
InHand(p) ==
  LET x == proc[p]
  IN  /\ host.fd[p] = IF x.pc = "fill" THEN "tmp" ELSE "none"
      /\ x.pc = "fill" => host.tmp = Torn
      /\ x.pc = "rename" => host.tmp = x.text
      /\ x.pc = "markers" =>
           /\ Own(x) = x.read /\ Newest \in {Torn, x.read}
           /\ x.text = Wrapped(x.read, x.want)
      /\ x.pc = "verify" => x.kind # "undo"

Lone ==
  /\ \A p, q \in Procs : Busy(p) /\ Busy(q) => p = q
  /\ \A p \in Procs : InHand(p)

LInv == "overlap" \in excused \/ Lone

\* The servers that are wrapped, and those whose original is in markers.json.
WrappedIn(c) == IF c = Torn THEN {} ELSE {s \in DOMAIN c : c[s].depth > 0}
Marked == IF markers \in {None, Torn} THEN {} ELSE DOMAIN markers

ReachIn(p) ==
  LET x == proc[p]
  IN  /\ x.pc = "backup" => WrappedIn(x.read) \subseteq Marked
      /\ x.pc \in {"backup", "markers"} => WrappedIn(host.file) \subseteq WrappedIn(x.read)
      /\ x.pc \in {"open", "fill", "rename"} => WrappedIn(x.text) \subseteq Marked
      /\ WrappedIn(Own(x)) \subseteq Marked

\* In text formats: every wrapped server of every text that is or may become
\* the file has its original in markers.json.
Reach ==
  format = "text" =>
    /\ WrappedIn(host.file) \subseteq Marked
    /\ WrappedIn(Newest) \subseteq Marked
    /\ \A p \in Procs : ReachIn(p)

NoReach == excused \cap {"overlap", "stripped", "overwritten", "tornMarkers", "olderBackup"} # {}
RInv == NoReach \/ Reach

\* What an unpatch of this text would put back is what it runs.
Agrees(c) ==
  ~CannotUnpatch(c) => \A s \in DOMAIN c : MarkOf(c, s) # None => MarkOf(c, s).cmd = c[s].cmd

KeptIn(p) ==
  LET x == proc[p]
  IN  /\ x.pc \in {"backup", "markers"} => x.read = host.file
      /\ x.pc \in {"open", "fill", "rename"} =>
           /\ Agrees(x.text)
           /\ x.kind # "undo" => x.text # Torn /\ Serves(x.text)
      /\ Agrees(Own(x)) /\ (x.kind # "undo" /\ Own(x) # Torn => Serves(Own(x)))

Kept ==
  /\ host.file # Torn => Serves(host.file)
  /\ Agrees(host.file) /\ Agrees(Newest)
  /\ \A p \in Procs : KeptIn(p)

NotKept == excused \cap {"overlap", "raced", "marked", "olderBackup"} # {}
KInv == NotKept \/ Kept

(* A backup made now is the latest.                                        *)
LEMMA NowIsLatest ==
  ASSUME NEW n \in Nat, NEW b, DOMAIN b \subseteq 0 .. n, NEW v, NEW w, w = With(b, n, v)
  PROVE  /\ DOMAIN w # {} /\ w[Max(DOMAIN w)] = v
<1>1. DOMAIN w = DOMAIN b \cup {n} /\ w[n] = v
  BY DEF With
<1>2. Max(DOMAIN w) \in DOMAIN w
  BY <1>1, LatestIsThere
<1>3. \E m \in DOMAIN w : \A k \in DOMAIN w : m >= k
  BY <1>1
<1>4. Max(DOMAIN w) >= n
  BY <1>1, <1>3 DEF Max
<1>5. Max(DOMAIN w) = n
  BY <1>1, <1>2, <1>4
<1>. QED  BY <1>1, <1>5

(* What a command has in hand stays there.                                 *)
LEMMA WrappedStill ==
  ASSUME format' = format, NEW c, NEW want
  PROVE  Wrapped(c, want)' = Wrapped(c, want)
<1>1. ToWrap(c, want)' = ToWrap(c, want) /\ \A s : Command(c[s])' = Command(c[s])
  BY DEF ToWrap, Managed, Command
<1>2. \A s : Original(c[s])' = Original(c[s])
  BY <1>1 DEF Original
<1>. QED  BY <1>1, <1>2 DEF Wrapped

(* What can be said of no text, and what stays true of one.                *)
LEMMA TornKeeps == WrappedIn(Torn) = {} /\ Agrees(Torn) /\ Agrees(Torn)'
BY DEF WrappedIn, Agrees, CannotUnpatch

LEMMA ServesStill ==
  ASSUME format' = format, wanted' = wanted, NEW c, Serves(c)
  PROVE  Serves(c)'
BY DEF Serves

LEMMA NewestStill ==
  ASSUME backups' = backups, excused \subseteq excused'
  PROVE  Newest' \in {Newest, Torn}
BY DEF Newest, Latest

LEMMA OwnStill ==
  ASSUME backups' = backups, NEW x, NEW y, x.pc # "idle", y.pc = "idle" \/ y.bak = x.bak
  PROVE  Own(y)' \in {Own(x), Torn}
BY DEF Own

LEMMA HandStill ==
  ASSUME NEW p \in Procs, format' = format, proc' = proc, host'.fd = host.fd, host'.tmp = host.tmp,
         backups' = backups, excused \subseteq excused', InHand(p)
  PROVE  InHand(p)'
<1>1. PICK x, w : x = proc[p] /\ w = Wrapped(proc[p].read, proc[p].want)
  OBVIOUS
<1>2. Wrapped(x.read, x.want)' = w
  BY <1>1, WrappedStill
<1>3. Newest' \in {Newest, Torn} /\ Own(x)' = Own(x)
  BY NewestStill DEF Own
<1>. QED  BY <1>1, <1>2, <1>3 DEF InHand

LEMMA NoneOwned ==
  ASSUME NEW y, y.pc = "idle" \/ y.bak = -1, -1 \notin DOMAIN backups'
  PROVE  Own(y)' = Torn
BY DEF Own

(* What a patch of a whole text gives: it serves the same, and what an     *)
(* unpatch would put back agrees with it, if it does.                      *)
LEMMA WrapKeeps ==
  ASSUME NEW c, Sound(c), c # Torn, NEW want
  PROVE  /\ Wrapped(c, want) # Torn /\ DOMAIN Wrapped(c, want) = DOMAIN c
         /\ Serves(c) => Serves(Wrapped(c, want))
         /\ format # "json" => \A s \in DOMAIN c : Wrapped(c, want)[s].cmd = c[s].cmd
         /\ format = "json" /\ Agrees(c) => Agrees(Wrapped(c, want))
         /\ ToWrap(c, want) = {} /\ Agrees(c) => Agrees(Wrapped(c, want))
         /\ ToWrap(c, want) = {} => WrappedIn(Wrapped(c, want)) \subseteq WrappedIn(c)
         /\ WrappedIn(Wrapped(c, want)) \subseteq WrappedIn(c) \cup ToWrap(c, want)
<1>. DEFINE w == Wrapped(c, want)
<1>0. Content(c)
  BY DEF Sound
<1>1. DOMAIN w = DOMAIN c
  BY DEF Wrapped
<1>2. w # Torn
  BY <1>0, <1>1, HostConstantsOK DEF Content, Torn
<1>3. \A s \in DOMAIN c : s \notin ToWrap(c, want) => w[s] = c[s]
  BY DEF Wrapped
<1>4. \A s \in DOMAIN c : s \in ToWrap(c, want) =>
        w[s].cmd = Command(c[s]) /\ (format = "json" => w[s].mark = Original(c[s]))
  BY DEF Wrapped
<1>5. \A s \in DOMAIN c : w[s].cmd = c[s].cmd \/ w[s].cmd = Command(c[s])
  BY <1>3, <1>4
<1>6. ToWrap(c, want) = {} => WrappedIn(w) \subseteq WrappedIn(c)
  BY <1>1, <1>2, <1>3 DEF WrappedIn
<1>7. WrappedIn(w) \subseteq WrappedIn(c) \cup ToWrap(c, want)
  BY <1>1, <1>2, <1>3 DEF WrappedIn
<1>. HIDE DEF w
<1>8. Serves(c) => Serves(w)
  BY <1>1, <1>5 DEF Serves, Command
<1>11. format # "json" => \A s \in DOMAIN c : w[s].cmd = c[s].cmd
  BY <1>5 DEF Command
<1>9. ASSUME format = "json", Agrees(c)
      PROVE  Agrees(w)
  <2>. SUFFICES ASSUME NEW s \in DOMAIN c, w[s].mark # None
                PROVE  w[s].mark.cmd = w[s].cmd
    BY <1>1, <1>9, MarkIsWhere DEF Agrees
  <2>1. CASE s \in ToWrap(c, want)
    <3>1. Original(c[s]).cmd = Command(c[s])
      BY DEF Original
    <3>. QED  BY <1>4, <1>9, <2>1, <3>1
  <2>2. CASE s \notin ToWrap(c, want)
    BY <1>3, <1>9, <2>2, MarkIsWhere DEF Agrees, CannotUnpatch
  <2>. QED  BY <2>1, <2>2
<1>10. ASSUME ToWrap(c, want) = {}, Agrees(c)
       PROVE  Agrees(w)
  <2>1. CannotUnpatch(w) <=> CannotUnpatch(c)
    BY <1>2 DEF CannotUnpatch
  <2>2. \A s \in DOMAIN c : w[s] = c[s] /\ MarkOf(w, s) = MarkOf(c, s)
    BY <1>3, <1>10 DEF MarkOf
  <2>. QED  BY <1>1, <1>10, <2>1, <2>2 DEF Agrees
<1>. QED  BY <1>1, <1>2, <1>6, <1>7, <1>8, <1>9, <1>10, <1>11 DEF w

(* And an unpatch.                                                         *)
LEMMA UnwrapKeeps ==
  ASSUME NEW c, Sound(c), ~CannotUnpatch(c), SoundMarkers, format \in {"json", "text"}
  PROVE  /\ Unwrapped(c) # Torn
         /\ Agrees(c) => Agrees(Unwrapped(c)) /\ (Serves(c) => Serves(Unwrapped(c)))
         /\ format = "text" /\ WrappedIn(c) \subseteq Marked => WrappedIn(Unwrapped(c)) \subseteq Marked
<1>. DEFINE w == Unwrapped(c)
<1>0. Content(c) /\ c # Torn
  BY DEF Sound, CannotUnpatch
<1>1. DOMAIN w = DOMAIN c
  BY DEF Unwrapped
<1>2. w # Torn
  BY <1>0, <1>1, HostConstantsOK DEF Content, Torn
<1>3. \A s \in DOMAIN c : MarkOf(c, s) = None => w[s] = c[s]
  BY DEF Unwrapped
<1>4. \A s \in DOMAIN c : MarkOf(c, s) # None =>
        w[s].cmd = MarkOf(c, s).cmd /\ w[s].mark = None
  BY DEF Unwrapped, Restored
<1>. HIDE DEF w
<1>5. ASSUME Agrees(c)
      PROVE  Agrees(w) /\ (Serves(c) => Serves(w))
  <2>1. \A s \in DOMAIN c : w[s].cmd = c[s].cmd
    BY <1>3, <1>4, <1>5 DEF Agrees
  <2>2. ASSUME NEW s \in DOMAIN c, MarkOf(w, s) # None
        PROVE  MarkOf(w, s).cmd = w[s].cmd
    <3>1. CASE format = "json"
      <4>1. MarkOf(w, s) = w[s].mark /\ MarkOf(c, s) = c[s].mark
        BY <3>1, MarkIsWhere
      <4>2. MarkOf(c, s) = None
        BY <1>4, <2>2, <4>1
      <4>. QED  BY <1>3, <2>2, <4>1, <4>2
    <3>2. CASE format = "text"
      <4>1. MarkOf(w, s) = MarkOf(c, s)
        BY <3>2 DEF MarkOf
      <4>. QED  BY <1>5, <2>1, <2>2, <4>1 DEF Agrees
    <3>. QED  BY <3>1, <3>2
  <2>3. Serves(c) => Serves(w)
    BY <1>1, <2>1 DEF Serves
  <2>. QED  BY <1>1, <2>2, <2>3 DEF Agrees
<1>6. ASSUME format = "text", WrappedIn(c) \subseteq Marked
      PROVE  WrappedIn(w) \subseteq Marked
  <2>1. markers \notin {None, Torn} /\ Marked = DOMAIN markers
    BY <1>6 DEF CannotUnpatch, Marked
  <2>2. ASSUME NEW s \in DOMAIN c, w[s].depth > 0, s \notin DOMAIN markers
        PROVE  FALSE
    <3>1. MarkOf(c, s) = None
      BY <1>6, <2>2, MarkIsWhere
    <3>2. s \in WrappedIn(c)
      BY <1>0, <1>3, <2>2, <3>1 DEF WrappedIn
    <3>. QED  BY <1>6, <2>1, <2>2, <3>2
  <2>. QED  BY <1>1, <1>2, <2>1, <2>2 DEF WrappedIn
<1>. QED  BY <1>2, <1>5, <1>6 DEF w

LEMMA AgreesStill ==
  ASSUME format' = format, markers' = markers, NEW c, Agrees(c)
  PROVE  Agrees(c)'
BY DEF Agrees, CannotUnpatch, MarkOf

(* The step of one command while the others are idle.                      *)
LEMMA LoneStep ==
  ASSUME TInv, Lone, NEW p \in Procs, NEW y, Become(p, y),
         \A q \in Procs \ {p} : ~Busy(q) /\ host'.fd[q] = host.fd[q],
         InHand(p)'
  PROVE  /\ Lone' /\ proc'[p] = y
         /\ ReachIn(p)' => \A q \in Procs : ReachIn(q)'
         /\ KeptIn(p)' => \A q \in Procs : KeptIn(q)'
<1>1. /\ proc'[p] = y /\ \A q \in Procs \ {p} : proc'[q] = proc[q]
  BY DEF TInv, Become
<1>2. \A q \in Procs \ {p} : proc'[q].pc = "idle"
  BY <1>1 DEF Busy
<1>3. \A q \in Procs \ {p} : InHand(q)'
  <2>. SUFFICES ASSUME NEW q \in Procs \ {p}
                PROVE  InHand(q)'
    OBVIOUS
  <2>1. host'.fd[q] = "none"
    BY DEF Lone, InHand, Busy
  <2>. QED  BY <1>2, <2>1 DEF InHand
<1>4. \A q, r \in Procs : Busy(q)' /\ Busy(r)' => q = r
  BY <1>2 DEF Busy
<1>5. \A q \in Procs \ {p} : ReachIn(q)' /\ KeptIn(q)'
  <2>. SUFFICES ASSUME NEW q \in Procs \ {p}
                PROVE  ReachIn(q)' /\ KeptIn(q)'
    OBVIOUS
  <2>1. Own(proc[q])' = Torn
    BY <1>2 DEF Own
  <2>. QED  BY <1>2, <2>1, TornKeeps DEF ReachIn, KeptIn
<1>. QED  BY <1>1, <1>3, <1>4, <1>5 DEF Lone

\* What every step does for the three invariants.
Keeps == Lone' /\ (Reach => NoReach' \/ Reach') /\ (Kept => NotKept' \/ Kept')

(* A command that begins.                                                  *)
LEMMA KeepsBegin ==
  ASSUME TInv, Lone, "overlap" \notin excused', NEW p \in Procs,
         \/ \E want \in SUBSET Servers, force \in BOOLEAN : Patch(p, want, force)
         \/ Unpatch(p) \/ Undo(p)
  PROVE  Keeps
<1>1. /\ UNCHANGED disk /\ ~Busy(p) /\ wanted' = wanted /\ excused' = excused' \cup Overlap(p)
      /\ excused \subseteq excused'
  BY DEF Patch, Unpatch, Undo
<1>2. \A q \in Procs \ {p} : ~Busy(q)
  BY <1>1 DEF Overlap
<1>3. host' = host /\ backups' = backups /\ markers' = markers /\ format' = format
  BY <1>1 DEF disk
<1>. DEFINE Good(y) ==
       /\ y.pc = "idle" \/ y.bak = -1
       /\ \/ y.pc = "idle"
          \/ y.pc = "backup" /\ y.read = host.file
          \/ /\ y.pc = "open" /\ y.kind = "unpatch" /\ y.text = Unwrapped(host.file)
             /\ ~CannotUnpatch(host.file)
          \/ /\ y.pc = "open" /\ y.kind = "undo"
             /\ y.text = Newest \/ "olderBackup" \in excused'
<1>4. \E y : Become(p, y) /\ Good(y)
  <2>1. CASE \E want \in SUBSET Servers, force \in BOOLEAN : Patch(p, want, force)
    <3>1. PICK want \in SUBSET Servers :
            Become(p, [Idle EXCEPT !.pc = "backup", !.read = host.file, !.want = want])
      BY <2>1 DEF Patch
    <3>. DEFINE y == [Idle EXCEPT !.pc = "backup", !.read = host.file, !.want = want]
    <3>2. y.pc = "backup" /\ y.read = host.file /\ y.bak = -1
      BY IdleShape DEF Fields
    <3>3. Become(p, y)
      BY <3>1
    <3>. HIDE DEF y
    <3>. QED  BY <3>2, <3>3
  <2>2. CASE Unpatch(p)
    <3>. DEFINE y == [Idle EXCEPT !.pc = "open", !.kind = "unpatch", !.text = Unwrapped(host.file)]
    <3>1. Become(p, Idle) \/ (~CannotUnpatch(host.file) /\ Become(p, y))
      BY <2>2 DEF Unpatch
    <3>2. y.pc = "open" /\ y.kind = "unpatch" /\ y.text = Unwrapped(host.file) /\ y.bak = -1
      BY IdleShape DEF Fields
    <3>. HIDE DEF y
    <3>. QED  BY <3>1, <3>2, IdleShape
  <2>3. CASE Undo(p)
    <3>. DEFINE y == [Idle EXCEPT !.pc = "open", !.kind = "undo", !.text = Latest]
    <3>1. /\ Become(p, y) /\ DOMAIN backups # {}
          /\ "unverified" \in excused => "olderBackup" \in excused'
      BY <2>3 DEF Undo, Latest
    <3>2. y.pc = "open" /\ y.kind = "undo" /\ y.text = Latest /\ y.bak = -1
      BY IdleShape DEF Fields
    <3>3. Latest = Newest \/ "olderBackup" \in excused'
      BY <3>1 DEF Newest
    <3>. HIDE DEF y
    <3>. QED  BY <3>1, <3>2, <3>3
  <2>. QED  BY <2>1, <2>2, <2>3
<1>5. PICK y : Become(p, y) /\ Good(y)
  BY <1>4
<1>6. proc'[p] = y
  BY <1>5 DEF Become, TInv
<1>7. InHand(p)'
  <2>1. host.fd[p] = "none"
    BY <1>1 DEF Lone, InHand, Busy
  <2>. QED  BY <1>3, <1>5, <1>6, <2>1 DEF InHand
<1>8. /\ Lone'
      /\ ReachIn(p)' => \A q \in Procs : ReachIn(q)'
      /\ KeptIn(p)' => \A q \in Procs : KeptIn(q)'
  BY <1>2, <1>3, <1>5, <1>7, LoneStep
<1>9. Newest' \in {Newest, Torn} /\ Marked' = Marked /\ Own(y)' = Torn
  <2>1. -1 \notin DOMAIN backups'
    BY <1>3 DEF TInv
  <2>. QED  BY <1>1, <1>3, <1>5, <2>1, NewestStill, NoneOwned DEF Marked
<1>10. Sound(host.file) /\ SoundMarkers /\ format \in {"json", "text"}
  BY DEF TInv
<1>11. ASSUME Reach, ~NoReach'
       PROVE  Reach'
  <2>. SUFFICES ASSUME format = "text"
                PROVE  Reach'
    BY <1>3, <1>11 DEF Reach
  <2>1. WrappedIn(host.file) \subseteq Marked /\ WrappedIn(Newest) \subseteq Marked
    BY <1>11 DEF Reach
  <2>2. ~CannotUnpatch(host.file) => WrappedIn(Unwrapped(host.file)) \subseteq Marked
    BY <1>10, <2>1, UnwrapKeeps
  <2>3. y.pc = "open" => WrappedIn(y.text) \subseteq Marked
    BY <1>5, <1>11, <2>1, <2>2 DEF NoReach
  <2>4. ReachIn(p)'
    BY <1>3, <1>5, <1>6, <1>9, <2>1, <2>3, TornKeeps DEF ReachIn, WrappedIn
  <2>5. (WrappedIn(host.file) \subseteq Marked)'
    BY <1>3, <1>9, <2>1 DEF WrappedIn
  <2>6. (WrappedIn(Newest) \subseteq Marked)'
    BY <1>9, <2>1, TornKeeps DEF WrappedIn
  <2>7. (\A q \in Procs : ReachIn(q))'
    BY <1>8, <2>4
  <2>. QED  BY <2>5, <2>6, <2>7 DEF Reach
<1>12. ASSUME Kept, ~NotKept'
       PROVE  Kept'
  <2>0. PICK f, l, t : f = host.file /\ l = Newest /\ t = y.text
    OBVIOUS
  <2>1. (f # Torn => Serves(f)) /\ Agrees(f) /\ Agrees(l)
    BY <1>12, <2>0 DEF Kept
  <2>2. ~CannotUnpatch(f) =>
          /\ f # Torn /\ Unwrapped(f) # Torn
          /\ Agrees(Unwrapped(f)) /\ (Serves(f) => Serves(Unwrapped(f)))
    BY <1>10, <2>0, <2>1, UnwrapKeeps DEF CannotUnpatch
  <2>3. y.pc = "open" => Agrees(t) /\ (y.kind # "undo" => t # Torn /\ Serves(t))
    BY <1>5, <1>12, <2>0, <2>1, <2>2 DEF NotKept
  <2>4. /\ f # Torn => Serves(f)'
        /\ Agrees(f)' /\ Agrees(l)'
        /\ y.pc = "open" => Agrees(t)' /\ (y.kind # "undo" => t # Torn /\ Serves(t)')
    BY <1>1, <1>3, <2>1, <2>3, AgreesStill, ServesStill
  <2>5. KeptIn(p)'
    BY <1>3, <1>5, <1>6, <1>9, <2>0, <2>4, TornKeeps DEF KeptIn
  <2>6. (host.file # Torn => Serves(host.file))' /\ Agrees(host.file)'
    BY <1>3, <2>0, <2>4
  <2>7. Agrees(Newest)'
    BY <1>9, <2>0, <2>4, TornKeeps
  <2>8. (\A q \in Procs : KeptIn(q))'
    BY <1>8, <2>5
  <2>. QED  BY <2>6, <2>7, <2>8 DEF Kept
<1>. QED  BY <1>8, <1>11, <1>12 DEF Keeps

(* What is known of a command at work.                                     *)
LEMMA LoneWork ==
  ASSUME TInv, Lone, NEW p \in Procs, Busy(p)
  PROVE  /\ \A q \in Procs \ {p} : ~Busy(q) /\ host.fd[q] = "none"
         /\ DOMAIN proc[p] = Fields /\ Sound(proc[p].read) /\ Sound(proc[p].text)
         /\ proc[p].pc = "markers" => format = "text" /\ proc[p].read # Torn
         /\ InHand(p) /\ (Reach /\ format = "text" => ReachIn(p)) /\ (Kept => KeptIn(p))
BY SoundHere DEF Lone, InHand, Busy, SoundProc, Reach, Kept

(* A step that leaves the file, the backups and the markers.               *)
LEMMA KeepsFiles ==
  ASSUME TInv, NEW p \in Procs, host'.file = host.file, backups' = backups, markers' = markers,
         format' = format, wanted' = wanted, excused \subseteq excused', Lone',
         Reach /\ format = "text" => \A q \in Procs : ReachIn(q)',
         Kept => \A q \in Procs : KeptIn(q)'
  PROVE  Keeps
<1>1. Newest' \in {Newest, Torn} /\ Marked' = Marked
  BY NewestStill DEF Marked
<1>2. Reach => Reach'
  <2>. SUFFICES ASSUME Reach, format = "text"
                PROVE  Reach'
    BY DEF Reach
  <2>1. WrappedIn(host.file) \subseteq Marked /\ WrappedIn(Newest) \subseteq Marked
    BY DEF Reach
  <2>2. (WrappedIn(host.file) \subseteq Marked)'
    BY <1>1, <2>1 DEF WrappedIn
  <2>3. (WrappedIn(Newest) \subseteq Marked)'
    BY <1>1, <2>1, TornKeeps DEF WrappedIn
  <2>4. (\A q \in Procs : ReachIn(q))'
    OBVIOUS
  <2>. QED  BY <2>2, <2>3, <2>4 DEF Reach
<1>3. Kept => Kept'
  <2>. SUFFICES ASSUME Kept
                PROVE  Kept'
    OBVIOUS
  <2>1. PICK f, l : f = host.file /\ l = Newest
    OBVIOUS
  <2>2. Agrees(f)' /\ Agrees(l)' /\ (f # Torn => Serves(f)')
    BY <2>1, AgreesStill, ServesStill DEF Kept
  <2>3. (host.file # Torn => Serves(host.file))'
    BY <2>1, <2>2
  <2>4. Agrees(host.file)' /\ Agrees(Newest)'
    BY <1>1, <2>1, <2>2, TornKeeps
  <2>5. (\A q \in Procs : KeptIn(q))'
    OBVIOUS
  <2>. QED  BY <2>3, <2>4, <2>5 DEF Kept
<1>. QED  BY <1>2, <1>3 DEF Keeps

(* The file is opened and filled, and the hash is verified and recorded.   *)
LEMMA KeepsFill ==
  ASSUME TInv, Lone, NEW p \in Procs,
         Open(p) \/ Fill(p) \/ Verify(p) \/ SaveHash(p) \/ ClearHash(p)
  PROVE  Keeps
<1>. DEFINE x == proc[p]
<1>0. /\ Busy(p) /\ format' = format /\ backups' = backups /\ markers' = markers /\ wanted' = wanted
      /\ excused' = excused
  BY DEF Open, Fill, Verify, SaveHash, ClearHash, Busy, disk
<1>1. /\ \A q \in Procs \ {p} : ~Busy(q) /\ host.fd[q] = "none"
      /\ DOMAIN x = Fields /\ InHand(p)
      /\ Reach /\ format = "text" => ReachIn(p)
      /\ Kept => KeptIn(p)
  BY <1>0, LoneWork
<1>2. DOMAIN host = {"file", "tmp", "fd"} /\ DOMAIN host.fd = Procs
  BY DEF TInv
<1>3. Marked' = Marked
  BY <1>0 DEF Marked
<1>4. \E y : /\ Become(p, y) /\ InHand(p)' /\ host'.file = host.file
             /\ y.pc = "idle" \/ (y.bak = x.bak /\ y.kind = x.kind)
             /\ \A q \in Procs \ {p} : host'.fd[q] = host.fd[q]
             /\ \/ y.pc \in {"idle", "save"}
                \/ x.pc \in {"open", "fill"} /\ y.pc \in {"fill", "rename"} /\ y.text = x.text /\ y.kind = x.kind
  <2>1. CASE Open(p)
    <3>. DEFINE y == [x EXCEPT !.pc = "fill"]
    <3>1. Become(p, y) /\ host' = OpenTmp(host, p) /\ x.pc = "open"
      BY <2>1 DEF Open
    <3>2. y.pc = "fill" /\ y.text = x.text /\ y.kind = x.kind /\ y.bak = x.bak
      BY <1>1 DEF Fields
    <3>3. /\ host'.file = host.file /\ host'.tmp = Torn /\ host'.fd = [host.fd EXCEPT ![p] = "tmp"]
      BY <1>2, <3>1 DEF OpenTmp
    <3>4. host'.fd[p] = "tmp" /\ \A q \in Procs \ {p} : host'.fd[q] = host.fd[q]
      BY <1>2, <3>3
    <3>. HIDE DEF y
    <3>5. proc'[p] = y
      BY <3>1 DEF Become, TInv
    <3>6. InHand(p)'
      BY <3>2, <3>3, <3>4, <3>5 DEF InHand
    <3>. QED  BY <3>1, <3>2, <3>3, <3>4, <3>6
  <2>2. CASE Fill(p)
    <3>. DEFINE y == [x EXCEPT !.pc = "rename"]
                shut == [host EXCEPT !.fd[p] = "none"]
    <3>1. Become(p, y) /\ host' \in FillTmp(host, p, x.text) /\ x.pc = "fill"
      BY <2>2 DEF Fill
    <3>2. y.pc = "rename" /\ y.text = x.text /\ y.kind = x.kind /\ y.bak = x.bak
      BY <1>1 DEF Fields
    <3>3. host.fd[p] = "tmp" /\ host.tmp = Torn
      BY <1>1, <3>1 DEF InHand
    <3>4. host' = [shut EXCEPT !.tmp = x.text]
      BY <3>1, <3>3 DEF FillTmp, Over
    <3>5. /\ host'.file = host.file /\ host'.tmp = x.text /\ host'.fd = [host.fd EXCEPT ![p] = "none"]
      BY <1>2, <3>4
    <3>6. host'.fd[p] = "none" /\ \A q \in Procs \ {p} : host'.fd[q] = host.fd[q]
      BY <1>2, <3>5
    <3>. HIDE DEF y
    <3>7. proc'[p] = y
      BY <3>1 DEF Become, TInv
    <3>8. InHand(p)'
      BY <3>2, <3>5, <3>6, <3>7 DEF InHand
    <3>. QED  BY <3>1, <3>2, <3>5, <3>6, <3>8
  <2>3. CASE Verify(p) \/ SaveHash(p) \/ ClearHash(p)
    <3>. DEFINE z == [x EXCEPT !.pc = "save", !.text = host.file]
    <3>1. /\ Become(p, Idle) \/ Become(p, z)
          /\ host' = host /\ x.pc \in {"verify", "save"}
      BY <2>3 DEF Verify, SaveHash, ClearHash, disk
    <3>2. z.pc = "save" /\ z.bak = x.bak /\ z.kind = x.kind
      BY <1>1 DEF Fields
    <3>3. host.fd[p] = "none"
      BY <1>1, <3>1 DEF InHand
    <3>. HIDE DEF z
    <3>4. PICK y : /\ Become(p, y) /\ y.pc \in {"idle", "save"}
                   /\ y.pc = "idle" \/ (y.bak = x.bak /\ y.kind = x.kind)
      BY <3>1, <3>2, IdleShape
    <3>5. proc'[p] = y
      BY <3>4 DEF Become, TInv
    <3>6. InHand(p)'
      BY <3>1, <3>3, <3>4, <3>5 DEF InHand
    <3>. QED  BY <3>1, <3>4, <3>6
  <2>. QED  BY <2>1, <2>2, <2>3
<1>5. PICK y : /\ Become(p, y) /\ InHand(p)' /\ host'.file = host.file
               /\ y.pc = "idle" \/ (y.bak = x.bak /\ y.kind = x.kind)
               /\ \A q \in Procs \ {p} : host'.fd[q] = host.fd[q]
               /\ \/ y.pc \in {"idle", "save"}
                  \/ x.pc \in {"open", "fill"} /\ y.pc \in {"fill", "rename"} /\ y.text = x.text /\ y.kind = x.kind
  BY <1>4
<1>6. /\ Lone' /\ proc'[p] = y
      /\ ReachIn(p)' => \A q \in Procs : ReachIn(q)'
      /\ KeptIn(p)' => \A q \in Procs : KeptIn(q)'
  BY <1>1, <1>5, LoneStep
<1>9. PICK t, o : t = x.text /\ o = Own(x)
  OBVIOUS
<1>10. Own(y)' \in {o, Torn}
  BY <1>0, <1>5, <1>9, OwnStill DEF Busy
<1>7. Reach /\ format = "text" => ReachIn(p)'
  <2>. SUFFICES ASSUME ReachIn(p)
                PROVE  ReachIn(p)'
    BY <1>1
  <2>1. WrappedIn(Own(y))' \subseteq Marked
    BY <1>9, <1>10, TornKeeps DEF ReachIn, WrappedIn
  <2>. QED  BY <1>3, <1>5, <1>6, <2>1 DEF ReachIn, WrappedIn
<1>8. Kept => KeptIn(p)'
  <2>. SUFFICES ASSUME KeptIn(p)
                PROVE  KeptIn(p)'
    BY <1>1
  <2>1. /\ y.pc \in {"fill", "rename"} => Agrees(t) /\ (x.kind # "undo" => t # Torn /\ Serves(t))
        /\ Agrees(o) /\ (x.kind # "undo" /\ o # Torn => Serves(o))
    BY <1>5, <1>9 DEF KeptIn
  <2>2. /\ y.pc \in {"fill", "rename"} => Agrees(t)' /\ (x.kind # "undo" => t # Torn /\ Serves(t)')
        /\ Agrees(o)' /\ (x.kind # "undo" /\ o # Torn => Serves(o)')
    BY <1>0, <2>1, AgreesStill, ServesStill
  <2>3. y.kind # "undo" /\ Own(y)' # Torn => x.kind # "undo"
    BY <1>5 DEF Own
  <2>. QED  BY <1>5, <1>6, <1>9, <1>10, <2>2, <2>3, TornKeeps DEF KeptIn
<1>. QED  BY <1>0, <1>5, <1>6, <1>7, <1>8, KeepsFiles

(* A backup takes what was read.                                           *)
LEMMA KeepsBackup ==
  ASSUME TInv, Lone, NEW p \in Procs, Backup(p)
  PROVE  Keeps
<1>. DEFINE x == proc[p]
            c == x.read
            w == Wrapped(c, x.want)
<1>0. /\ Busy(p) /\ x.pc = "backup" /\ format' = format /\ host' = host /\ markers' = markers
      /\ wanted' = wanted /\ backups' = With(backups, now, c)
  BY DEF Backup, BackupOf, Busy
<1>1. /\ \A q \in Procs \ {p} : ~Busy(q) /\ host.fd[q] = "none"
      /\ DOMAIN x = Fields /\ InHand(p) /\ Sound(c)
      /\ Reach /\ format = "text" => ReachIn(p)
      /\ Kept => KeptIn(p)
  BY <1>0, LoneWork
<1>2. Newest' \in {c, Torn} /\ Marked' = Marked /\ now \in DOMAIN backups' /\ backups'[now] = c
  <2>1. DOMAIN backups' # {} /\ backups'[Max(DOMAIN backups')] = c
    BY <1>0, NowIsLatest, SoundHere
  <2>2. Newest' \in {c, Torn}
    BY <2>1 DEF Newest, Latest
  <2>. QED  BY <1>0, <2>2 DEF With, Marked
<1>3. ~CannotPatch(c, x.want) => c # Torn
  BY DEF CannotPatch, Unparsable
<1>4. \E y : /\ Become(p, y) /\ (y.pc # "idle" => c # Torn /\ y.bak = now)
             /\ \/ y.pc = "idle"
                \/ /\ y.pc = "markers" /\ y.read = c /\ y.want = x.want /\ y.text = w
                \/ /\ y.pc = "open" /\ y.text = w
                   /\ format = "text" => ToWrap(c, x.want) = {}
  <2>1. \/ Become(p, Idle)
        \/ /\ ~CannotPatch(c, x.want)
           /\ \/ Become(p, [x EXCEPT !.pc = "markers", !.text = w, !.bak = now])
              \/ /\ Become(p, [Idle EXCEPT !.pc = "open", !.text = w, !.bak = now])
                 /\ format = "text" => ToWrap(c, x.want) = {}
    BY DEF Backup
  <2>2. CASE Become(p, Idle)
    BY <2>2, IdleShape
  <2>3. CASE ~CannotPatch(c, x.want) /\ Become(p, [x EXCEPT !.pc = "markers", !.text = w, !.bak = now])
    <3>. DEFINE y == [x EXCEPT !.pc = "markers", !.text = w, !.bak = now]
    <3>1. y.pc = "markers" /\ y.read = c /\ y.want = x.want /\ y.text = w /\ y.bak = now
      BY <1>1 DEF Fields
    <3>2. Become(p, y)
      BY <2>3
    <3>. HIDE DEF y
    <3>. QED  BY <1>3, <2>3, <3>1, <3>2
  <2>4. CASE /\ ~CannotPatch(c, x.want) /\ Become(p, [Idle EXCEPT !.pc = "open", !.text = w, !.bak = now])
             /\ format = "text" => ToWrap(c, x.want) = {}
    <3>. DEFINE y == [Idle EXCEPT !.pc = "open", !.text = w, !.bak = now]
    <3>1. y.pc = "open" /\ y.text = w /\ y.bak = now
      BY IdleShape DEF Fields
    <3>2. Become(p, y)
      BY <2>4
    <3>. HIDE DEF y
    <3>. QED  BY <1>3, <2>4, <3>1, <3>2
  <2>. QED  BY <2>1, <2>2, <2>3, <2>4
<1>5. PICK y : /\ Become(p, y) /\ (y.pc # "idle" => c # Torn /\ y.bak = now)
               /\ \/ y.pc = "idle"
                  \/ /\ y.pc = "markers" /\ y.read = c /\ y.want = x.want /\ y.text = w
                  \/ /\ y.pc = "open" /\ y.text = w
                     /\ format = "text" => ToWrap(c, x.want) = {}
  BY <1>4
<1>6. proc'[p] = y
  BY <1>5 DEF Become, TInv
<1>. HIDE DEF w
<1>13. Own(y)' \in {c, Torn} /\ (y.pc # "idle" => Own(y)' = c)
  BY <1>2, <1>5 DEF Own
<1>7. InHand(p)'
  <2>1. host.fd[p] = "none"
    BY <1>0, <1>1 DEF InHand
  <2>2. y.pc = "markers" => y.text = Wrapped(y.read, y.want)'
    BY <1>0, <1>5, WrappedStill DEF w
  <2>3. y.pc = "markers" => Own(y)' = y.read /\ Newest' \in {Torn, y.read}
    BY <1>2, <1>5, <1>13
  <2>4. y.pc \in {"idle", "markers", "open"} /\ host'.fd[p] = "none"
    BY <1>0, <1>5, <2>1
  <2>. QED  BY <1>6, <2>2, <2>3, <2>4 DEF InHand
<1>8. /\ Lone'
      /\ ReachIn(p)' => \A q \in Procs : ReachIn(q)'
      /\ KeptIn(p)' => \A q \in Procs : KeptIn(q)'
  BY <1>0, <1>1, <1>5, <1>7, LoneStep
<1>9. format \in {"json", "text"}
  BY DEF TInv
<1>10. ASSUME Reach, format = "text"
       PROVE  Reach'
  <2>1. WrappedIn(c) \subseteq Marked /\ WrappedIn(host.file) \subseteq WrappedIn(c)
    BY <1>0, <1>1, <1>10 DEF ReachIn
  <2>2. y.pc = "open" => WrappedIn(w) \subseteq Marked
    BY <1>1, <1>5, <1>10, <2>1, WrapKeeps DEF w
  <2>3. ReachIn(p)'
    BY <1>0, <1>2, <1>5, <1>6, <1>13, <2>1, <2>2, TornKeeps DEF ReachIn, WrappedIn
  <2>4. (WrappedIn(host.file) \subseteq Marked)'
    BY <1>0, <1>2, <2>1 DEF WrappedIn
  <2>5. (WrappedIn(Newest) \subseteq Marked)'
    BY <1>2, <2>1, TornKeeps DEF WrappedIn
  <2>6. (\A q \in Procs : ReachIn(q))'
    BY <1>8, <2>3
  <2>. QED  BY <2>4, <2>5, <2>6 DEF Reach
<1>11. ASSUME Kept
       PROVE  Kept'
  <2>1. PICK f : f = host.file
    OBVIOUS
  <2>2. c = f /\ Agrees(f) /\ (f # Torn => Serves(f))
    BY <1>0, <1>1, <1>11, <2>1 DEF KeptIn, Kept
  <2>3. y.pc = "open" => Agrees(w) /\ w # Torn /\ Serves(w)
    BY <1>1, <1>5, <1>9, <2>2, WrapKeeps DEF w
  <2>4. PICK u : u = w
    OBVIOUS
  <2>5. /\ Agrees(f)' /\ (f # Torn => Serves(f)')
        /\ y.pc = "open" => Agrees(u)' /\ Serves(u)'
    BY <1>0, <2>2, <2>3, <2>4, AgreesStill, ServesStill
  <2>10. Agrees(Own(y))' /\ (Own(y)' # Torn => Serves(Own(y))')
    BY <1>13, <2>2, <2>5, TornKeeps
  <2>6. KeptIn(p)'
    BY <1>0, <1>5, <1>6, <2>1, <2>2, <2>3, <2>4, <2>5, <2>10 DEF KeptIn
  <2>7. (host.file # Torn => Serves(host.file))'
    BY <1>0, <2>1, <2>5
  <2>8. Agrees(host.file)' /\ Agrees(Newest)'
    BY <1>0, <1>2, <2>1, <2>2, <2>5, TornKeeps
  <2>9. (\A q \in Procs : KeptIn(q))'
    BY <1>8, <2>6
  <2>. QED  BY <2>7, <2>8, <2>9 DEF Kept
<1>12. Reach => Reach'
  BY <1>0, <1>10 DEF Reach
<1>. QED  BY <1>8, <1>11, <1>12 DEF Keeps

(* markers.json is written: if it named no other server that is wrapped,   *)
(* none is but those of this call, in the file as in the backup.           *)
LEMMA KeepsMarkers ==
  ASSUME TInv, Lone, NEW p \in Procs, WriteMarkers(p)
  PROVE  Keeps
<1>. DEFINE x == proc[p]
            c == x.read
            wraps == ToWrap(c, x.want)
            z == [Idle EXCEPT !.pc = "open", !.text = x.text, !.bak = x.bak]
<1>0. /\ Busy(p) /\ x.pc = "markers" /\ format' = format /\ host' = host /\ backups' = backups
      /\ wanted' = wanted /\ markers' = [s \in wraps |-> Original(c[s])] /\ Become(p, z)
      /\ excused \subseteq excused'
      /\ {e \in {"overwritten"} : \E s \in DOMAIN c \ wraps : c[s].depth > 0} \subseteq excused'
  BY DEF WriteMarkers, Busy
<1>1. /\ \A q \in Procs \ {p} : ~Busy(q) /\ host.fd[q] = "none"
      /\ Sound(c) /\ c # Torn /\ format = "text" /\ InHand(p)
      /\ Reach => ReachIn(p)
      /\ Kept => KeptIn(p)
  BY <1>0, LoneWork
<1>2. /\ Own(x) = c /\ Newest \in {Torn, c}
      /\ x.text = Wrapped(c, x.want) /\ host.fd[p] = "none"
  BY <1>0, <1>1 DEF InHand
<1>12. z.pc = "open" /\ z.text = x.text /\ z.kind = "patch" /\ z.bak = x.bak
  BY IdleShape DEF Fields, Idle
<1>. HIDE DEF z, wraps
<1>3. PICK y : Become(p, y) /\ y.pc = "open" /\ y.text = x.text /\ y.kind = "patch" /\ y.bak = x.bak
  BY <1>0, <1>12
<1>4. proc'[p] = y
  BY <1>3 DEF Become, TInv
<1>5. InHand(p)'
  BY <1>0, <1>2, <1>3, <1>4 DEF InHand
<1>6. /\ Lone'
      /\ ReachIn(p)' => \A q \in Procs : ReachIn(q)'
      /\ KeptIn(p)' => \A q \in Procs : KeptIn(q)'
  BY <1>0, <1>1, <1>3, <1>5, LoneStep
<1>7. /\ wraps \subseteq DOMAIN c /\ DOMAIN c \subseteq Servers
      /\ \A s \in wraps : ~(c[s].depth > 0)
  BY <1>1 DEF wraps, ToWrap, Managed, Sound, Content
<1>8. DOMAIN markers' = wraps /\ \A s \in wraps : markers'[s] = Original(c[s])
  BY <1>0
<1>9. Newest' \in {Torn, c} /\ Own(y)' \in {Torn, c}
  BY <1>0, <1>2, <1>3, NewestStill, OwnStill DEF Busy
<1>10. ASSUME Reach, ~NoReach'
       PROVE  Reach'
  <2>1. WrappedIn(c) = {}
    BY <1>0, <1>1, <1>7, <1>10 DEF NoReach, WrappedIn
  <2>2. WrappedIn(host.file) = {} /\ WrappedIn(x.text) \subseteq wraps
    <3>1. WrappedIn(host.file) \subseteq WrappedIn(c)
      BY <1>0, <1>1, <1>10 DEF ReachIn
    <3>2. WrappedIn(x.text) \subseteq WrappedIn(c) \cup wraps
      BY <1>1, <1>2, WrapKeeps DEF wraps
    <3>. QED  BY <2>1, <3>1, <3>2
  <2>3. Marked' = wraps
    <3>1. markers' # None /\ markers' # Torn
      BY <1>7, <1>8, HostConstantsOK DEF None, Torn
    <3>. QED  BY <1>8, <3>1 DEF Marked
  <2>4. WrappedIn(x.text) \subseteq Marked'
    BY <2>2, <2>3
  <2>5. ReachIn(p)'
    BY <1>3, <1>4, <1>9, <2>1, <2>4, TornKeeps DEF ReachIn, WrappedIn
  <2>6. (WrappedIn(host.file) \subseteq Marked)'
    BY <1>0, <2>2 DEF WrappedIn
  <2>7. (WrappedIn(Newest) \subseteq Marked)'
    BY <1>9, <2>1, TornKeeps DEF WrappedIn
  <2>8. (\A q \in Procs : ReachIn(q))'
    BY <1>6, <2>5
  <2>. QED  BY <2>6, <2>7, <2>8 DEF Reach
<1>11. ASSUME Kept
       PROVE  Kept'
  <2>1. c = host.file /\ Serves(c)
    BY <1>0, <1>1, <1>11 DEF KeptIn, Kept
  <2>2. Serves(x.text) /\ x.text # Torn
    BY <1>1, <1>2, <2>1, WrapKeeps
  <2>3. DOMAIN x.text = DOMAIN c /\ \A s \in DOMAIN c : x.text[s].cmd = c[s].cmd
    BY <1>1, <1>2, WrapKeeps
  <2>4. ASSUME NEW f, DOMAIN f = DOMAIN c, \A s \in DOMAIN c : f[s].cmd = c[s].cmd
        PROVE  Agrees(f)'
    <3>. SUFFICES ASSUME NEW s \in DOMAIN c, MarkOf(f, s)' # None
                  PROVE  MarkOf(f, s)'.cmd = f[s].cmd
      BY <2>4 DEF Agrees
    <3>1. s \in wraps /\ MarkOf(f, s)' = Original(c[s])
      BY <1>0, <1>1, <1>8 DEF MarkOf
    <3>2. Original(c[s]).cmd = c[s].cmd
      BY <1>1 DEF Original, Command
    <3>. QED  BY <2>4, <3>1, <3>2
  <2>5. PICK f, t : f = c /\ t = x.text
    OBVIOUS
  <2>6. Agrees(f)' /\ Agrees(t)' /\ Serves(f)' /\ Serves(t)'
    BY <1>0, <2>1, <2>2, <2>3, <2>4, <2>5, ServesStill
  <2>7. KeptIn(p)'
    BY <1>0, <1>3, <1>4, <1>9, <2>1, <2>2, <2>5, <2>6, TornKeeps DEF KeptIn
  <2>8. (host.file # Torn => Serves(host.file))'
    BY <1>0, <2>1, <2>5, <2>6
  <2>9. Agrees(host.file)' /\ Agrees(Newest)'
    BY <1>0, <1>9, <2>1, <2>5, <2>6, TornKeeps
  <2>10. (\A q \in Procs : KeptIn(q))'
    BY <1>6, <2>7
  <2>. QED  BY <2>8, <2>9, <2>10 DEF Kept
<1>. QED  BY <1>6, <1>10, <1>11 DEF Keeps

(* The new text becomes the file.                                          *)
LEMMA KeepsRename ==
  ASSUME TInv, Lone, NEW p \in Procs, Rename(p)
  PROVE  Keeps
<1>. DEFINE x == proc[p]
<1>0. /\ Busy(p) /\ x.pc = "rename" /\ format' = format /\ backups' = backups /\ markers' = markers
      /\ excused' = excused /\ (x.kind # "undo" => wanted' = wanted)
  BY DEF Rename, Busy
<1>1. /\ \A q \in Procs \ {p} : ~Busy(q) /\ host.fd[q] = "none"
      /\ DOMAIN x = Fields /\ Sound(x.text) /\ InHand(p)
      /\ Reach /\ format = "text" => ReachIn(p)
      /\ Kept => KeptIn(p)
  BY <1>0, LoneWork
<1>2. host.fd[p] = "none" /\ host.tmp = x.text
  BY <1>0, <1>1 DEF InHand
<1>3. \E y : /\ Become(p, y) /\ y.pc \in {"idle", "save", "verify"}
             /\ y.pc # "idle" => y.kind = x.kind /\ y.bak = x.bak
             /\ y.pc = "verify" => y.kind # "undo"
  <2>. DEFINE pc == IF x.kind = "undo" THEN "save" ELSE "verify"
              y == [x EXCEPT !.text = Torn, !.pc = pc]
  <2>1. Become(p, Idle) \/ Become(p, y)
    BY DEF Rename
  <2>2. y.pc = pc /\ y.kind = x.kind /\ y.bak = x.bak
    BY <1>1 DEF Fields
  <2>. HIDE DEF y
  <2>. QED  BY <2>1, <2>2, IdleShape
<1>4. PICK y : /\ Become(p, y) /\ y.pc \in {"idle", "save", "verify"}
               /\ y.pc # "idle" => y.kind = x.kind /\ y.bak = x.bak
               /\ y.pc = "verify" => y.kind # "undo"
  BY <1>3
<1>5. proc'[p] = y
  BY <1>4 DEF Become, TInv
<1>6. DOMAIN host.fd = Procs
  BY DEF TInv
<1>7. \A q \in Procs : host'.fd[q] = "none"
  <2>1. \A q \in Procs : host.fd[q] = "none"
    BY <1>1, <1>2
  <2>2. host' = host \/ host' = RenameTmp(host)
    BY DEF Rename
  <2>. QED  BY <1>6, <2>1, <2>2 DEF RenameTmp
<1>8. InHand(p)'
  BY <1>4, <1>5, <1>7 DEF InHand
<1>9. /\ Lone'
      /\ ReachIn(p)' => \A q \in Procs : ReachIn(q)'
      /\ KeptIn(p)' => \A q \in Procs : KeptIn(q)'
  BY <1>1, <1>4, <1>7, <1>8, LoneStep
<1>14. PICK o, l : o = Own(x) /\ l = Newest
  OBVIOUS
<1>15. /\ Own(y)' \in {o, Torn} /\ (y.pc = "idle" => Own(y)' = Torn)
       /\ Newest' \in {l, Torn} /\ Marked' = Marked
  <2>1. y.pc = "idle" => Own(y)' = Torn
    BY DEF Own
  <2>2. Own(y)' \in {o, Torn}
    BY <1>0, <1>4, <1>14, OwnStill DEF Busy
  <2>. QED  BY <1>0, <1>14, <2>1, <2>2, NewestStill DEF Marked
<1>10. Reach /\ format = "text" => ReachIn(p)'
  <2>. SUFFICES ASSUME ReachIn(p)
                PROVE  ReachIn(p)'
    BY <1>1
  <2>. QED  BY <1>4, <1>5, <1>14, <1>15, TornKeeps DEF ReachIn, WrappedIn
<1>16. Kept => KeptIn(p)'
  <2>. SUFFICES ASSUME KeptIn(p)
                PROVE  KeptIn(p)'
    BY <1>1
  <2>1. Agrees(o) /\ (x.kind # "undo" /\ o # Torn => Serves(o))
    BY <1>14 DEF KeptIn
  <2>2. Agrees(o)' /\ (x.kind # "undo" /\ o # Torn => Serves(o)')
    BY <1>0, <2>1, AgreesStill, ServesStill
  <2>. QED  BY <1>4, <1>5, <1>15, <2>2, TornKeeps DEF KeptIn
<1>11. /\ Reach /\ format = "text" => (\A q \in Procs : ReachIn(q))'
       /\ Kept => (\A q \in Procs : KeptIn(q))'
  BY <1>9, <1>10, <1>16
<1>12. CASE host' = host /\ wanted' = wanted
  BY <1>0, <1>9, <1>11, <1>12, KeepsFiles
<1>13. CASE /\ host' = RenameTmp(host)
            /\ wanted' = IF x.kind = "undo" /\ host.tmp # Torn
                         THEN [s \in DOMAIN host.tmp |-> host.tmp[s].cmd] ELSE wanted
  <2>1. host'.file = x.text
    BY <1>2, <1>13 DEF RenameTmp
  <2>3. ASSUME Reach, format = "text"
        PROVE  Reach'
    <3>1. WrappedIn(x.text) \subseteq Marked /\ WrappedIn(l) \subseteq Marked
      BY <1>0, <1>1, <1>14, <2>3 DEF ReachIn, Reach
    <3>2. (WrappedIn(host.file) \subseteq Marked)'
      BY <1>15, <2>1, <3>1 DEF WrappedIn
    <3>3. (WrappedIn(Newest) \subseteq Marked)'
      BY <1>15, <3>1, TornKeeps DEF WrappedIn
    <3>4. (\A q \in Procs : ReachIn(q))'
      BY <1>11, <2>3
    <3>. QED  BY <3>2, <3>3, <3>4 DEF Reach
  <2>4. ASSUME Kept
        PROVE  Kept'
    <3>1. PICK t : t = x.text
      OBVIOUS
    <3>2. Agrees(t) /\ Agrees(l) /\ (x.kind # "undo" => t # Torn /\ Serves(t))
      BY <1>0, <1>1, <1>14, <2>4, <3>1 DEF KeptIn, Kept
    <3>3. Agrees(t)' /\ Agrees(l)'
      BY <1>0, <3>2, AgreesStill
    <3>4. t # Torn => Serves(t)'
      <4>1. CASE x.kind = "undo"
        BY <1>2, <1>13, <3>1, <4>1 DEF Serves
      <4>2. CASE x.kind # "undo"
        BY <1>0, <3>2, <4>2, ServesStill
      <4>. QED  BY <4>1, <4>2
    <3>5. (host.file # Torn => Serves(host.file))'
      BY <2>1, <3>1, <3>4
    <3>6. Agrees(host.file)' /\ Agrees(Newest)'
      BY <1>15, <2>1, <3>1, <3>3, TornKeeps
    <3>7. (\A q \in Procs : KeptIn(q))'
      BY <1>11, <2>4
    <3>. QED  BY <3>5, <3>6, <3>7 DEF Kept
  <2>5. Reach => Reach'
    BY <1>0, <2>3 DEF Reach
  <2>. QED  BY <1>9, <2>4, <2>5 DEF Keeps
<1>. QED  BY <1>12, <1>13 DEF Rename

(* A command is killed: its last backup may be torn, and its markers.      *)
LEMMA KeepsCrash ==
  ASSUME TInv, Lone, NEW p \in Procs, Crash(p)
  PROVE  Keeps
<1>0. /\ Busy(p) /\ format' = format /\ host' = ShutTmp(host, p) /\ wanted' = wanted
      /\ Become(p, Idle) /\ (backups' = backups \/ backups' = With(backups, now, Torn))
      /\ markers' = markers \/ markers' = Torn
      /\ excused \subseteq excused'
      /\ {e \in {"tornMarkers"} : markers' # markers} \subseteq excused'
      /\ markers' # markers => proc[p].pc = "markers"
  BY DEF Crash
<1>1. /\ \A q \in Procs \ {p} : ~Busy(q) /\ host.fd[q] = "none"
      /\ proc[p].pc = "markers" => format = "text"
  BY <1>0, LoneWork
<1>2. proc'[p] = Idle
  BY <1>0 DEF Become, TInv
<1>3. host'.file = host.file /\ \A q \in Procs : host'.fd[q] = "none"
  <2>1. host'.file = host.file /\ host'.fd = [host.fd EXCEPT ![p] = "none"]
    BY <1>0 DEF ShutTmp, TInv
  <2>. QED  BY <1>1, <2>1 DEF TInv
<1>4. InHand(p)'
  BY <1>2, <1>3, IdleShape DEF InHand
<1>5. /\ Lone'
      /\ ReachIn(p)' => \A q \in Procs : ReachIn(q)'
      /\ KeptIn(p)' => \A q \in Procs : KeptIn(q)'
  BY <1>0, <1>1, <1>3, <1>4, LoneStep
<1>6. (\A q \in Procs : ReachIn(q))' /\ (\A q \in Procs : KeptIn(q))'
  <2>1. Own(Idle)' = Torn
    BY IdleShape DEF Own
  <2>2. ReachIn(p)' /\ KeptIn(p)'
    BY <1>2, <2>1, IdleShape, TornKeeps DEF ReachIn, KeptIn, WrappedIn
  <2>. QED  BY <1>5, <2>2
<1>7. Newest' \in {Newest, Torn}
  <2>1. CASE backups' = backups
    BY <1>0, <2>1, NewestStill
  <2>2. CASE backups' = With(backups, now, Torn)
    <3>1. backups'[Max(DOMAIN backups')] = Torn
      BY <2>2, NowIsLatest, SoundHere
    <3>. QED  BY <3>1 DEF Newest, Latest
  <2>. QED  BY <1>0, <2>1, <2>2
<1>8. ASSUME Reach, format = "text", ~NoReach'
      PROVE  Reach'
  <2>1. markers' = markers /\ Marked' = Marked
    BY <1>0, <1>8 DEF NoReach, Marked
  <2>2. (WrappedIn(host.file) \subseteq Marked)'
    BY <1>3, <1>8, <2>1 DEF Reach, WrappedIn
  <2>3. WrappedIn(Newest) \subseteq Marked
    BY <1>8 DEF Reach
  <2>4. (WrappedIn(Newest) \subseteq Marked)'
    BY <1>7, <2>1, <2>3, TornKeeps DEF WrappedIn
  <2>. QED  BY <1>6, <2>2, <2>4 DEF Reach
<1>9. ASSUME Kept
      PROVE  Kept'
  <2>1. ASSUME NEW c, Agrees(c)
        PROVE  Agrees(c)'
    <3>1. CASE markers' = markers
      BY <1>0, <2>1, <3>1, AgreesStill
    <3>2. CASE markers' # markers
      BY <1>0, <1>1, <3>2 DEF Agrees, CannotUnpatch
    <3>. QED  BY <3>1, <3>2
  <2>3. PICK f, l : f = host.file /\ l = Newest
    OBVIOUS
  <2>4. Agrees(f)' /\ Agrees(l)' /\ (f # Torn => Serves(f)')
    BY <1>0, <1>9, <2>1, <2>3, ServesStill DEF Kept
  <2>5. Agrees(host.file)' /\ Agrees(Newest)'
    BY <1>3, <1>7, <2>3, <2>4, TornKeeps
  <2>6. (host.file # Torn => Serves(host.file))'
    BY <1>3, <2>3, <2>4
  <2>. QED  BY <1>6, <2>5, <2>6 DEF Kept
<1>10. Reach => NoReach' \/ Reach'
  BY <1>0, <1>8 DEF Reach
<1>. QED  BY <1>5, <1>9, <1>10 DEF Keeps

(* The backup is put back over a file that cannot be read: it is what the  *)
(* patch read.                                                             *)
LEMMA KeepsVerifyFails ==
  ASSUME TInv, Lone, NEW p \in Procs, VerifyFails(p)
  PROVE  Keeps
<1>. DEFINE x == proc[p]
<1>0. /\ Busy(p) /\ x.pc = "verify" /\ format' = format /\ markers' = markers /\ wanted' = wanted
      /\ Become(p, Idle) /\ "unverified" \in excused'
      /\ \/ host' = host
         \/ x.bak \in DOMAIN backups /\ host' = ReplaceFile(host, backups[x.bak])
  BY DEF VerifyFails, Busy
<1>1. /\ \A q \in Procs \ {p} : ~Busy(q) /\ host.fd[q] = "none"
      /\ InHand(p)
      /\ Reach /\ format = "text" => ReachIn(p)
      /\ Kept => KeptIn(p)
  BY <1>0, LoneWork
<1>2. proc'[p] = Idle
  BY <1>0 DEF Become, TInv
<1>3. host.fd[p] = "none" /\ x.kind # "undo"
  BY <1>0, <1>1 DEF InHand
<1>4. PICK o : o = Own(x)
  OBVIOUS
<1>5. host'.file \in {host.file, o} /\ \A q \in Procs : host'.fd[q] = "none"
  <2>1. CASE host' = host
    BY <1>1, <1>3, <2>1
  <2>2. CASE x.bak \in DOMAIN backups /\ host' = ReplaceFile(host, backups[x.bak])
    <3>1. o = backups[x.bak]
      BY <1>0, <1>4, <2>2 DEF Own
    <3>2. DOMAIN host.fd = Procs
      BY DEF TInv
    <3>. QED  BY <1>1, <1>3, <2>2, <3>1, <3>2 DEF ReplaceFile
  <2>. QED  BY <1>0, <2>1, <2>2
<1>6. InHand(p)'
  BY <1>2, <1>5, IdleShape DEF InHand
<1>7. /\ Lone'
      /\ ReachIn(p)' => \A q \in Procs : ReachIn(q)'
      /\ KeptIn(p)' => \A q \in Procs : KeptIn(q)'
  BY <1>0, <1>1, <1>5, <1>6, LoneStep
<1>8. (\A q \in Procs : ReachIn(q))' /\ (\A q \in Procs : KeptIn(q))'
  <2>1. Own(Idle)' = Torn
    BY IdleShape DEF Own
  <2>2. ReachIn(p)' /\ KeptIn(p)'
    BY <1>2, <2>1, IdleShape, TornKeeps DEF ReachIn, KeptIn, WrappedIn
  <2>. QED  BY <1>7, <2>2
<1>9. Newest' = Torn /\ Marked' = Marked
  BY <1>0 DEF Newest, Marked
<1>10. ASSUME Reach, format = "text"
       PROVE  Reach'
  <2>1. WrappedIn(host.file) \subseteq Marked /\ WrappedIn(o) \subseteq Marked
    BY <1>1, <1>4, <1>10 DEF Reach, ReachIn
  <2>2. (WrappedIn(host.file) \subseteq Marked)'
    BY <1>5, <1>9, <2>1 DEF WrappedIn
  <2>3. (WrappedIn(Newest) \subseteq Marked)'
    BY <1>9, TornKeeps DEF WrappedIn
  <2>. QED  BY <1>8, <2>2, <2>3 DEF Reach
<1>11. ASSUME Kept
       PROVE  Kept'
  <2>1. PICK f : f = host.file
    OBVIOUS
  <2>2. Agrees(f) /\ Agrees(o) /\ (f # Torn => Serves(f)) /\ (o # Torn => Serves(o))
    BY <1>1, <1>3, <1>4, <1>11, <2>1 DEF Kept, KeptIn
  <2>3. Agrees(f)' /\ Agrees(o)' /\ (f # Torn => Serves(f)') /\ (o # Torn => Serves(o)')
    BY <1>0, <2>2, AgreesStill, ServesStill
  <2>4. (host.file # Torn => Serves(host.file))' /\ Agrees(host.file)'
    BY <1>5, <2>1, <2>3
  <2>5. Agrees(Newest)'
    BY <1>9, TornKeeps
  <2>. QED  BY <1>8, <2>4, <2>5 DEF Kept
<1>12. Reach => Reach'
  BY <1>0, <1>10 DEF Reach
<1>. QED  BY <1>7, <1>11, <1>12 DEF Keeps

(* The user edits: it wraps nothing, and where it can go wrong is an       *)
(* excuse.                                                                 *)
LEMMA KeepsEdit ==
  ASSUME TInv, Lone, NEW s \in Servers, Rewrite(s) \/ Remove(s) \/ EditWrapped(s) \/ Strip(s)
  PROVE  Keeps
<1>. DEFINE c == host.file
<1>0. \E text, why : Edit(s, text, why)
  BY DEF Rewrite, Remove, EditWrapped, Strip
<1>1. /\ c # Torn /\ format' = format /\ backups' = backups /\ markers' = markers /\ proc' = proc
      /\ excused \subseteq excused'
      /\ {e \in {"raced"} : \E p \in Procs : Busy(p)} \subseteq excused'
      /\ {e \in {"marked"} : format = "text" /\ markers \notin {None, Torn} /\ s \in DOMAIN markers} \subseteq excused'
      /\ \E text : host' = [host EXCEPT !.file = text]
  BY <1>0 DEF Edit
<1>2. Content(c)
  BY <1>1 DEF TInv, Sound
<1>3. host'.tmp = host.tmp /\ host'.fd = host.fd
  BY <1>1 DEF TInv
<1>4. Newest' \in {Newest, Torn} /\ Marked' = Marked /\ \A x : Own(x)' = Own(x)
  BY <1>1, NewestStill DEF Marked, Own
<1>5. Lone'
  <2>1. \A p \in Procs : InHand(p)'
    BY <1>1, <1>3, HandStill DEF Lone
  <2>. QED  BY <1>1, <2>1 DEF Lone, Busy
<1>6. PICK f : f = host'.file
  OBVIOUS
<1>7. /\ DOMAIN f \subseteq Servers
      /\ \A t \in DOMAIN f \ {s} : t \in DOMAIN c /\ f[t] = c[t]
      /\ s \in DOMAIN f =>
           \/ "marked" \in excused' /\ s \in DOMAIN c /\ f[s].depth = c[s].depth
           \/ f[s].mark = None /\ (f[s].depth = 0 \/ "stripped" \in excused')
      /\ "marked" \in excused' \/ (Serves(c) => Serves(f)')
  <2>1. CASE Rewrite(s)
    <3>1. PICK r \in Cmds : Edit(s, With(c, s, Plain(r)), {}) /\ wanted' = With(wanted, s, r)
      BY <2>1 DEF Rewrite
    <3>2. f = With(c, s, Plain(r))
      BY <1>6, <3>1 DEF Edit, TInv
    <3>3. /\ DOMAIN f = DOMAIN c \cup {s} /\ f[s] = Plain(r)
          /\ \A t \in DOMAIN f \ {s} : t \in DOMAIN c /\ f[t] = c[t]
      BY <3>2 DEF With
    <3>4. Serves(c) => Serves(f)'
      <4>1. SUFFICES ASSUME Serves(c)
                     PROVE  Serves(f)'
        OBVIOUS
      <4>2. DOMAIN wanted = DOMAIN c
        BY <4>1 DEF Serves
      <4>3. /\ DOMAIN wanted' = DOMAIN f /\ (s \in DOMAIN f => wanted'[s] = r)
            /\ \A t \in DOMAIN f \ {s} : wanted'[t] = wanted[t]
        BY <3>1, <3>3, <4>2 DEF With
      <4>4. f[s].cmd = r
        BY <3>3 DEF Plain
      <4>. QED  BY <1>1, <3>3, <4>1, <4>3, <4>4 DEF Serves
    <3>5. DOMAIN f \subseteq Servers
      BY <1>2, <3>3 DEF Content
    <3>6. f[s].mark = None /\ f[s].depth = 0
      BY <3>3 DEF Plain
    <3>. QED  BY <3>3, <3>4, <3>5, <3>6
  <2>2. CASE Remove(s)
    <3>1. Edit(s, [t \in DOMAIN c \ {s} |-> c[t]], {}) /\ wanted' = [t \in DOMAIN wanted \ {s} |-> wanted[t]]
      BY <2>2 DEF Remove
    <3>2. f = [t \in DOMAIN c \ {s} |-> c[t]]
      BY <1>6, <3>1 DEF Edit, TInv
    <3>3. Serves(c) => Serves(f)'
      BY <1>1, <3>1, <3>2 DEF Serves
    <3>. QED  BY <1>2, <3>2, <3>3 DEF Content
  <2>3. CASE EditWrapped(s)
    <3>1. PICK r \in Cmds \ Remote : Edit(s, [c EXCEPT ![s].cmd = r], {"marked"})
      BY <2>3 DEF EditWrapped
    <3>2. f = [c EXCEPT ![s].cmd = r] /\ s \in DOMAIN c
      BY <1>6, <2>3, <3>1 DEF Edit, TInv, EditWrapped
    <3>3. DOMAIN f = DOMAIN c /\ f[s] = [c[s] EXCEPT !.cmd = r] /\ \A t \in DOMAIN c \ {s} : f[t] = c[t]
      BY <3>2
    <3>4. f[s].depth = c[s].depth
      BY <1>2, <3>2, <3>3 DEF Content, Entry
    <3>5. "marked" \in excused'
      BY <3>1 DEF Edit
    <3>6. DOMAIN f \subseteq Servers
      BY <1>2, <3>3 DEF Content
    <3>7. s \in DOMAIN c
      BY <3>2
    <3>8. \A t \in DOMAIN f \ {s} : t \in DOMAIN c /\ f[t] = c[t]
      BY <3>3
    <3>. QED  BY <3>4, <3>5, <3>6, <3>7, <3>8
  <2>4. CASE Strip(s)
    <3>1. Edit(s, [c EXCEPT ![s].mark = None], {"stripped"}) /\ s \in DOMAIN c /\ wanted' = wanted
      BY <2>4 DEF Strip
    <3>2. f = [c EXCEPT ![s].mark = None]
      BY <1>6, <3>1 DEF Edit, TInv
    <3>3. DOMAIN f = DOMAIN c /\ f[s] = [c[s] EXCEPT !.mark = None] /\ \A t \in DOMAIN c \ {s} : f[t] = c[t]
      BY <3>1, <3>2
    <3>4. f[s].mark = None /\ f[s].cmd = c[s].cmd
      BY <1>2, <3>1, <3>3 DEF Content, Entry
    <3>5. "stripped" \in excused'
      BY <3>1 DEF Edit
    <3>6. Serves(c) => Serves(f)'
      <4>1. \A t \in DOMAIN c : f[t].cmd = c[t].cmd
        BY <3>3, <3>4
      <4>. QED  BY <1>1, <3>1, <3>3, <4>1 DEF Serves
    <3>. QED  BY <1>2, <3>1, <3>3, <3>4, <3>5, <3>6 DEF Content
  <2>. QED  BY <2>1, <2>2, <2>3, <2>4
<1>8. ASSUME Reach, format = "text", ~NoReach'
      PROVE  Reach'
  <2>1. WrappedIn(f) \subseteq WrappedIn(c)
    BY <1>1, <1>7, <1>8 DEF WrappedIn, NoReach
  <2>2. (WrappedIn(host.file) \subseteq Marked)'
    BY <1>4, <1>6, <1>8, <2>1 DEF Reach, WrappedIn
  <2>3. (WrappedIn(Newest) \subseteq Marked)'
    <3>1. WrappedIn(Newest) \subseteq Marked
      BY <1>8 DEF Reach
    <3>. QED  BY <1>4, <3>1, TornKeeps DEF WrappedIn
  <2>4. (\A p \in Procs : ReachIn(p))'
    <3>. SUFFICES ASSUME NEW p \in Procs
                  PROVE  ReachIn(p)'
      OBVIOUS
    <3>1. WrappedIn(host.file)' \subseteq WrappedIn(host.file)
      BY <1>6, <2>1 DEF WrappedIn
    <3>2. /\ WrappedIn(proc[p].read)' = WrappedIn(proc[p].read)
          /\ WrappedIn(proc[p].text)' = WrappedIn(proc[p].text)
          /\ WrappedIn(Own(proc[p]))' = WrappedIn(Own(proc[p]))
      BY <1>1, <1>4 DEF WrappedIn
    <3>3. ReachIn(p)
      BY <1>8 DEF Reach
    <3>. QED  BY <1>1, <1>4, <3>1, <3>2, <3>3 DEF ReachIn
  <2>. QED  BY <2>2, <2>3, <2>4 DEF Reach
<1>9. ASSUME Kept, ~NotKept'
      PROVE  Kept'
  <2>1. "marked" \notin excused' /\ \A p \in Procs : proc'[p].pc = "idle"
    BY <1>1, <1>9 DEF NotKept, Busy
  <2>2. Serves(f)'
    BY <1>1, <1>7, <1>9, <2>1 DEF Kept
  <2>3. Agrees(f)'
    <3>. SUFFICES ASSUME ~CannotUnpatch(f)', NEW t \in DOMAIN f, MarkOf(f, t)' # None
                  PROVE  MarkOf(f, t)'.cmd = f[t].cmd
      BY DEF Agrees
    <3>1. ~CannotUnpatch(c)
      BY <1>1 DEF CannotUnpatch
    <3>2. t # s
      <4>1. SUFFICES ASSUME t = s
                     PROVE  MarkOf(f, t)' = None
        OBVIOUS
      <4>2. f[s].mark = None
        BY <1>7, <2>1, <4>1
      <4>3. CASE format = "json"
        BY <1>1, <4>1, <4>2, <4>3 DEF MarkOf
      <4>4. CASE format = "text"
        <5>1. s \notin DOMAIN markers
          BY <1>1, <2>1, <3>1, <4>4 DEF CannotUnpatch
        <5>. QED  BY <1>1, <4>1, <4>4, <5>1 DEF MarkOf
      <4>. QED  BY <4>3, <4>4 DEF TInv
    <3>3. t \in DOMAIN c /\ f[t] = c[t]
      BY <1>7, <3>2
    <3>4. MarkOf(f, t)' = MarkOf(c, t)
      BY <1>1, <3>3 DEF MarkOf
    <3>. QED  BY <1>9, <3>1, <3>3, <3>4 DEF Kept, Agrees
  <2>4. Agrees(Newest)'
    <3>1. PICK l : l = Newest
      OBVIOUS
    <3>2. Agrees(l)'
      BY <1>1, <1>9, <3>1, AgreesStill DEF Kept
    <3>. QED  BY <1>4, <3>1, <3>2, TornKeeps
  <2>5. (host.file # Torn => Serves(host.file))'
    BY <1>6, <2>2
  <2>6. Agrees(host.file)'
    BY <1>6, <2>3
  <2>7. (\A p \in Procs : KeptIn(p))'
    <3>1. \A p \in Procs : Own(proc[p])' = Torn
      BY <2>1 DEF Own
    <3>. QED  BY <2>1, <3>1, TornKeeps DEF KeptIn
  <2>. QED  BY <2>4, <2>5, <2>6, <2>7 DEF Kept
<1>10. Reach => NoReach' \/ Reach'
  BY <1>1, <1>8 DEF Reach
<1>. QED  BY <1>5, <1>9, <1>10 DEF Keeps

HInv == LInv /\ RInv /\ KInv

LEMMA StillKept ==
  ASSUME TInv, HInv, [Next]_vars
  PROVE  HInv'
<1>1. CASE UNCHANGED vars
  <2>1. Newest' = Newest /\ Marked' = Marked /\ \A x : Own(x)' = Own(x)
    BY <1>1 DEF vars, Newest, Latest, Marked, Own
  <2>2. \A p \in Procs : (InHand(p) => InHand(p)') /\ (ReachIn(p) <=> ReachIn(p)')
    <3>1. \A p \in Procs : InHand(p) => InHand(p)'
      BY <1>1, HandStill DEF vars
    <3>2. \A p \in Procs : ReachIn(p) <=> ReachIn(p)'
      BY <1>1, <2>1 DEF vars, ReachIn, WrappedIn
    <3>. QED  BY <3>1, <3>2
  <2>6. \A c : (Agrees(c) => Agrees(c)') /\ (Serves(c) => Serves(c)')
    BY <1>1, AgreesStill, ServesStill DEF vars
  <2>7. \A p \in Procs : KeptIn(p) => KeptIn(p)'
    BY <1>1, <2>1, <2>6 DEF vars, KeptIn
  <2>3. Lone => Lone'
    BY <1>1, <2>2 DEF vars, Lone, Busy
  <2>4. Reach => Reach'
    BY <1>1, <2>1, <2>2 DEF vars, Reach, WrappedIn
  <2>5. Kept => Kept'
    BY <1>1, <2>1, <2>6, <2>7 DEF vars, Kept
  <2>. QED  BY <1>1, <2>3, <2>4, <2>5 DEF vars, HInv, LInv, RInv, KInv, NoReach, NotKept
<1>2. CASE Next /\ "overlap" \in excused'
  BY <1>2 DEF HInv, LInv, RInv, KInv, NoReach, NotKept
<1>3. CASE Next /\ "overlap" \notin excused'
  <2>1. excused \subseteq excused'
    BY <1>3 DEF Next, Tick, Rewrite, Remove, EditWrapped, Strip, Edit, Patch, InitPatch, Unpatch, Undo,
                Backup, WriteMarkers, Open, Fill, Rename, Verify, VerifyFails, SaveHash, ClearHash, Crash
  <2>2. Lone
    BY <1>3, <2>1 DEF HInv, LInv
  <2>3. Keeps
    <3>1. CASE Tick
      <4>1. /\ Newest' = Newest /\ Marked' = Marked /\ proc' = proc /\ UNCHANGED disk /\ wanted' = wanted
            /\ excused' = excused /\ \A x : Own(x)' = Own(x)
        BY <3>1 DEF Tick, Newest, Latest, Marked, disk, Own
      <4>2. \A p \in Procs : InHand(p)'
        BY <2>2, <4>1, HandStill DEF Lone, disk
      <4>3. Lone'
        BY <2>2, <4>1, <4>2 DEF Lone, Busy
      <4>4. Reach /\ format = "text" => \A p \in Procs : ReachIn(p)'
        BY <4>1 DEF Reach, ReachIn, WrappedIn, disk
      <4>8. \A c : (Agrees(c) => Agrees(c)') /\ (Serves(c) => Serves(c)')
        BY <4>1, AgreesStill, ServesStill DEF disk
      <4>5. Kept => \A p \in Procs : KeptIn(p)'
        BY <4>1, <4>8 DEF Kept, KeptIn, disk
      <4>6. CASE \E p : p \in Procs
        BY <4>1, <4>3, <4>4, <4>5, <4>6, KeepsFiles DEF disk
      <4>7. CASE ~\E p : p \in Procs
        <5>1. Reach => Reach'
          BY <4>1, <4>7 DEF Reach, WrappedIn, disk
        <5>2. Kept => Kept'
          BY <4>1, <4>7, <4>8 DEF Kept, disk
        <5>. QED  BY <4>3, <5>1, <5>2 DEF Keeps
      <4>. QED  BY <4>6, <4>7
    <3>2. CASE \E s \in Servers : Rewrite(s) \/ Remove(s) \/ EditWrapped(s) \/ Strip(s)
      BY <2>2, <3>2, KeepsEdit
    <3>3. ASSUME NEW p \in Procs,
                 \/ \E want \in SUBSET Servers \ {{}}, force \in BOOLEAN : Patch(p, want, force)
                 \/ InitPatch(p) \/ Unpatch(p) \/ Undo(p)
          PROVE  Keeps
      BY <1>3, <2>2, <3>3, KeepsBegin DEF InitPatch
    <3>4. ASSUME NEW p \in Procs,
                 \/ Backup(p) \/ WriteMarkers(p) \/ Open(p) \/ Fill(p) \/ Rename(p) \/ Verify(p)
                 \/ VerifyFails(p) \/ SaveHash(p) \/ ClearHash(p) \/ Crash(p)
          PROVE  Keeps
      BY <2>2, <3>4, KeepsBackup, KeepsMarkers, KeepsFill, KeepsRename, KeepsVerifyFails, KeepsCrash
    <3>. QED  BY <1>3, <3>1, <3>2, <3>3, <3>4 DEF Next
  <2>. QED  BY <2>1, <2>3 DEF Keeps, HInv, LInv, RInv, KInv, NoReach, NotKept
<1>. QED  BY <1>1, <1>2, <1>3

LEMMA AlwaysKept == Spec => []HInv
<1>1. Init => HInv
  <2>. SUFFICES ASSUME Init
                PROVE  Lone /\ Reach /\ Kept
    BY DEF HInv, LInv, RInv, KInv
  <2>1. PICK on \in SUBSET Servers, c \in Cmds :
          /\ host = Files([s \in on |-> Plain(c)], Procs) /\ wanted = [s \in on |-> c]
    BY DEF Init
  <2>2. host.file = [s \in on |-> Plain(c)] /\ \A p \in Procs : host.fd[p] = "none"
    BY <2>1 DEF Files
  <2>3. \A p \in Procs : proc[p].pc = "idle"
    BY IdleShape DEF Init
  <2>4. DOMAIN backups = {} /\ markers = None
    BY DEF Init
  <2>10. Newest = Torn /\ (\A p \in Procs : Own(proc[p]) = Torn)
    BY <2>3, <2>4 DEF Newest, Own
  <2>5. Lone
    BY <2>2, <2>3 DEF Lone, InHand, Busy
  <2>6. Reach
    BY <2>2, <2>3, <2>10 DEF Reach, ReachIn, WrappedIn, Plain
  <2>7. Agrees(host.file)
    <3>. SUFFICES ASSUME ~CannotUnpatch(host.file), NEW s \in DOMAIN host.file,
                         MarkOf(host.file, s) # None
                  PROVE  FALSE
      BY DEF Agrees
    <3>1. format = "json"
      BY <2>4, HostConstantsOK DEF CannotUnpatch, Init
    <3>2. host.file[s].mark = None
      BY <2>2 DEF Plain
    <3>. QED  BY <3>1, <3>2, MarkIsWhere
  <2>8. Serves(host.file)
    <3>1. DOMAIN host.file = on /\ DOMAIN wanted = on
      BY <2>1, <2>2
    <3>2. \A s \in on : host.file[s].cmd = c /\ wanted[s] = c
      BY <2>1, <2>2 DEF Plain
    <3>. QED  BY <3>1, <3>2 DEF Serves
  <2>9. Kept
    BY <2>3, <2>7, <2>8, <2>10, TornKeeps DEF Kept, KeptIn
  <2>. QED  BY <2>5, <2>6, <2>9
<1>. QED  BY <1>1, AlwaysSound, StillKept, PTL DEF Spec

(* hosts unpatch finds the original of every wrapped server, after any     *)
(* commands, edits and crashes; the excuses are the host's stripping of    *)
(* markers, a markers.json that a later patch overwrote or a crash tore,   *)
(* commands that overlap, and an undo after a failed verification.         *)
THEOREM UnpatchReachesTheorem == Spec => []UnpatchReaches
<1>1. TInv /\ HInv => UnpatchReaches
  <2>. SUFFICES ASSUME TInv, HInv, host.file # Torn, ~NoReach,
                       NEW s \in DOMAIN host.file, host.file[s].depth > 0
                PROVE  ~CannotUnpatch(host.file) /\ MarkOf(host.file, s) # None
    BY DEF UnpatchReaches, NoReach
  <2>1. CASE format = "json"
    <3>1. host.file[s].mark # None
      BY <2>1 DEF TInv, Sound, Content, Entry, NoReach
    <3>. QED  BY <2>1, <3>1 DEF CannotUnpatch, MarkOf
  <2>2. CASE format = "text"
    <3>1. s \in Marked
      BY <2>2 DEF HInv, RInv, Reach, WrappedIn
    <3>2. markers \notin {None, Torn} /\ s \in DOMAIN markers
      BY <3>1 DEF Marked
    <3>3. MarkOf(host.file, s) = markers[s] /\ markers[s] \in Mark
      BY <2>2, <3>2, MarkIsWhere DEF TInv, SoundMarkers
    <3>. QED  BY <2>2, <3>2, <3>3, MarkIsThere DEF CannotUnpatch
  <2>. QED  BY <2>1, <2>2 DEF TInv
<1>. QED  BY <1>1, AlwaysSound, AlwaysKept, PTL

(* Every server of the file runs, wrapped or not, what the user last had   *)
(* it run, or "" where in JSON that is no string, for any number of        *)
(* processes, servers, commands, edits and crashes; the excuses are an     *)
(* edit in the middle of a command, an edit of a server whose marker       *)
(* stays, commands that overlap, and an undo after a failed verification.  *)
THEOREM UserCommandKeptTheorem == Spec => []UserCommandKept
<1>1. HInv => UserCommandKept
  BY DEF HInv, KInv, Kept, NotKept, UserCommandKept
<1>. QED  BY <1>1, AlwaysKept, PTL
=============================================================================
