----------------------------- MODULE HostPatch -----------------------------
(***************************************************************************)
(* internal/hosts, and the commands hosts patch, hosts unpatch, undo and   *)
(* init that use it: the MCP servers in a host's config file are wrapped   *)
(* in scouttrace proxy, and unwrapped.  What a server ran before is kept   *)
(* in its entry (JSON) or in markers.json in the backup directory (TOML    *)
(* and YAML), and the file before each patch in a backup.  The hash of the *)
(* patched file goes to config.yaml.  Meanwhile the user edits the file,   *)
(* and commands overlap and crash: they take no lock.                      *)
(*                                                                         *)
(* The bytes of the file are its entries; a hash is the content it is of.  *)
(***************************************************************************)
EXTENDS Integers, FiniteSetsExt, Functions, TmpFile

CONSTANTS
  Procs,        \* processes of the scouttrace CLI
  Servers,      \* names of servers
  Cmds,         \* what a server runs: its command and args
  Bare,         \* those without an args line
  Remote,       \* those without a command, as servers with a URL are
  Formats,      \* "json" (the marker is inline) or "text" (TOML and YAML)
  MaxCommands,  \* bound on the commands run
  MaxEdits,     \* bound on the user's edits
  MaxCrashes,   \* bound on crashes and on reads that fail
  MaxSeconds    \* bound on the clock

ASSUME HostConstantsOK ==
  /\ Bare \subseteq Cmds /\ Remote \subseteq Cmds /\ Formats \subseteq {"json", "text"}
  /\ MaxCommands \in Nat /\ MaxEdits \in Nat /\ MaxCrashes \in Nat /\ MaxSeconds \in Nat
  /\ {"torn", "none"} \cap Servers = {}

VARIABLES
  format,
  host,      \* the host's config file, and the temporary file beside it
  backups,   \* the .bak files, by the second in their names
  markers,   \* markers.json
  recorded,  \* LastPatchedHash in config.yaml
  proc,      \* the commands that run
  now,       \* the clock, in seconds
  wanted,    \* what the user last had each server run (history)
  replaced,  \* the contents that a patch replaced for good (history)
  excused,   \* what makes a loss possible (history)
  used       \* how many commands, edits and crashes there were

vars == <<format, host, backups, markers, recorded, proc, now, wanted, replaced, excused, used>>
disk == <<format, host, backups, markers, recorded>>

None == [none |-> TRUE]
\* What an entry may run: "" is the empty command.
Runs == Cmds \cup {""}
\* The original of a wrapped entry: what it ran, itself wrapped or not.
Mark == [cmd : Runs, depth : Nat]
\* An entry runs cmd, wrapped depth times.
Entry(e) ==
  /\ DOMAIN e = {"cmd", "depth", "mark"} /\ e.cmd \in Runs /\ e.depth \in Nat
  /\ e.mark = None \/ e.mark \in Mark
Plain(c) == [cmd |-> c, depth |-> 0, mark |-> None]
Content(c) == DOMAIN c \subseteq Servers /\ \A s \in DOMAIN c : Entry(c[s])

\* bak is the second of the backup that a patch has taken.
Idle == [pc |-> "idle", kind |-> "patch", read |-> Torn, text |-> Torn,
         want |-> {}, bak |-> -1]

Init ==
  /\ format \in Formats
  /\ \E on \in SUBSET Servers, c \in Cmds :
       /\ host = Files([s \in on |-> Plain(c)], Procs)
       /\ wanted = [s \in on |-> c]
  /\ backups = <<>> /\ markers = None /\ recorded = None
  /\ proc = [p \in Procs |-> Idle]
  /\ now = 0 /\ replaced = {} /\ excused = {}
  /\ used = [commands |-> 0, edits |-> 0, crashes |-> 0]

Use(what, max) == used[what] < max /\ used' = [used EXCEPT ![what] = @ + 1]
Become(p, state) == proc' = [proc EXCEPT ![p] = state]
Busy(p) == proc[p].pc # "idle"
With(f, x, v) == [y \in DOMAIN f \cup {x} |-> IF y = x THEN v ELSE f[y]]

-----------------------------------------------------------------------------
(* The rewriting of a file's entries                                       *)

\* alreadyManaged looks for the marker in the entry, isManaged at the shape
\* of its args.
Managed(e) == IF format = "json" THEN e.mark # None ELSE e.depth > 0

\* Variant for mutation: what is managed is not looked at.
ToWrapAgain(c, want) ==
  {s \in DOMAIN c \cap want : ~(format = "text" /\ c[s].cmd \in Remote)}

\* Text formats leave out a server without a command.
ToWrap(c, want) ==
  {s \in DOMAIN c \cap want : ~Managed(c[s]) /\ ~(format = "text" /\ c[s].cmd \in Remote)}

\* A text file without servers counts as one that does not parse.
Unparsable(c) == c = Torn \/ (format = "text" /\ DOMAIN c = {})

\* Text formats fail as a whole on a server without an args line.
CannotPatch(c, want) ==
  Unparsable(c) \/ (format = "text" /\ \E s \in ToWrap(c, want) : c[s].cmd \in Bare)

\* In JSON a command that is no string, or none at all, counts as "".
Command(e) == IF format = "json" /\ e.cmd \in Remote THEN "" ELSE e.cmd

Original(e) == [cmd |-> Command(e), depth |-> e.depth]

Wrapped(c, want) ==
  [s \in DOMAIN c |->
     IF s \notin ToWrap(c, want) THEN c[s]
     ELSE [cmd |-> Command(c[s]), depth |-> c[s].depth + 1,
           mark |-> IF format = "json" THEN Original(c[s]) ELSE None]]

\* unpatchBytes: each entry with a marker; in text formats each server that
\* markers.json names, whatever became of its entry.
MarkOf(c, s) ==
  IF format = "json" THEN c[s].mark
  ELSE IF s \in DOMAIN markers THEN markers[s] ELSE None

\* The command and args of an entry are set to those of its original.
Restored(mark) == [cmd |-> mark.cmd, depth |-> mark.depth, mark |-> None]

\* Variant for mutation: only what was wrapped is written back.
UnwrappedOnly(c) ==
  [s \in {s \in DOMAIN c : MarkOf(c, s) # None} |-> Restored(MarkOf(c, s))]

Unwrapped(c) ==
  [s \in DOMAIN c |-> IF MarkOf(c, s) = None THEN c[s] ELSE Restored(MarkOf(c, s))]

CannotUnpatch(c) == c = Torn \/ (format = "text" /\ markers \in {None, Torn})

-----------------------------------------------------------------------------
(* The commands                                                            *)

Overlap(p) == {x \in {"overlap"} : \E q \in Procs \ {p} : Busy(q)}

\* hosts patch of some servers, or of all: load config.yaml and the file, and
\* compare, unless it is to --force.
Patch(p, want, force) ==
  /\ ~Busy(p) /\ Use("commands", MaxCommands)
  /\ force \/ recorded \in {None, host.file}
  /\ Become(p, [Idle EXCEPT !.pc = "backup", !.read = host.file, !.want = want])
  /\ excused' = excused \cup Overlap(p)
  /\ UNCHANGED <<disk, now, wanted, replaced>>

\* init patches all servers, and compares no hash.
InitPatch(p) == Patch(p, Servers, TRUE)

\* Variant for mutation: the backup is taken of the patched text.
BackupOfPatched(c, want) == IF CannotPatch(c, want) THEN c ELSE Wrapped(c, want)

BackupOf(c, want) == c

\* The backup is written before the file is parsed.
Backup(p) ==
  LET c == proc[p].read  want == proc[p].want
  IN  /\ proc[p].pc = "backup"
      /\ backups' = With(backups, now, BackupOf(c, want))
      /\ excused' = excused \cup {x \in {"sameSecond"} : now \in DOMAIN backups}
      /\ Become(p, IF CannotPatch(c, want) THEN Idle
                   ELSE IF format = "text" /\ ToWrap(c, want) # {}
                   THEN [proc[p] EXCEPT !.pc = "markers", !.text = Wrapped(c, want), !.bak = now]
                   ELSE [Idle EXCEPT !.pc = "open", !.text = Wrapped(c, want), !.bak = now])
      /\ UNCHANGED <<format, host, markers, recorded, now, wanted, replaced, used>>

\* Variant for mutation: the markers are not written.
WriteNoMarkers(p) ==
  /\ proc[p].pc = "markers"
  /\ Become(p, [proc[p] EXCEPT !.pc = "open"])
  /\ UNCHANGED <<disk, now, wanted, replaced, excused, used>>

\* writeExternalMarkers: the servers wrapped by this call, and no others.
WriteMarkers(p) ==
  LET c == proc[p].read  wraps == ToWrap(c, proc[p].want)
  IN  /\ proc[p].pc = "markers"
      /\ markers' = [s \in wraps |-> Original(c[s])]
      /\ excused' = excused \cup
           {x \in {"overwritten"} : \E s \in DOMAIN c \ wraps : c[s].depth > 0}
      /\ Become(p, [Idle EXCEPT !.pc = "open", !.text = proc[p].text, !.bak = proc[p].bak])
      /\ UNCHANGED <<format, host, backups, recorded, now, wanted, replaced, used>>

\* hosts unpatch looks at no hash and takes no backup.
Unpatch(p) ==
  /\ ~Busy(p) /\ Use("commands", MaxCommands)
  /\ Become(p, IF CannotUnpatch(host.file) THEN Idle
               ELSE [Idle EXCEPT !.pc = "open", !.kind = "unpatch",
                                 !.text = Unwrapped(host.file)])
  /\ excused' = excused \cup Overlap(p)
  /\ UNCHANGED <<disk, now, wanted, replaced>>

\* undo: the latest backup, if it parses; a torn TOML or YAML file may.  Once
\* a patch has put its own backup back, the latest one is of an earlier patch.
Undo(p) ==
  /\ ~Busy(p) /\ Use("commands", MaxCommands)
  /\ DOMAIN backups # {}
  /\ LET c == backups[Max(DOMAIN backups)]
     IN  /\ c = Torn \/ ~Unparsable(c)
         /\ c = Torn => format = "text"
         /\ Become(p, [Idle EXCEPT !.pc = "open", !.kind = "undo", !.text = c])
         /\ excused' = excused \cup Overlap(p) \cup {x \in {"tornBackup"} : c = Torn}
                         \cup {x \in {"olderBackup"} : "unverified" \in excused}
  /\ UNCHANGED <<disk, now, wanted, replaced>>

\* Variant for mutation: the file is written in place.
OpenInPlace(p) ==
  /\ proc[p].pc = "open"
  /\ host' = [host EXCEPT !.file = Torn, !.fd[p] = "file"]
  /\ Become(p, [proc[p] EXCEPT !.pc = "fill"])
  /\ UNCHANGED <<format, backups, markers, recorded, now, wanted, replaced, excused, used>>

Open(p) ==
  /\ proc[p].pc = "open"
  /\ host' = OpenTmp(host, p)
  /\ Become(p, [proc[p] EXCEPT !.pc = "fill"])
  /\ UNCHANGED <<format, backups, markers, recorded, now, wanted, replaced, excused, used>>

Fill(p) ==
  /\ proc[p].pc = "fill"
  /\ host' \in FillTmp(host, p, proc[p].text)
  /\ Become(p, [proc[p] EXCEPT !.pc = "rename"])
  /\ UNCHANGED <<format, backups, markers, recorded, now, wanted, replaced, excused, used>>

\* What the user wants after undo is what the backup says.
Rename(p) ==
  /\ proc[p].pc = "rename"
  /\ IF CanRename(host)
     THEN /\ host' = RenameTmp(host)
          /\ Become(p, IF proc[p].kind = "unpatch" THEN Idle
                       ELSE [proc[p] EXCEPT !.text = Torn,
                                            !.pc = IF proc[p].kind = "undo" THEN "save" ELSE "verify"])
          /\ replaced' = replaced \cup {c \in {host.file} : proc[p].kind = "patch"}
          /\ wanted' = IF proc[p].kind = "undo" /\ host.tmp # Torn
                       THEN [s \in DOMAIN host.tmp |-> host.tmp[s].cmd] ELSE wanted
     ELSE Become(p, Idle) /\ UNCHANGED <<host, replaced, wanted>>
  /\ UNCHANGED <<format, backups, markers, recorded, now, excused, used>>

\* The hash recorded is of the file as it is read back.
Verify(p) ==
  /\ proc[p].pc = "verify"
  /\ Become(p, [proc[p] EXCEPT !.pc = "save", !.text = host.file])
  /\ UNCHANGED <<disk, now, wanted, replaced, excused, used>>

\* The file cannot be read back: the backup is renamed over it, unless it has
\* been moved away, and no hash is recorded.
VerifyFails(p) ==
  LET bak == proc[p].bak
  IN  /\ proc[p].pc = "verify" /\ Use("crashes", MaxCrashes)
      /\ IF bak \in DOMAIN backups
         THEN /\ host' = ReplaceFile(host, backups[bak])
              /\ backups' = [t \in DOMAIN backups \ {bak} |-> backups[t]]
              /\ replaced' = replaced \ {backups[bak]}
         ELSE UNCHANGED <<host, backups, replaced>>
      /\ excused' = excused \cup {"unverified"}
      /\ Become(p, Idle)
      /\ UNCHANGED <<format, markers, recorded, now, wanted>>

\* config.Save
SaveHash(p) ==
  /\ proc[p].pc = "save" /\ proc[p].kind = "patch"
  /\ recorded' = proc[p].text
  /\ Become(p, Idle)
  /\ UNCHANGED <<format, host, backups, markers, now, wanted, replaced, excused, used>>

ClearHash(p) ==
  /\ proc[p].pc = "save" /\ proc[p].kind = "undo"
  /\ recorded' = None
  /\ Become(p, Idle)
  /\ UNCHANGED <<format, host, backups, markers, now, wanted, replaced, excused, used>>

\* The command is killed.  Backups and markers are written in place.
Crash(p) ==
  /\ Busy(p) /\ Use("crashes", MaxCrashes)
  /\ backups' \in {backups} \cup {With(backups, now, Torn) : x \in {"backup"} \cap {proc[p].pc}}
  /\ markers' \in {markers} \cup {Torn : x \in {"markers"} \cap {proc[p].pc}}
  /\ excused' = excused \cup {x \in {"sameSecond"} : backups' # backups /\ now \in DOMAIN backups}
                        \cup {x \in {"tornMarkers"} : markers' # markers}
  /\ host' = ShutTmp(host, p)
  /\ Become(p, Idle)
  /\ UNCHANGED <<format, recorded, now, wanted, replaced>>

-----------------------------------------------------------------------------
(* The user and the host                                                   *)

Tick == now < MaxSeconds /\ now' = now + 1 /\ UNCHANGED <<disk, proc, wanted, replaced, excused, used>>

\* An edit during a command can be lost to its rename, and one of a server
\* whose marker stays, to the next unpatch.
Edit(s, text, why) ==
  /\ host.file # Torn /\ Use("edits", MaxEdits)
  /\ host' = [host EXCEPT !.file = text]
  /\ excused' = excused \cup why
       \cup {x \in {"raced"} : \E p \in Procs : Busy(p)}
       \cup {x \in {"marked"} : format = "text" /\ markers \notin {None, Torn} /\ s \in DOMAIN markers}
  /\ UNCHANGED <<format, backups, markers, recorded, proc, now, replaced>>

\* The user writes a server's entry anew, adds one or removes one.
Rewrite(s) ==
  \E c \in Cmds :
    /\ Edit(s, With(host.file, s, Plain(c)), {})
    /\ wanted' = With(wanted, s, c)

Remove(s) ==
  /\ host.file # Torn /\ s \in DOMAIN host.file
  /\ Edit(s, [t \in DOMAIN host.file \ {s} |-> host.file[t]], {})
  /\ wanted' = [t \in DOMAIN wanted \ {s} |-> wanted[t]]

\* The user changes the command behind the proxy's "--" and leaves the rest.
EditWrapped(s) ==
  /\ host.file # Torn /\ s \in DOMAIN host.file /\ host.file[s].depth > 0
  /\ \E c \in Cmds \ Remote :
       /\ Edit(s, [host.file EXCEPT ![s].cmd = c], {"marked"})
       /\ wanted' = With(wanted, s, c)

\* The host writes the file without the keys it does not know.
Strip(s) ==
  /\ host.file # Torn /\ s \in DOMAIN host.file /\ host.file[s].mark # None
  /\ Edit(s, [host.file EXCEPT ![s].mark = None], {"stripped"})
  /\ UNCHANGED wanted

Next ==
  \/ Tick
  \/ \E s \in Servers : Rewrite(s) \/ Remove(s) \/ EditWrapped(s) \/ Strip(s)
  \/ \E p \in Procs :
       \/ \E want \in SUBSET Servers \ {{}}, force \in BOOLEAN : Patch(p, want, force)
       \/ InitPatch(p) \/ Unpatch(p) \/ Undo(p)
       \/ Backup(p) \/ WriteMarkers(p) \/ Open(p) \/ Fill(p) \/ Rename(p) \/ Verify(p)
       \/ VerifyFails(p) \/ SaveHash(p) \/ ClearHash(p) \/ Crash(p)

Spec == Init /\ [][Next]_vars

-----------------------------------------------------------------------------
(* Properties                                                              *)

\* Every variable stays in its type, and no server is wrapped twice unless its
\* host strips the marker.
TypeOK ==
  /\ host.file = Torn \/ Content(host.file)
  /\ \A t \in DOMAIN backups : t \in 0 .. MaxSeconds /\ (backups[t] = Torn \/ Content(backups[t]))
  /\ markers \in {None, Torn} \/ \A s \in DOMAIN markers : markers[s] \in Mark
  /\ \A p \in Procs : host.fd[p] \in FDs
  /\ host.file = Torn \/ \A s \in DOMAIN host.file : host.file[s].depth =< 1 \/ "stripped" \in excused

\* The host finds a whole file, whatever crashes and whatever the user edits;
\* but not if two commands overlap, or undo took a torn backup for a whole one.
FileIsWhole == excused \cap {"overlap", "tornBackup"} = {} => host.file # Torn

\* What is wrapped can be unwrapped: the original of every wrapped server is
\* where hosts unpatch looks for it, after any commands, edits and crashes.
\* The excuses are the host's stripping of the marker, a markers.json that a
\* later patch overwrote or a crash tore, commands that overlap, and an undo
\* after a failed verification, which takes an older backup.
UnpatchReaches ==
  (host.file # Torn
     /\ excused \cap {"overlap", "stripped", "overwritten", "tornMarkers", "olderBackup"} = {}) =>
    \A s \in DOMAIN host.file :
      host.file[s].depth > 0 => ~CannotUnpatch(host.file) /\ MarkOf(host.file, s) # None

\* A text runs what the user wants; but in JSON a patch leaves "" in place of
\* a command that is no string.
Serves(c) ==
  /\ DOMAIN c = DOMAIN wanted
  /\ \A s \in DOMAIN c :
       \/ c[s].cmd = wanted[s]
       \/ format = "json" /\ wanted[s] \in Remote /\ c[s].cmd = ""

\* The user's word is the last: through any patches, unpatches, undos, failed
\* verifications and crashes the file has the servers the user wants, and each
\* runs, wrapped or not, the command the user last gave it.  One that has none
\* may be left with "".  The excuses are an edit in the middle of a command,
\* one of a server whose marker stays, commands that overlap, and an undo
\* after a failed verification.
UserCommandKept ==
  (host.file # Torn /\ excused \cap {"overlap", "raced", "marked", "olderBackup"} = {}) =>
    Serves(host.file)

\* There is a way back: the file that a patch replaced is in a backup, or is
\* the file again for want of a verification; unless the next patch came
\* within the second, commands overlap, or an edit came in the middle of one.
BackedUp ==
  excused \cap {"overlap", "sameSecond", "raced"} = {} => replaced \subseteq Range(backups)
=============================================================================
