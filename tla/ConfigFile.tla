----------------------------- MODULE ConfigFile -----------------------------
(***************************************************************************)
(* config.yaml and credentials.enc, and the commands that write them:      *)
(* scouttrace init and config set.  Both files are read, changed in memory *)
(* and replaced by way of a temporary file with a fixed name (TmpFile).    *)
(* No lock is taken, and a command may be killed between any two steps.    *)
(*                                                                         *)
(* The process table is shared with the commands of Sidecar: a process id  *)
(* belongs to whatever command holds it.                                   *)
(***************************************************************************)
EXTENDS Integers, FiniteSets, TLC, TmpFile

CONSTANTS
  Procs,        \* process ids
  Dests,        \* destinations a user may choose
  Network,      \* those that send over the network
  Values,       \* values of the two backoff settings
  MaxCommands,  \* bound on the commands run
  MaxCrashes    \* bound on the crashes

ASSUME ConfigConstantsOK ==
  /\ Network \subseteq Dests /\ Network # Dests
  /\ Values \subseteq Nat \ {0} /\ 1 \in Values /\ \E v \in Values : \A w \in Values : w =< v
  /\ MaxCommands \in Nat /\ MaxCrashes \in Nat

VARIABLES
  config,   \* config.yaml and its temporary file
  store,    \* credentials.enc and its temporary file
  agents,   \* how many agents there were keys of
  proc,     \* the commands that run
  want,     \* what the commands that succeeded add up to (history)
  halfway,  \* an init stored a key, and its config is not saved (history)
  overlap,  \* commands that were in each other's way (history)
  used      \* how many commands and crashes there were

cvars == <<config, store, agents, want, halfway>>
base == <<cvars, proc, overlap, used>>

Absent == [absent |-> TRUE]
NoKey == [key |-> 0]
Key == [key : Nat \ {0}]
\* agent 0: the config has no credential.
Content == [dest : Dests, agent : Nat, initial : Values, max : Values]

\* c is the config a command holds, entries and target belong to Sidecar.
Idle == [pc |-> "idle", cmd |-> "none", c |-> Absent, flag |-> FALSE, entries |-> {}, target |-> {}]

Default(dest, agent) ==
  [dest |-> dest, agent |-> agent, initial |-> 1, max |-> CHOOSE v \in Values : \A w \in Values : w =< v]

\* A new home, or one that an init has set up.
ConfigInit ==
  /\ want \in {Absent} \cup {Default(dest, 0) : dest \in Dests}
  /\ config = Files(want, Procs) /\ store = Files(NoKey, Procs)
  /\ agents = 0 /\ proc = [p \in Procs |-> Idle]
  /\ halfway = FALSE /\ overlap = {}
  /\ used = [commands |-> 0, crashes |-> 0]

Busy(p) == proc[p].pc # "idle"
Become(p, state) == proc' = [proc EXCEPT ![p] = state]
Go(p, pc) == Become(p, [proc[p] EXCEPT !.pc = pc])
Use(what, max) == used[what] < max /\ used' = [used EXCEPT ![what] = @ + 1]

\* A command that may still write config.yaml.
Saving ==
  {q \in Procs : proc[q].pc \in {"exchange", "put", "put_open", "put_fill", "put_rename", "validate",
                                "open", "fill", "rename"}}

\* A command is started in a free process.  Among writers, or among those that
\* see to the sidecar, one that starts while others are at work overlaps them.
Launch(p, kind, others) ==
  /\ ~Busy(p) /\ Use("commands", MaxCommands)
  /\ overlap' = overlap \cup {x \in {kind} : others # {}}

-----------------------------------------------------------------------------
(* config set                                                              *)

\* Config.Validate
Valid(c) == c.initial =< c.max

\* loadConfig fails on an absent file, and on one that does not parse or is
\* not valid.
Loads(c) == c \notin {Absent, Torn} /\ Valid(c)

\* Variant for mutation: what is set is not validated.
SetUnchecked(p, key, value) ==
  /\ Launch(p, "writers", Saving)
  /\ IF Loads(config.file)
     THEN Become(p, [Idle EXCEPT !.pc = "open", !.cmd = key, !.c = [config.file EXCEPT ![key] = value]])
     ELSE UNCHANGED proc
  /\ UNCHANGED cvars

Set(p, key, value) ==
  /\ Launch(p, "writers", Saving)
  /\ LET c == [config.file EXCEPT ![key] = value]
     IN  IF Loads(config.file) /\ Valid(c)
         THEN Become(p, [Idle EXCEPT !.pc = "open", !.cmd = key, !.c = c])
         ELSE UNCHANGED proc
  /\ UNCHANGED cvars

-----------------------------------------------------------------------------
(* init                                                                    *)

\* --setup-token: the token is for one use, and the agent it makes stays.  The
\* flag stands for an --auth-header-ref that Validate will refuse.
InitWithToken(p, dest, bad) ==
  /\ Launch(p, "writers", Saving)
  /\ dest \in Network
  /\ Become(p, [Idle EXCEPT !.pc = "exchange", !.cmd = "init", !.c = Default(dest, 0), !.flag = bad])
  /\ UNCHANGED cvars

InitPlain(p, dest) ==
  /\ Launch(p, "writers", Saving)
  /\ Become(p, [Idle EXCEPT !.pc = "validate", !.cmd = "init", !.c = Default(dest, 0)])
  /\ UNCHANGED cvars

\* --api-key: an agent the user made in the portal, and its key.
InitWithKey(p, dest, bad) ==
  /\ Launch(p, "writers", Saving)
  /\ dest \in Network
  /\ agents' = agents + 1
  /\ Become(p, [Idle EXCEPT !.pc = "put", !.cmd = "init", !.c = Default(dest, agents + 1), !.flag = bad])
  /\ UNCHANGED <<config, store, want, halfway>>

\* The exchange makes an agent, and its answer may get lost.
Exchange(p) ==
  /\ proc[p].pc = "exchange"
  /\ agents' = agents + 1
  /\ \/ Become(p, [proc[p] EXCEPT !.pc = "put", !.c.agent = agents + 1])
     \/ Become(p, Idle)
  /\ UNCHANGED <<config, store, want, halfway, overlap, used>>

\* An exchange that is refused makes none.
ExchangeFails(p) ==
  /\ proc[p].pc = "exchange"
  /\ Become(p, Idle)
  /\ UNCHANGED <<cvars, overlap, used>>

\* EncFileStore.Put begins with load: a torn file does not decrypt, an empty
\* one counts as a new store.
Put(p) ==
  /\ proc[p].pc = "put"
  /\ Go(p, "put_open")
  /\ UNCHANGED <<cvars, overlap, used>>

\* Variant for mutation: the failure goes unnoticed.
PutFailsUnnoticed(p) ==
  /\ proc[p].pc = "put" /\ store.file # NoKey
  /\ Go(p, "validate")
  /\ UNCHANGED <<cvars, overlap, used>>

\* The passphrase is another than the store's, or the store is torn.
PutFails(p) ==
  /\ proc[p].pc = "put" /\ store.file # NoKey
  /\ Become(p, Idle)
  /\ UNCHANGED <<cvars, overlap, used>>

PutOpen(p) ==
  /\ proc[p].pc = "put_open"
  /\ store' = OpenTmp(store, p) /\ Go(p, "put_fill")
  /\ UNCHANGED <<config, agents, want, halfway, overlap, used>>

PutFill(p) ==
  /\ proc[p].pc = "put_fill"
  /\ store' \in FillTmp(store, p, [key |-> proc[p].c.agent]) /\ Go(p, "put_rename")
  /\ UNCHANGED <<config, agents, want, halfway, overlap, used>>

PutRename(p) ==
  /\ proc[p].pc = "put_rename"
  /\ IF CanRename(store)
     THEN store' = RenameTmp(store) /\ Go(p, "validate") /\ halfway' = TRUE
     ELSE Become(p, Idle) /\ UNCHANGED <<store, halfway>>
  /\ UNCHANGED <<config, agents, want, overlap, used>>

\* A config that is not valid leaves the key that was stored.
Validate(p) ==
  /\ proc[p].pc = "validate"
  /\ IF Valid(proc[p].c) /\ ~proc[p].flag THEN Go(p, "open") ELSE Become(p, Idle)
  /\ UNCHANGED <<cvars, overlap, used>>

-----------------------------------------------------------------------------
(* config.Save                                                             *)

\* Variant for mutation: the file is written in place.
OpenInPlace(p) ==
  /\ proc[p].pc = "open"
  /\ config' = [config EXCEPT !.file = Torn, !.tmp = Torn, !.fd[p] = "file"] /\ Go(p, "fill")
  /\ UNCHANGED <<store, agents, want, halfway, overlap, used>>

Open(p) ==
  /\ proc[p].pc = "open"
  /\ config' = OpenTmp(config, p) /\ Go(p, "fill")
  /\ UNCHANGED <<store, agents, want, halfway, overlap, used>>

Fill(p) ==
  /\ proc[p].pc = "fill"
  /\ config' \in FillTmp(config, p, proc[p].c) /\ Go(p, "rename")
  /\ UNCHANGED <<store, agents, want, halfway, overlap, used>>

\* What the user now has: init's config, or the old one with the key set.
Rename(p) ==
  /\ proc[p].pc = "rename"
  /\ IF CanRename(config)
     THEN /\ config' = RenameTmp(config)
          /\ want' = IF proc[p].cmd = "init" \/ want = Absent THEN proc[p].c
                     ELSE [want EXCEPT ![proc[p].cmd] = proc[p].c[proc[p].cmd]]
          /\ halfway' = (halfway /\ (proc[p].cmd # "init" \/ proc[p].c.agent = 0))
     ELSE UNCHANGED <<config, want, halfway>>
  /\ Become(p, Idle)
  /\ UNCHANGED <<store, agents, overlap, used>>

ConfigStep(p) ==
  \/ \E key \in {"initial", "max"}, v \in Values : Set(p, key, v)
  \/ \E dest \in Dests : InitPlain(p, dest)
  \/ \E dest \in Dests, bad \in BOOLEAN : InitWithToken(p, dest, bad) \/ InitWithKey(p, dest, bad)
  \/ Exchange(p) \/ ExchangeFails(p) \/ Put(p) \/ PutFails(p)
  \/ PutOpen(p) \/ PutFill(p) \/ PutRename(p) \/ Validate(p)
  \/ Open(p) \/ Fill(p) \/ Rename(p)

-----------------------------------------------------------------------------
(* Properties                                                              *)

\* Every variable stays in its type, and whole configs are valid ones.
ConfigTypeOK ==
  /\ \/ config.file \in {Absent, Torn}
     \/ config.file \in Content /\ config.file.initial =< config.file.max
  /\ config.tmp \in {NoTmp, Torn} \/ config.tmp \in Content
  /\ store.file \in {NoKey, Torn} \cup Key
  /\ \A p \in Procs : config.fd[p] \in FDs /\ store.fd[p] \in FDs
  /\ want = Absent \/ want \in Content
  /\ agents \in 0 .. MaxCommands /\ halfway \in BOOLEAN /\ overlap \subseteq {"writers", "sidecar"}
  /\ used.commands \in 0 .. MaxCommands /\ used.crashes \in 0 .. MaxCrashes

\* config.yaml is what the commands that said they succeeded add up to, and
\* loads: a command that fails or is killed, at any step, changes nothing, and
\* no setting of an earlier command is lost.  Two writers that overlap may lose
\* one's setting and, as they share the temporary file, tear the config.
SetsKept ==
  "writers" \notin overlap => config.file = want /\ (want = Absent \/ Loads(config.file))

\* A config that names an agent finds a key in the store, and it is that
\* agent's, unless a later init stopped after it stored its key: the key has
\* one fixed name, and the config names the agent before.
KeyIsOfAgent ==
  ("writers" \notin overlap /\ config.file \in Content /\ config.file.agent > 0) =>
    /\ store.file \in Key
    /\ halfway \/ store.file.key = config.file.agent
=============================================================================
