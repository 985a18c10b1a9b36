----------------------------- MODULE PriceCache -----------------------------
(***************************************************************************)
(* internal/billing/livepricing: what a model costs is asked of a web      *)
(* service.  Answers, "unknown" and failures included, are kept for TTL in *)
(* the memory of the process that asked and in a file that all processes   *)
(* share.  The file is read, changed and replaced (by way of a temporary   *)
(* file of the writer's own), without a lock, so writers lose each other's *)
(* entries.  A hook is a process per event; the proxy is one for long.     *)
(*                                                                         *)
(* An answer is known by the time it was given, not by its price.          *)
(***************************************************************************)
EXTENDS Integers

CONSTANTS
  Procs,     \* processes that price events
  Models,    \* names of models
  TTL,       \* how long an answer is kept
  MaxTime    \* bound on the clock

ASSUME PriceConstantsOK == TTL \in Nat \ {0} /\ MaxTime \in Nat

VARIABLES
  mem,   \* the cache in each process
  disk,  \* pricepertoken.json
  now,   \* the clock
  proc   \* what each process is at

cachevars == <<mem, disk, now>>

None == [none |-> TRUE]
Answer(model, ok) == [model |-> model, ok |-> ok, asked |-> now, expires |-> now + TTL]
Cold == [m \in Models |-> None]

\* call is what is being priced, entry the answer found and at when it was,
\* and bill what came of it.
Idle == [pc |-> "idle", kind |-> "none", call |-> None, model |-> "none", entry |-> None, at |-> 0,
         file |-> None, bill |-> None]

\* The file may hold answers that earlier processes got.
CacheInit ==
  /\ now = 0
  /\ disk \in {Cold, [m \in Models |-> Answer(m, TRUE)]}
  /\ mem = [p \in Procs |-> Cold] /\ proc = [p \in Procs |-> Idle]

Become(p, state) == proc' = [proc EXCEPT ![p] = state]
Fresh(e) == e # None /\ now =< e.expires

\* Variant for mutation: an answer from the file counts as a new one.
PromotedAnew(e) == [e EXCEPT !.expires = now + TTL]

\* setEntry keeps the time at which the answer expires.
Promoted(e) == e

Found(p, e) == [proc[p] EXCEPT !.pc = "emit", !.entry = e, !.at = now]

\* Lookup: memory, then the file, then the service.
Lookup(p) ==
  /\ proc[p].pc = "lookup"
  /\ LET m == proc[p].model
     IN  \/ /\ Fresh(mem[p][m])
            /\ Become(p, Found(p, mem[p][m]))
            /\ UNCHANGED mem
         \/ /\ ~Fresh(mem[p][m]) /\ Fresh(disk[m])
            /\ mem' = [mem EXCEPT ![p][m] = Promoted(disk[m])]
            /\ Become(p, Found(p, disk[m]))
         \/ /\ ~Fresh(mem[p][m]) /\ ~Fresh(disk[m])
            /\ mem' = [mem EXCEPT ![p][m] = None]
            /\ Become(p, [proc[p] EXCEPT !.pc = "fetch"])
  /\ UNCHANGED <<disk, now>>

\* fetch: a price, or none after any failure; either is kept.
Fetch(p) ==
  /\ proc[p].pc = "fetch"
  /\ \E ok \in BOOLEAN :
       LET e == Answer(proc[p].model, ok)
       IN  /\ mem' = [mem EXCEPT ![p][e.model] = e]
           /\ Become(p, [Found(p, e) EXCEPT !.pc = "disk_read"])
  /\ UNCHANGED <<disk, now>>

\* diskSet reads the file, leaves out what expired, ...
DiskRead(p) ==
  /\ proc[p].pc = "disk_read"
  /\ Become(p, [proc[p] EXCEPT !.pc = "disk_write",
       !.file = [m \in Models |-> IF m = proc[p].model THEN proc[p].entry
                                  ELSE IF Fresh(disk[m]) THEN disk[m] ELSE None]])
  /\ UNCHANGED cachevars

\* ... and renames a new one over it, or fails and says nothing.
DiskWrite(p) ==
  /\ proc[p].pc = "disk_write"
  /\ disk' \in {disk, proc[p].file}
  /\ Become(p, [proc[p] EXCEPT !.pc = "emit", !.file = None])
  /\ UNCHANGED <<mem, now>>

\* The process ends, done or not.
Exit(p) ==
  /\ mem' = [mem EXCEPT ![p] = Cold]
  /\ Become(p, Idle)
  /\ UNCHANGED <<disk, now>>

Tick == now < MaxTime /\ now' = now + 1 /\ UNCHANGED <<mem, disk, proc>>

CacheStep(p) == Lookup(p) \/ Fetch(p) \/ DiskRead(p) \/ DiskWrite(p) \/ Exit(p)

-----------------------------------------------------------------------------

\* An event is priced by an answer about its own model that is at most TTL
\* old, through whichever caches and processes the answer came; and that holds
\* of "unknown" as well, which makes way for the built-in table.
PriceIsFresh ==
  \A p \in Procs :
    LET e == proc[p].entry
    IN  e # None => e.model = proc[p].model /\ proc[p].at - e.asked \in 0 .. TTL
=============================================================================
