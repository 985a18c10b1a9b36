--------------------------- MODULE Sidecar_proofs ---------------------------
(***************************************************************************)
(* Proofs about Sidecar: what sends to a destination was allowed to,       *)
(* commands that do not overlap leave one dispatcher at most, writers      *)
(* that do not overlap lose no setting, and the stored key is the          *)
(* configured agent's.                                                     *)
(***************************************************************************)
EXTENDS Sidecar, FiniteSetTheorems, TLAPS

\* A process that reached its dispatcher, or is about to, goes by a config
\* whose destination is among ok, itself or by its host.
Cleared(x, ok) ==
  x.c.dest \in Network => x.c.dest \in ok \/ HostOf[x.c.dest] \in ok

Approving == {"seen_open", "seen_fill"}
Claiming == {"pid_read", "pid_open", "pid_fill", "pid_lost"}
Serving == {"filled", "running", "leaving"}
Stopping == {"signal", "poll", "remove", "restart"}

Fields == {"pc", "cmd", "c", "flag", "entries", "target"}

\* A process table entry in order, when ok is what the user approved: what it
\* is about to save was approved, and whether it was checked fits where it is.
Fine(x, ok) ==
  /\ DOMAIN x = Fields
  /\ x.pc \in Approving => x.entries \subseteq ok /\ (x.cmd # "approve" => Cleared(x, ok))
  /\ x.pc \in Claiming \cup Serving \cup {"sending"} => Cleared(x, ok)
  /\ x.pc \in Claiming => x.cmd = "start"
  /\ x.pc \in Stopping => x.cmd \in {"stop", "restart"}
  /\ x.pc = "check" => x.cmd \in {"start", "flush"}
  /\ x.pc \in Approving => x.cmd \in {"start", "flush", "approve"}

AllFine ==
  /\ proc = [p \in Procs |-> proc[p]]
  /\ \A p \in Procs : Fine(proc[p], approved)
  /\ LoadSeen \subseteq approved

(* More approvals do no harm.                                              *)
LEMMA FineGrows ==
  ASSUME NEW x, NEW a, NEW b, a \subseteq b, Fine(x, a)
  PROVE  Fine(x, b)
BY DEF Fine, Cleared

(* A process between commands is in order.                                 *)
LEMMA IdleFine ==
  ASSUME NEW ok
  PROVE  Fine(Idle, ok)
BY DEF Fine, Fields, Idle, Approving, Claiming, Serving, Stopping

(* A process that was cleared may go on to claim dispatch.pid and to send.  *)
LEMMA GoesOn ==
  ASSUME NEW x, NEW ok, Fine(x, ok), NEW pc,
         \/ x.pc \in Claiming /\ pc \in Claiming \cup Serving
         \/ x.pc \in Serving /\ pc \in Serving
  PROVE  Fine([x EXCEPT !.pc = pc], ok)
BY DEF Fine, Fields, Cleared, Approving, Claiming, Serving, Stopping

(* It is enough to look at the process that took the step.                 *)
LEMMA OneChanges ==
  ASSUME AllFine, NEW p \in Procs, NEW x, approved \subseteq approved',
         Fine(x, approved'), Become(p, x)
  PROVE  proc' = [q \in Procs |-> proc'[q]] /\ \A q \in Procs : Fine(proc'[q], approved')
BY FineGrows DEF AllFine, Become

(* A command of ConfigFile is in order whatever it holds.                  *)
LEMMA ConfigStepFine ==
  ASSUME AllFine, NEW p \in Procs, ConfigStep(p), UNCHANGED svars
  PROVE  AllFine'
<1>. DEFINE Plain(x) == /\ DOMAIN x = Fields
                        /\ x.pc \in {"idle", "exchange", "put", "put_open", "put_fill", "put_rename",
                                     "validate", "open", "fill", "rename"}
<1>1. \A x : Plain(x) => Fine(x, approved')
  BY DEF Fine, Approving, Claiming, Serving, Stopping
<1>2. Plain(Idle)
  BY DEF Idle, Fields
<1>3. DOMAIN proc[p] = Fields
  BY DEF AllFine, Fine
<1>4. UNCHANGED proc \/ \E x : Plain(x) /\ Become(p, x)
  <2>1. ASSUME NEW key \in {"initial", "max"}, NEW v \in Values, Set(p, key, v)
        PROVE  UNCHANGED proc \/ \E x : Plain(x) /\ Become(p, x)
    <3>. DEFINE x == [Idle EXCEPT !.pc = "open", !.cmd = key, !.c = [config.file EXCEPT ![key] = v]]
    <3>1. Plain(x)
      BY DEF Idle, Fields
    <3>2. UNCHANGED proc \/ Become(p, x)
      BY <2>1 DEF Set
    <3>. QED  BY <3>1, <3>2
  <2>2. ASSUME NEW dest \in Dests, InitPlain(p, dest)
        PROVE  \E x : Plain(x) /\ Become(p, x)
    BY <2>2 DEF InitPlain, Idle, Fields
  <2>3. ASSUME NEW dest \in Dests, NEW bad \in BOOLEAN, InitWithToken(p, dest, bad)
        PROVE  \E x : Plain(x) /\ Become(p, x)
    BY <2>3 DEF InitWithToken, Idle, Fields
  <2>4. ASSUME NEW dest \in Dests, NEW bad \in BOOLEAN, InitWithKey(p, dest, bad)
        PROVE  \E x : Plain(x) /\ Become(p, x)
    BY <2>4 DEF InitWithKey, Idle, Fields
  <2>5. CASE Exchange(p)
    <3>. DEFINE x == [proc[p] EXCEPT !.pc = "put", !.c.agent = agents + 1]
    <3>1. Plain(x)
      BY <1>3 DEF Fields
    <3>2. Become(p, x) \/ Become(p, Idle)
      BY <2>5 DEF Exchange
    <3>. QED  BY <3>1, <3>2, <1>2
  <2>6. CASE ExchangeFails(p) \/ PutFails(p)
    BY <2>6, <1>2 DEF ExchangeFails, PutFails
  <2>7. ASSUME NEW pc \in {"put_open", "put_fill", "put_rename", "validate", "open", "fill", "rename"},
               Go(p, pc)
        PROVE  \E x : Plain(x) /\ Become(p, x)
    BY <2>7, <1>3 DEF Go, Fields
  <2>8. CASE Put(p) \/ PutOpen(p) \/ PutFill(p) \/ PutRename(p) \/ Validate(p) \/ Open(p) \/ Fill(p)
    <3>1. Become(p, Idle) \/ \E pc \in {"put_open", "put_fill", "put_rename", "validate", "open", "fill", "rename"} : Go(p, pc)
      BY <2>8 DEF Put, PutOpen, PutFill, PutRename, Validate, Open, Fill
    <3>. QED  BY <3>1, <2>7, <1>2
  <2>9. CASE Rename(p)
    BY <2>9, <1>2 DEF Rename
  <2>. QED  BY <2>1, <2>2, <2>3, <2>4, <2>5, <2>6, <2>8, <2>9 DEF ConfigStep
<1>5. CASE UNCHANGED proc
  BY <1>5 DEF AllFine, LoadSeen, svars
<1>6. ASSUME NEW x, Plain(x), Become(p, x)
      PROVE  AllFine'
  <2>1. approved \subseteq approved' /\ LoadSeen' = LoadSeen
    BY DEF svars, LoadSeen
  <2>. QED  BY <1>1, <1>6, <2>1, OneChanges DEF AllFine, svars
<1>. QED  BY <1>4, <1>5, <1>6

(* The commands that approve: what they are about to save was approved, now *)
(* or before.                                                              *)
LEMMA ApproveFine ==
  ASSUME AllFine, NEW p \in Procs,
         \/ Approve(p) \/ (\E host \in Hosts : ApproveHost(p, host))
         \/ SeenOpen(p) \/ SeenFill(p)
  PROVE  AllFine'
<1>1. Fine(proc[p], approved) /\ LoadSeen \subseteq approved
  BY DEF AllFine
<1>2. CASE Approve(p)
  <2>. DEFINE x == [Idle EXCEPT !.pc = "seen_open", !.cmd = "approve",
                                !.entries = LoadSeen \cup {config.file.dest}]
  <2>1. CASE Loads(config.file)
    <3>1. Become(p, x) /\ approved' = approved \cup {config.file.dest} /\ LoadSeen' = LoadSeen
      BY <1>2, <2>1 DEF Approve, LoadSeen
    <3>2. Fine(x, approved')
      BY <1>1, <3>1 DEF Fine, Fields, Idle, Approving, Claiming, Serving, Stopping
    <3>. QED  BY <1>1, <3>1, <3>2, OneChanges DEF AllFine
  <2>2. CASE ~Loads(config.file)
    BY <1>2, <2>2 DEF Approve, AllFine, LoadSeen
  <2>. QED  BY <2>1, <2>2
<1>3. ASSUME NEW host \in Hosts, ApproveHost(p, host)
      PROVE  AllFine'
  <2>. DEFINE x == [Idle EXCEPT !.pc = "seen_open", !.cmd = "approve",
                                !.entries = LoadSeen \cup {host}]
  <2>1. Become(p, x) /\ approved' = approved \cup {host} /\ LoadSeen' = LoadSeen
    BY <1>3 DEF ApproveHost, LoadSeen
  <2>2. Fine(x, approved')
    BY <1>1, <2>1 DEF Fine, Fields, Idle, Approving, Claiming, Serving, Stopping
  <2>. QED  BY <1>1, <2>1, <2>2, OneChanges DEF AllFine
<1>4. CASE SeenOpen(p)
  <2>1. Become(p, [proc[p] EXCEPT !.pc = "seen_fill"]) /\ UNCHANGED approved /\ LoadSeen' = {}
    BY <1>4 DEF SeenOpen, Go, LoadSeen
  <2>2. Fine([proc[p] EXCEPT !.pc = "seen_fill"], approved')
    BY <1>1, <1>4, <2>1 DEF SeenOpen, Fine, Fields, Cleared, Approving, Claiming, Serving, Stopping
  <2>. QED  BY <2>1, <2>2, OneChanges DEF AllFine
<1>5. CASE SeenFill(p)
  <2>. DEFINE x == IF proc[p].cmd = "approve" THEN Idle ELSE [proc[p] EXCEPT !.pc = Onward(p), !.entries = {}]
  <2>1. Become(p, x) /\ UNCHANGED approved /\ seen' \in {Torn, File(proc[p].entries)}
    BY <1>5 DEF SeenFill, Over
  <2>2. LoadSeen' \subseteq approved
    BY <1>1, <1>5, <2>1 DEF LoadSeen, File, SeenFill, Fine, Approving
  <2>3. Fine(x, approved)
    BY <1>1, <1>5, IdleFine DEF SeenFill, Onward, Fine, Fields, Cleared, Approving, Claiming, Serving, Stopping
  <2>. QED  BY <2>1, <2>2, <2>3, OneChanges DEF AllFine
<1>. QED  BY <1>2, <1>3, <1>4, <1>5

(* start and flush, up to dispatch.pid or the dispatcher: both go through   *)
(* enforceFirstSendApproval.                                               *)
LEMMA StartFine ==
  ASSUME AllFine, NEW p \in Procs,
         \/ \E yes \in BOOLEAN : Start(p, yes) \/ Restart(p, yes) \/ Flush(p, yes)
         \/ Check(p)
  PROVE  AllFine'
<1>1. Fine(proc[p], approved) /\ LoadSeen \subseteq approved
  BY DEF AllFine
<1>2. ASSUME NEW yes \in BOOLEAN, NEW cmd \in {"start", "flush"}, Load(p, cmd, yes), UNCHANGED svars
      PROVE  AllFine'
  <2>. DEFINE x == [Idle EXCEPT !.pc = "check", !.cmd = cmd, !.c = config.file, !.flag = yes]
  <2>1. Fine(x, approved)
    BY DEF Fine, Fields, Idle, Approving, Claiming, Serving, Stopping
  <2>2. Become(p, x) \/ Become(p, Idle)
    BY <1>2 DEF Load
  <2>3. UNCHANGED approved /\ LoadSeen' = LoadSeen
    BY <1>2 DEF svars, LoadSeen
  <2>. QED  BY <1>1, <2>1, <2>2, <2>3, IdleFine, OneChanges DEF AllFine
<1>3. CASE Check(p)
  <2>. DEFINE dest == proc[p].c.dest
              x == [proc[p] EXCEPT !.pc = "seen_open", !.entries = LoadSeen \cup {dest}]
  <2>1. LoadSeen' = LoadSeen /\ approved \subseteq approved'
    BY <1>3 DEF Check, LoadSeen
  <2>2. CASE Allows(LoadSeen, dest) /\ Go(p, Onward(p)) /\ UNCHANGED approved
    <3>1. Cleared(proc[p], approved)
      BY <1>1, <2>2 DEF Allows, Cleared
    <3>2. Fine([proc[p] EXCEPT !.pc = Onward(p)], approved)
      BY <1>1, <1>3, <3>1 DEF Check, Onward, Fine, Fields, Cleared, Approving, Claiming, Serving, Stopping
    <3>. QED  BY <1>1, <2>1, <2>2, <3>2, OneChanges DEF AllFine, Go
  <2>3. CASE Become(p, x) /\ approved' = approved \cup {dest}
    <3>1. Fine(x, approved')
      BY <1>1, <1>3, <2>3 DEF Check, Fine, Fields, Cleared, Approving, Claiming, Serving, Stopping
    <3>. QED  BY <1>1, <2>1, <2>3, <3>1, OneChanges DEF AllFine
  <2>4. CASE Become(p, Idle) /\ UNCHANGED approved
    BY <1>1, <2>1, <2>4, IdleFine, OneChanges DEF AllFine
  <2>. QED  BY <1>3, <2>2, <2>3, <2>4 DEF Check
<1>. QED  BY <1>2, <1>3 DEF Start, Restart, Flush

(* The rest of start, and of flush: what was cleared stays cleared.        *)
LEMMA ServeFine ==
  ASSUME AllFine, NEW p \in Procs,
         \/ FlushEnds(p) \/ PidRead(p) \/ GiveUp(p) \/ PidOpen(p) \/ PidFill(p)
         \/ Listen(p) \/ Leave(p)
  PROVE  AllFine'
<1>1. Fine(proc[p], approved)
  BY DEF AllFine
<1>2. UNCHANGED approved /\ LoadSeen' = LoadSeen
  BY DEF FlushEnds, PidRead, GiveUp, PidOpen, PidFill, Listen, Leave, svars, LoadSeen
<1>3. \/ Become(p, Idle)
      \/ proc[p].pc \in Claiming /\ \E pc \in Claiming \cup Serving : Go(p, pc)
      \/ proc[p].pc \in Serving /\ \E pc \in Serving : Go(p, pc)
  BY DEF FlushEnds, PidRead, GiveUp, PidOpen, PidFill, Listen, Leave, Running, Claiming, Serving
<1>4. \E x : Fine(x, approved) /\ Become(p, x)
  BY <1>1, <1>3, IdleFine, GoesOn DEF Go
<1>. QED  BY <1>2, <1>4, OneChanges DEF AllFine

(* The removal of dispatch.pid leaves all processes in order.              *)
LEMMA RemoveFine ==
  ASSUME AllFine, NEW p \in Procs, NEW next, Fine(next, approved), Remove(p, next),
         UNCHANGED <<seen, approved>>
  PROVE  AllFine'
<1>1. ASSUME NEW q \in Procs
      PROVE  Fine(proc'[q], approved)
  <2>1. CASE q = p
    BY <2>1 DEF Remove
  <2>2. CASE q # p /\ proc[q].pc = "pid_fill"
    <3>1. proc'[q] = [proc[q] EXCEPT !.pc = "pid_lost"]
      BY <2>2 DEF Remove
    <3>. QED  BY <2>2, <3>1, GoesOn DEF AllFine, Claiming
  <2>3. CASE q # p /\ proc[q].pc # "pid_fill"
    BY <2>3 DEF Remove, AllFine
  <2>. QED  BY <2>1, <2>2, <2>3
<1>. QED  BY <1>1 DEF AllFine, Remove, LoadSeen

(* So does a signal that ends processes.                                    *)
LEMMA KillFine ==
  ASSUME AllFine, NEW p \in Procs, NEW pids, NEW next, Fine(next, approved), Kill(p, pids, next),
         UNCHANGED svars
  PROVE  AllFine'
<1>1. \A q \in Procs : Fine(proc'[q], approved)
  BY IdleFine DEF Kill, AllFine
<1>. QED  BY <1>1 DEF AllFine, Kill, LoadSeen, svars

(* stop and restart, the exit of a dispatcher, and a crash.                 *)
LEMMA StopFine ==
  ASSUME AllFine, NEW p \in Procs,
         \/ (\E force, restart \in BOOLEAN : Stop(p, force, restart))
         \/ Signal(p) \/ Poll(p) \/ PollTimeout(p) \/ StopRemove(p) \/ Exit(p) \/ Crash(p)
  PROVE  AllFine'
<1>1. Fine(proc[p], approved)
  BY DEF AllFine
<1>2. ASSUME NEW x, Fine(x, approved), Become(p, x), UNCHANGED svars
      PROVE  AllFine'
  BY <1>2, OneChanges DEF AllFine, svars, LoadSeen
<1>3. ASSUME NEW pc \in Stopping, proc[p].pc \in Stopping
      PROVE  Fine([proc[p] EXCEPT !.pc = pc], approved)
  BY <1>1, <1>3 DEF Fine, Fields, Approving, Claiming, Serving, Stopping
<1>4. ASSUME NEW force \in BOOLEAN, NEW restart \in BOOLEAN, Stop(p, force, restart)
      PROVE  AllFine'
  <2>. DEFINE self == [Idle EXCEPT !.cmd = IF restart THEN "restart" ELSE "stop", !.flag = force]
  <2>1. /\ Fine([self EXCEPT !.pc = "restart"], approved)
        /\ Fine([self EXCEPT !.pc = "signal", !.target = Written], approved)
    BY DEF Fine, Fields, Idle, Approving, Claiming, Serving, Stopping
  <2>2. \/ Become(p, [self EXCEPT !.pc = "restart"])
        \/ Become(p, [self EXCEPT !.pc = "signal", !.target = Written])
        \/ Become(p, Idle)
    BY <1>4 DEF Stop
  <2>. QED  BY <1>2, <1>4, <2>1, <2>2, IdleFine DEF Stop
<1>5. CASE Signal(p)
  <2>. DEFINE poll == [proc[p] EXCEPT !.pc = "poll"]
  <2>1. Fine(poll, approved)
    BY <1>3, <1>5 DEF Signal, Stopping
  <2>2. PICK q \in proc[p].target :
           \/ Running(q) /\ proc' = [proc EXCEPT ![p] = poll, ![q].pc = "leaving"]
           \/ Become(p, poll)
           \/ Kill(p, {q}, poll)
    BY <1>5 DEF Signal
  <2>3. CASE Running(q) /\ proc' = [proc EXCEPT ![p] = poll, ![q].pc = "leaving"]
    <3>1. q # p
      BY <1>5, <2>3 DEF Signal, Running
    <3>2. proc' = [[proc EXCEPT ![p] = poll] EXCEPT ![q].pc = "leaving"]
      BY <2>3
    <3>3. ASSUME NEW r \in Procs
          PROVE  Fine(proc'[r], approved)
      <4>1. CASE r = p
        BY <2>1, <3>1, <3>2, <4>1 DEF AllFine
      <4>2. CASE r = q
        <5>1. proc'[r] = [proc[r] EXCEPT !.pc = "leaving"]
          BY <3>1, <3>2, <4>2 DEF AllFine
        <5>. QED  BY <2>3, <4>2, <5>1, GoesOn DEF AllFine, Running, Serving
      <4>3. CASE r # p /\ r # q
        BY <3>2, <4>3 DEF AllFine
      <4>. QED  BY <4>1, <4>2, <4>3
    <3>. QED  BY <1>5, <3>2, <3>3 DEF AllFine, Signal, svars, LoadSeen
  <2>. QED  BY <1>2, <1>5, <2>1, <2>2, <2>3, KillFine DEF Signal
<1>6. CASE Poll(p)
  BY <1>2, <1>3, <1>6 DEF Poll, Go, Stopping
<1>7. CASE PollTimeout(p)
  BY <1>2, <1>3, <1>7, IdleFine, KillFine DEF PollTimeout, Stopping
<1>8. CASE StopRemove(p)
  <2>1. Fine([Idle EXCEPT !.pc = "restart", !.cmd = "restart"], approved)
    BY DEF Fine, Fields, Idle, Approving, Claiming, Serving, Stopping
  <2>. QED  BY <1>8, <2>1, IdleFine, RemoveFine DEF StopRemove
<1>9. CASE Exit(p)
  BY <1>9, IdleFine, RemoveFine DEF Exit
<1>10. CASE Crash(p)
  BY <1>10, IdleFine, KillFine DEF Crash
<1>. QED  BY <1>4, <1>5, <1>6, <1>7, <1>8, <1>9, <1>10

(* AllFine is inductive.                                                   *)
LEMMA AllFineInvariant == Spec => []AllFine
<1>1. Init => AllFine
  <2>. SUFFICES ASSUME Init PROVE AllFine
    OBVIOUS
  <2>1. proc = [p \in Procs |-> Idle] /\ LoadSeen = {}
    BY DEF Init, ConfigInit, LoadSeen, File
  <2>. QED  BY <2>1, IdleFine DEF AllFine
<1>2. AllFine /\ [Next]_vars => AllFine'
  <2>. SUFFICES ASSUME AllFine, [Next]_vars PROVE AllFine'
    OBVIOUS
  <2>1. CASE UNCHANGED vars
    BY <2>1 DEF vars, base, svars, AllFine, LoadSeen
  <2>2. CASE Next
    BY <2>2, ConfigStepFine, ApproveFine, StartFine, ServeFine, StopFine DEF Next
  <2>. QED  BY <2>1, <2>2
<1>. QED  BY <1>1, <1>2, PTL DEF Spec

(* ApprovedOnly, for every number of processes, destinations, hosts,       *)
(* commands and crashes: every way to the dispatcher goes through          *)
(* enforceFirstSendApproval, and what that reads was approved.             *)
THEOREM ApprovedOnlyTheorem == Spec => []ApprovedOnly
<1>1. AllFine => ApprovedOnly
  BY DEF AllFine, Fine, Cleared, Serving, ApprovedOnly, Sending
<1>. QED  BY <1>1, AllFineInvariant, PTL

-----------------------------------------------------------------------------
(* One dispatcher                                                          *)

Serves(q) == proc[q].pc \in Serving
Quiet == "sidecar" \notin overlap

\* As long as no start or stop overlapped another: at most one process is
\* about to use dispatch.pid, and its look at the file stays true until it has
\* written or removed it; and who has a dispatcher is in the file.
Order ==
  /\ \A p, q \in Settling : p = q
  /\ \A q \in Procs : Serves(q) => pidfile = [pid |-> q]
  /\ \A p \in Procs :
       /\ proc[p].pc \in {"pid_open", "pid_fill", "remove"} => \A q \in Procs : ~Serves(q)
       /\ proc[p].pc = "pid_fill" => pidfile = Torn
       /\ proc[p].pc # "pid_lost"
       /\ proc[p].pc \in {"signal", "poll"} =>
            \E t \in Procs : proc[p].target = {t} /\ pidfile \in {Missing, [pid |-> t]}

\* A process that neither settles nor serves.
Harmless(x) ==
  /\ x.pc \notin Claiming \cup Serving \cup Stopping
  /\ x.pc \in {"check"} \cup Approving => x.cmd \notin {"start", "stop", "restart"}

\* What a step may do to a process without a look at dispatch.pid ...
Same(q) ==
  \/ proc'[q] = proc[q]
  \/ Harmless(proc'[q])
  \/ Serves(q) /\ proc'[q].pc \in Serving

\* ... and what only one may do that alone is settling.
Settles(p) ==
  /\ p \in Settling \/ Settling = {}
  /\ proc'[p].pc \in {"check", "seen_open", "seen_fill", "pid_read", "pid_open"} \cup Stopping
  /\ proc'[p].pc \in {"pid_open", "remove"} => \A q \in Procs : ~Serves(q)
  /\ proc'[p].pc \in {"signal", "poll"} =>
       \E t \in Procs : proc'[p].target = {t} /\ pidfile \in {Missing, [pid |-> t]}

(* A step that leaves dispatch.pid alone.                                  *)
LEMMA OrderKept ==
  ASSUME Order, NEW p \in Procs, UNCHANGED pidfile,
         \A q \in Procs \ {p} : Same(q), Same(p) \/ Settles(p)
  PROVE  Order'
<1>1. \A q \in Procs : Serves(q)' => Serves(q)
  BY DEF Same, Settles, Serves, Harmless, Serving, Stopping
<1>2. \A q \in Procs \ {p} : q \in Settling' => q \in Settling
  BY DEF Same, Settling, Harmless, Serves, Serving, Claiming, Stopping, Approving
<1>3. p \in Settling' => p \in Settling \/ Settling = {}
  BY DEF Same, Settles, Settling, Harmless, Serves, Serving, Claiming, Stopping, Approving
<1>4. \A q \in Settling' : q \in Procs
  BY DEF Settling
<1>5. \A q, r \in Settling' : q = r
  BY <1>2, <1>3, <1>4 DEF Order
<1>6. ASSUME NEW q \in Procs, Same(q)
      PROVE  /\ proc'[q].pc \in {"pid_open", "pid_fill", "remove"} => \A r \in Procs : ~Serves(r)
             /\ proc'[q].pc = "pid_fill" => pidfile = Torn
             /\ proc'[q].pc # "pid_lost"
             /\ proc'[q].pc \in {"signal", "poll"} =>
                  \E t \in Procs : proc'[q].target = {t} /\ pidfile \in {Missing, [pid |-> t]}
  BY <1>6 DEF Order, Same, Harmless, Serving, Claiming, Stopping
<1>7. ASSUME Settles(p)
      PROVE  /\ proc'[p].pc \in {"pid_open", "pid_fill", "remove"} => \A r \in Procs : ~Serves(r)
             /\ proc'[p].pc = "pid_fill" => pidfile = Torn
             /\ proc'[p].pc # "pid_lost"
             /\ proc'[p].pc \in {"signal", "poll"} =>
                  \E t \in Procs : proc'[p].target = {t} /\ pidfile \in {Missing, [pid |-> t]}
  BY <1>7 DEF Settles, Stopping
<1>8. \A q \in Procs :
        /\ proc'[q].pc \in {"pid_open", "pid_fill", "remove"} => \A r \in Procs : ~Serves(r)
        /\ proc'[q].pc = "pid_fill" => pidfile = Torn
        /\ proc'[q].pc # "pid_lost"
        /\ proc'[q].pc \in {"signal", "poll"} =>
             \E t \in Procs : proc'[q].target = {t} /\ pidfile \in {Missing, [pid |-> t]}
  BY <1>6, <1>7
<1>. QED  BY <1>1, <1>5, <1>8 DEF Order, Missing

(* What a start or a stop that overlaps none finds when it begins.          *)
LEMMA LaunchedQuietly ==
  ASSUME NEW p \in Procs, NEW kind, NEW others, Launch(p, kind, others), Quiet'
  PROVE  Quiet /\ proc[p].pc = "idle" /\ (kind = "sidecar" => others = {})
BY DEF Launch, Quiet, Busy

(* A step of one process, whatever it is, that leaves it harmless.          *)
LEMMA HarmlessStep ==
  ASSUME AllFine, Order, NEW p \in Procs, NEW x, Harmless(x), Become(p, x), UNCHANGED pidfile
  PROVE  Order'
<1>1. Same(p) /\ \A q \in Procs \ {p} : Same(q)
  BY DEF AllFine, Become, Same
<1>. QED  BY <1>1, OrderKept

(* No process between commands does harm.                                  *)
LEMMA IdleHarmless == Harmless(Idle)
BY DEF Harmless, Idle, Claiming, Serving, Stopping, Approving

(* Once commands overlapped, it stays said that they did.                  *)
LEMMA StillQuiet ==
  ASSUME Next, Quiet'
  PROVE  Quiet
<1>1. PICK p \in Procs :
        \/ ConfigStep(p) /\ UNCHANGED svars
        \/ Approve(p) \/ (\E host \in Hosts : ApproveHost(p, host)) \/ SeenOpen(p) \/ SeenFill(p)
        \/ \E yes \in BOOLEAN : Start(p, yes) \/ Restart(p, yes) \/ Flush(p, yes)
        \/ Check(p) \/ FlushEnds(p) \/ PidRead(p) \/ GiveUp(p) \/ PidOpen(p) \/ PidFill(p)
        \/ Listen(p) \/ Leave(p) \/ Exit(p)
        \/ \E force, restart \in BOOLEAN : Stop(p, force, restart)
        \/ Signal(p) \/ Poll(p) \/ PollTimeout(p) \/ StopRemove(p) \/ Crash(p)
  BY DEF Next
<1>2. overlap \subseteq overlap'
  <2>1. CASE ConfigStep(p)
    BY <2>1 DEF ConfigStep, Set, InitPlain, InitWithToken, InitWithKey, Exchange, ExchangeFails, Put, PutFails,
         PutOpen, PutFill, PutRename, Validate, Open, Fill, Rename, Launch
  <2>2. CASE \/ Approve(p) \/ (\E host \in Hosts : ApproveHost(p, host)) \/ SeenOpen(p) \/ SeenFill(p)
             \/ \E yes \in BOOLEAN : Start(p, yes) \/ Restart(p, yes) \/ Flush(p, yes)
    BY <2>2 DEF Approve, ApproveHost, SeenOpen, SeenFill, Start, Restart, Flush, Launch
  <2>3. CASE \/ Check(p) \/ FlushEnds(p) \/ PidRead(p) \/ GiveUp(p) \/ PidOpen(p) \/ PidFill(p)
             \/ Listen(p) \/ Leave(p) \/ Exit(p)
    BY <2>3 DEF Check, FlushEnds, PidRead, GiveUp, PidOpen, PidFill, Listen, Leave, Exit
  <2>4. CASE \/ \E force, restart \in BOOLEAN : Stop(p, force, restart)
             \/ Signal(p) \/ Poll(p) \/ PollTimeout(p) \/ StopRemove(p) \/ Crash(p)
    BY <2>4 DEF Stop, Signal, Poll, PollTimeout, StopRemove, Crash, Launch
  <2>. QED  BY <1>1, <2>1, <2>2, <2>3, <2>4
<1>. QED  BY <1>2 DEF Quiet

(* The commands that have nothing to do with dispatch.pid.                 *)
LEMMA OrderAside ==
  ASSUME AllFine, Order, NEW p \in Procs,
         \/ ConfigStep(p) /\ UNCHANGED svars
         \/ Approve(p) \/ (\E host \in Hosts : ApproveHost(p, host))
         \/ \E yes \in BOOLEAN : Flush(p, yes)
         \/ FlushEnds(p) \/ GiveUp(p)
  PROVE  Order'
<1>1. UNCHANGED pidfile
  BY DEF Approve, ApproveHost, Flush, FlushEnds, GiveUp, svars
<1>2. CASE ConfigStep(p)
  <2>. DEFINE pcs == {"exchange", "put", "put_open", "put_fill", "put_rename", "validate",
                      "open", "fill", "rename"}
  <2>1. ASSUME NEW x, x.pc \in pcs
        PROVE  Harmless(x)
    BY <2>1 DEF Harmless, Claiming, Serving, Stopping, Approving
  <2>2. DOMAIN proc[p] = Fields
    BY DEF AllFine, Fine
  <2>3. \A pc \in pcs : Harmless([proc[p] EXCEPT !.pc = pc])
    BY <2>1, <2>2 DEF Fields
  <2>4. UNCHANGED proc \/ \E x : Harmless(x) /\ Become(p, x)
    <3>1. ASSUME NEW key \in {"initial", "max"}, NEW v \in Values, Set(p, key, v)
          PROVE  UNCHANGED proc \/ \E x : Harmless(x) /\ Become(p, x)
      <4>. DEFINE x == [Idle EXCEPT !.pc = "open", !.cmd = key, !.c = [config.file EXCEPT ![key] = v]]
      <4>1. Harmless(x)
        BY DEF Idle, Harmless, Claiming, Serving, Stopping, Approving
      <4>. QED  BY <3>1, <4>1 DEF Set
    <3>2. CASE \E dest \in Dests : InitPlain(p, dest)
      BY <3>2 DEF InitPlain, Idle, Harmless, Claiming, Serving, Stopping, Approving
    <3>3. CASE \E dest \in Dests, bad \in BOOLEAN : InitWithToken(p, dest, bad)
      BY <3>3 DEF InitWithToken, Idle, Harmless, Claiming, Serving, Stopping, Approving
    <3>4. CASE \E dest \in Dests, bad \in BOOLEAN : InitWithKey(p, dest, bad)
      BY <3>4 DEF InitWithKey, Idle, Harmless, Claiming, Serving, Stopping, Approving
    <3>5. CASE Exchange(p)
      <4>. DEFINE x == [proc[p] EXCEPT !.pc = "put", !.c.agent = agents + 1]
      <4>1. Harmless(x)
        BY <2>2 DEF Fields, Harmless, Claiming, Serving, Stopping, Approving
      <4>. QED  BY <3>5, <4>1, IdleHarmless DEF Exchange
    <3>6. CASE \/ ExchangeFails(p) \/ Put(p) \/ PutFails(p) \/ PutOpen(p) \/ PutFill(p) \/ PutRename(p)
               \/ Validate(p) \/ Open(p) \/ Fill(p) \/ Rename(p)
      <4>1. Become(p, Idle) \/ \E pc \in pcs : Go(p, pc)
        BY <3>6 DEF ExchangeFails, Put, PutFails, PutOpen, PutFill, PutRename, Validate, Open, Fill, Rename
      <4>. QED  BY <2>3, <4>1, IdleHarmless DEF Go
    <3>. QED  BY <1>2, <3>1, <3>2, <3>3, <3>4, <3>5, <3>6 DEF ConfigStep
  <2>5. CASE UNCHANGED proc
    BY <1>1, <2>5, OrderKept DEF Same
  <2>. QED  BY <1>1, <2>4, <2>5, HarmlessStep
<1>3. CASE Approve(p) \/ \E host \in Hosts : ApproveHost(p, host)
  <2>1. \A entries : Harmless([Idle EXCEPT !.pc = "seen_open", !.cmd = "approve", !.entries = entries])
    BY DEF Harmless, Idle, Claiming, Serving, Stopping, Approving
  <2>2. CASE UNCHANGED proc
    BY <1>1, <2>2, OrderKept DEF Same
  <2>3. UNCHANGED proc \/ \E entries : Become(p, [Idle EXCEPT !.pc = "seen_open", !.cmd = "approve", !.entries = entries])
    BY <1>3 DEF Approve, ApproveHost
  <2>. QED  BY <1>1, <2>1, <2>2, <2>3, HarmlessStep
<1>4. ASSUME NEW yes \in BOOLEAN, Flush(p, yes)
      PROVE  Order'
  <2>. DEFINE x == [Idle EXCEPT !.pc = "check", !.cmd = "flush", !.c = config.file, !.flag = yes]
  <2>1. Harmless(x)
    BY DEF Harmless, Idle, Claiming, Serving, Stopping, Approving
  <2>2. Become(p, x) \/ Become(p, Idle)
    BY <1>4 DEF Flush, Load
  <2>. QED  BY <1>1, <2>1, <2>2, IdleHarmless, HarmlessStep
<1>5. CASE FlushEnds(p) \/ GiveUp(p)
  BY <1>1, <1>5, IdleHarmless, HarmlessStep DEF FlushEnds, GiveUp
<1>. QED  BY <1>2, <1>3, <1>4, <1>5

(* start, up to its look at dispatch.pid: it settles alone.                *)
LEMMA OrderStart ==
  ASSUME AllFine, Order, NEW p \in Procs, Quiet',
         \/ \E yes \in BOOLEAN : Start(p, yes) \/ Restart(p, yes)
         \/ SeenOpen(p) \/ SeenFill(p) \/ Check(p) \/ PidRead(p) \/ Listen(p) \/ Leave(p)
  PROVE  Order'
<1>1. UNCHANGED pidfile /\ \A q \in Procs \ {p} : Same(q)
  BY DEF AllFine, Start, Restart, Load, SeenOpen, SeenFill, Check, PidRead, Listen, Leave, Go, Become, svars, Same
<1>2. Fine(proc[p], approved) /\ p \in DOMAIN proc
  BY DEF AllFine
<1>3. SUFFICES Same(p) \/ Settles(p)
  BY <1>1, OrderKept
<1>4. ASSUME Become(p, Idle)
      PROVE  Same(p)
  BY <1>2, <1>4, IdleHarmless DEF Become, Same
<1>5. ASSUME NEW yes \in BOOLEAN, Load(p, "start", yes), p \in Settling \/ Settling = {}
      PROVE  Same(p) \/ Settles(p)
  <2>. DEFINE x == [Idle EXCEPT !.pc = "check", !.cmd = "start", !.c = config.file, !.flag = yes]
  <2>1. x.pc = "check"
    BY DEF Idle
  <2>2. Become(p, x) => Settles(p)
    BY <1>2, <1>5, <2>1 DEF Become, Settles
  <2>. QED  BY <1>4, <1>5, <2>2 DEF Load
<1>6. ASSUME NEW yes \in BOOLEAN, Start(p, yes)
      PROVE  Same(p) \/ Settles(p)
  BY <1>5, <1>6, LaunchedQuietly DEF Start
<1>7. ASSUME NEW yes \in BOOLEAN, Restart(p, yes)
      PROVE  Same(p) \/ Settles(p)
  <2>1. p \in Settling
    BY <1>2, <1>7 DEF Restart, Settling, Fine, Stopping
  <2>. QED  BY <1>5, <1>7, <2>1 DEF Restart
<1>8. CASE SeenOpen(p) \/ SeenFill(p) \/ Check(p)
  <2>1. proc[p].pc \in {"check"} \cup Approving /\ proc[p].cmd \in {"start", "flush", "approve"}
    BY <1>2, <1>8 DEF SeenOpen, SeenFill, Check, Fine, Approving
  <2>2. \/ Become(p, Idle)
        \/ /\ DOMAIN proc'[p] = Fields /\ proc'[p].cmd = proc[p].cmd
           /\ \/ proc'[p].pc \in Approving
              \/ proc'[p].pc = Onward(p) /\ proc[p].cmd # "approve"
    <3>1. CASE SeenOpen(p)
      BY <1>2, <3>1 DEF SeenOpen, Go, Become, Fine, Fields, Approving
    <3>2. CASE SeenFill(p)
      BY <1>2, <3>2 DEF SeenFill, Become, Fine, Fields
    <3>3. CASE Check(p)
      <4>. DEFINE seen_open == [proc[p] EXCEPT !.pc = "seen_open", !.entries = LoadSeen \cup {proc[p].c.dest}]
      <4>1. Go(p, Onward(p)) \/ Become(p, seen_open) \/ Become(p, Idle)
        BY <3>3 DEF Check
      <4>2. DOMAIN proc[p] = Fields /\ proc[p].cmd # "approve"
        BY <1>2, <3>3 DEF Check, Fine
      <4>3. Go(p, Onward(p)) =>
              DOMAIN proc'[p] = Fields /\ proc'[p].cmd = proc[p].cmd /\ proc'[p].pc = Onward(p)
        BY <1>2, <4>2 DEF Go, Become, Fields
      <4>4. Become(p, seen_open) =>
              DOMAIN proc'[p] = Fields /\ proc'[p].cmd = proc[p].cmd /\ proc'[p].pc = "seen_open"
        BY <1>2, <4>2 DEF Become, Fields
      <4>. QED  BY <4>1, <4>2, <4>3, <4>4 DEF Approving
    <3>. QED  BY <1>8, <3>1, <3>2, <3>3
  <2>3. CASE proc[p].cmd = "start"
    <3>1. p \in Settling
      BY <2>1, <2>3 DEF Settling, Approving
    <3>. QED  BY <1>4, <2>2, <2>3, <3>1 DEF Onward, Settles, Approving
  <2>4. CASE proc[p].cmd # "start"
    <3>1. Become(p, Idle) \/ Harmless(proc'[p])
      BY <2>1, <2>2, <2>4 DEF Onward, Harmless, Approving, Claiming, Serving, Stopping
    <3>. QED  BY <1>4, <3>1 DEF Same
  <2>. QED  BY <2>3, <2>4
<1>9. CASE PidRead(p)
  <2>1. p \in Settling
    BY <1>2, <1>9 DEF PidRead, Settling, Fine, Claiming
  <2>2. CASE Alive(Written)
    BY <1>4, <1>9, <2>2 DEF PidRead
  <2>3. CASE ~Alive(Written)
    <3>1. ASSUME NEW q \in Procs, Serves(q)
          PROVE  FALSE
      <4>1. pidfile = [pid |-> q]
        BY <3>1 DEF Order
      <4>2. Written = {q}
        BY <4>1 DEF Written, Pid
      <4>. QED  BY <2>3, <3>1, <4>2 DEF Alive, Busy, Serves, Serving
    <3>2. proc'[p].pc = "pid_open"
      BY <1>2, <1>9, <2>3 DEF PidRead, Go, Become, Fine, Fields
    <3>. QED  BY <2>1, <3>1, <3>2 DEF Settles
  <2>. QED  BY <2>2, <2>3
<1>10. CASE Listen(p) \/ Leave(p)
  BY <1>2, <1>10 DEF Listen, Leave, Running, Go, Become, Same, Serves, Serving, Fine, Fields
<1>. QED  BY <1>6, <1>7, <1>8, <1>9, <1>10

(* Whoever uses dispatch.pid is settling.                                  *)
LEMMA UsersSettle ==
  ASSUME AllFine, NEW p \in Procs, proc[p].pc \in Claiming \cup Stopping
  PROVE  p \in Settling
BY DEF AllFine, Fine, Settling, Claiming, Stopping

(* start writes its process id.                                            *)
LEMMA OrderClaim ==
  ASSUME AllFine, Order, NEW p \in Procs, PidOpen(p) \/ PidFill(p)
  PROVE  Order'
<1>1. proc[p].pc \in {"pid_open", "pid_fill"} /\ p \in Settling
  BY UsersSettle DEF PidOpen, PidFill, Order, Claiming
<1>2. \A q \in Procs : ~Serves(q)
  BY <1>1 DEF Order
<1>3. \A q \in Procs \ {p} : proc[q].pc \notin Claiming \cup Stopping \cup Serving /\ q \notin Settling
  BY <1>1, <1>2, UsersSettle DEF Order, Serves
<1>4. /\ \A q \in Procs \ {p} : proc'[q] = proc[q]
      /\ proc'[p].pc = IF PidOpen(p) THEN "pid_fill" ELSE "filled"
  BY DEF AllFine, Fine, Fields, PidOpen, PidFill, Go, Become
<1>5. pidfile' = IF PidOpen(p) THEN Torn ELSE [pid |-> p]
  BY <1>1 DEF PidOpen, PidFill, Order, Over
<1>6. \A q \in Settling' : q = p
  BY <1>3, <1>4 DEF Settling
<1>7. \A q \in Procs : Serves(q)' => q = p /\ ~PidOpen(p)
  BY <1>3, <1>4 DEF Serves, Serving
<1>8. \A q \in Procs \ {p} : proc'[q].pc \notin Claiming \cup Stopping
  BY <1>3, <1>4
<1>. QED  BY <1>4, <1>5, <1>6, <1>7, <1>8 DEF Order, Claiming, Stopping

(* A dispatcher, or a stop, removes dispatch.pid: no other start or stop is  *)
(* at it, and no other dispatcher is in it.                                *)
LEMMA OrderRemove ==
  ASSUME AllFine, Order, NEW p \in Procs, Exit(p) \/ StopRemove(p)
  PROVE  Order'
<1>1. \A q \in Procs \ {p} : ~Serves(q)
  BY DEF Exit, StopRemove, Order, Serves, Serving
<1>2. \A q \in Procs \ {p} : proc[q].pc # "pid_fill"
  BY UsersSettle DEF Exit, StopRemove, Order, Serves, Serving, Claiming, Stopping
<1>3. /\ pidfile' = Missing
      /\ \A q \in Procs \ {p} : proc'[q] = proc[q]
      /\ proc'[p].pc \in {"idle", "restart"}
  <2>. DEFINE again == [Idle EXCEPT !.pc = "restart", !.cmd = "restart"]
  <2>1. PICK next \in {Idle, again} : Remove(p, next)
    BY DEF Exit, StopRemove
  <2>2. proc'[p].pc \in {"idle", "restart"}
    <3>1. proc'[p] = next
      BY <2>1 DEF Remove
    <3>2. Idle.pc = "idle" /\ again.pc = "restart"
      BY DEF Idle
    <3>. QED  BY <3>1, <3>2
  <2>3. pidfile' = Missing /\ \A q \in Procs \ {p} : proc'[q] = proc[q]
    BY <1>2, <2>1 DEF Remove
  <2>. QED  BY <2>2, <2>3
<1>4. proc'[p].pc = "restart" => p \in Settling
  <2>1. StopRemove(p) => p \in Settling
    BY UsersSettle DEF StopRemove, Stopping
  <2>2. Exit(p) => proc'[p].pc = "idle"
    BY DEF Exit, Remove, Idle
  <2>. QED  BY <2>1, <2>2
<1>5. p \in Settling' => p \in Settling
  BY <1>3, <1>4 DEF Settling
<1>6. \A q \in Settling' : q \in Settling
  BY <1>3, <1>5 DEF Settling
<1>7. \A q \in Procs : ~Serves(q)'
  BY <1>1, <1>3 DEF Serves, Serving
<1>8. \A q \in Procs \ {p} :
        /\ proc'[q].pc \notin {"pid_fill", "pid_lost"}
        /\ proc'[q].pc \in {"signal", "poll"} => \E t \in Procs : proc'[q].target = {t}
  BY <1>2, <1>3 DEF Order
<1>. QED  BY <1>3, <1>6, <1>7, <1>8 DEF Order

(* A step that ends processes and takes stop's process on.                  *)
LEMMA OrderKill ==
  ASSUME AllFine, Order, NEW p \in Procs, NEW pids, NEW next, Kill(p, pids, next),
         UNCHANGED pidfile, p \in pids \/ Harmless(next) \/ Settles(p)
  PROVE  Order'
<1>1. \A q \in Procs \ {p} : Same(q)
  BY IdleHarmless DEF Kill, Same
<1>2. Same(p) \/ Settles(p)
  BY IdleHarmless DEF Kill, Same
<1>. QED  BY <1>1, <1>2, OrderKept

(* stop, and crashes.                                                      *)
LEMMA OrderStop ==
  ASSUME AllFine, Order, NEW p \in Procs, Quiet',
         \/ \E force, restart \in BOOLEAN : Stop(p, force, restart)
         \/ Signal(p) \/ Poll(p) \/ PollTimeout(p) \/ Crash(p)
  PROVE  Order'
<1>1. UNCHANGED pidfile
  BY DEF Stop, Signal, Poll, PollTimeout, Crash, svars
<1>2. DOMAIN proc[p] = Fields /\ p \in DOMAIN proc /\ proc = [q \in Procs |-> proc[q]]
  BY DEF AllFine, Fine
<1>3. ASSUME NEW x, Become(p, x)
      PROVE  proc'[p] = x /\ \A q \in Procs \ {p} : Same(q)
  BY <1>2, <1>3 DEF Become, Same
<1>4. ASSUME NEW force \in BOOLEAN, NEW restart \in BOOLEAN, Stop(p, force, restart)
      PROVE  Order'
  <2>. DEFINE self == [Idle EXCEPT !.cmd = IF restart THEN "restart" ELSE "stop", !.flag = force]
              again == [self EXCEPT !.pc = "restart"]
              signal == [self EXCEPT !.pc = "signal", !.target = Written]
  <2>1. Settling = {}
    BY <1>4, LaunchedQuietly DEF Stop
  <2>2. again.pc = "restart" /\ signal.pc = "signal" /\ signal.target = Written
    BY DEF Idle
  <2>3. CASE Become(p, Idle)
    BY <1>1, <2>3, IdleHarmless, HarmlessStep
  <2>4. CASE Become(p, again)
    <3>1. Settles(p)
      BY <1>3, <2>1, <2>2, <2>4 DEF Settles, Stopping
    <3>. QED  BY <1>1, <1>3, <2>4, <3>1, OrderKept
  <2>5. CASE Become(p, signal) /\ pidfile \in Pid
    <3>1. PICK t \in Procs : pidfile = [pid |-> t]
      BY <2>5 DEF Pid
    <3>2. Written = {t}
      BY <2>5, <3>1 DEF Written
    <3>3. Settles(p)
      BY <1>3, <2>1, <2>2, <2>5, <3>1, <3>2 DEF Settles, Stopping
    <3>. QED  BY <1>1, <1>3, <2>5, <3>3, OrderKept
  <2>. QED  BY <1>4, <2>3, <2>4, <2>5 DEF Stop
<1>5. ASSUME proc[p].pc \in {"signal", "poll"}
      PROVE  p \in Settling /\ \E t \in Procs : proc[p].target = {t} /\ pidfile \in {Missing, [pid |-> t]}
  BY <1>5, UsersSettle DEF Order, Stopping
<1>6. CASE Signal(p)
  <2>. DEFINE poll == [proc[p] EXCEPT !.pc = "poll"]
  <2>1. poll.pc = "poll" /\ poll.target = proc[p].target
    BY <1>2 DEF Fields
  <2>2. PICK q \in proc[p].target :
           \/ Running(q) /\ proc' = [proc EXCEPT ![p] = poll, ![q].pc = "leaving"]
           \/ Become(p, poll)
           \/ proc[q].pc # "idle" /\ Kill(p, {q}, poll)
    BY <1>6 DEF Signal
  <2>3. q \in Procs
    BY <1>5, <1>6 DEF Signal
  <2>4. proc'[p] = poll => Settles(p)
    BY <1>5, <1>6, <2>1 DEF Signal, Settles, Stopping
  <2>5. CASE Running(q) /\ proc' = [proc EXCEPT ![p] = poll, ![q].pc = "leaving"]
    <3>1. q # p
      BY <1>6, <2>5 DEF Signal, Running
    <3>2. proc'[p] = poll /\ \A r \in Procs \ {p, q} : proc'[r] = proc[r]
      BY <1>2, <2>5, <3>1
    <3>3. DOMAIN proc[q] = Fields
      BY <2>3 DEF AllFine, Fine
    <3>4. proc'[q].pc = "leaving"
      BY <1>2, <2>3, <2>5, <3>1, <3>3 DEF Fields
    <3>5. \A r \in Procs \ {p} : Same(r)
      BY <2>5, <3>2, <3>4 DEF Same, Serves, Serving, Running
    <3>. QED  BY <1>1, <2>4, <3>2, <3>5, OrderKept
  <2>6. CASE Become(p, poll)
    BY <1>1, <1>3, <2>4, <2>6, OrderKept
  <2>7. CASE Kill(p, {q}, poll)
    <3>1. p \in {q} \/ proc'[p] = poll
      BY <2>7 DEF Kill
    <3>. QED  BY <1>1, <2>4, <2>7, <3>1, OrderKill
  <2>. QED  BY <2>2, <2>5, <2>6, <2>7
<1>7. CASE Poll(p)
  <2>1. PICK t \in Procs : proc[p].target = {t} /\ pidfile \in {Missing, [pid |-> t]}
    BY <1>5, <1>7 DEF Poll
  <2>2. \A q \in Procs : ~Serves(q)
    BY <1>7, <2>1 DEF Poll, Alive, Busy, Order, Serves, Serving, Missing
  <2>3. proc'[p].pc = "remove"
    BY <1>2, <1>7 DEF Poll, Go, Become, Fields
  <2>4. Settles(p)
    BY <1>5, <1>7, <2>2, <2>3 DEF Poll, Settles, Stopping
  <2>. QED  BY <1>1, <1>3, <1>7, <2>4, OrderKept DEF Poll, Go
<1>8. CASE PollTimeout(p)
  <2>. DEFINE remove == [proc[p] EXCEPT !.pc = "remove"]
  <2>1. CASE Become(p, Idle)
    BY <1>1, <2>1, IdleHarmless, HarmlessStep
  <2>2. CASE Kill(p, proc[p].target, remove)
    (* The target may serve when it is killed, so this is not OrderKill's. *)
    <3>1. PICK t \in Procs : proc[p].target = {t} /\ pidfile \in {Missing, [pid |-> t]}
      BY <1>5, <1>8 DEF PollTimeout
    <3>2. \A q \in Procs \ {t} : ~Serves(q)
      BY <3>1 DEF Order, Missing
    <3>3. proc'[t] = Idle /\ \A q \in Procs \ {p, t} : proc'[q] = proc[q]
      BY <2>2, <3>1 DEF Kill
    <3>4. CASE p = t
      BY <1>1, <2>2, <3>1, <3>4, OrderKill
    <3>5. CASE p # t
      <4>1. proc'[p].pc = "remove" /\ p \in Settling
        BY <1>2, <1>5, <1>8, <2>2, <3>1, <3>5 DEF Kill, PollTimeout, Fields
      <4>2. \A q \in Procs : ~Serves(q)'
        BY <3>2, <3>3, <4>1 DEF Serves, Serving, Idle
      <4>3. \A q \in Procs \ {p} : q \notin Settling /\ proc[q].pc \notin Claiming \cup Stopping
        BY <4>1, UsersSettle DEF Order
      <4>4. \A q \in Procs \ {p} : q \notin Settling' /\ proc'[q].pc \notin Claiming \cup Stopping
        BY <3>3, <4>3 DEF Settling, Idle, Claiming, Stopping
      <4>5. \A q \in Settling' : q = p
        BY <4>4 DEF Settling
      <4>. QED  BY <4>1, <4>2, <4>4, <4>5 DEF Order, Claiming, Stopping
    <3>. QED  BY <3>4, <3>5
  <2>. QED  BY <1>8, <2>1, <2>2 DEF PollTimeout
<1>9. CASE Crash(p)
  BY <1>1, <1>9, OrderKill DEF Crash
<1>. QED  BY <1>4, <1>6, <1>7, <1>8, <1>9

(* OneSidecar, for every number of processes, commands and crashes: as long *)
(* as no start or stop overlaps another, what start read in dispatch.pid    *)
(* stays true until it has written its own process id, and a stop removes   *)
(* the file only after the process in it is gone.                           *)
THEOREM OneSidecarTheorem == Spec => []OneSidecar
<1>1. Init => AllFine /\ (Quiet => Order)
  <2>. SUFFICES ASSUME Init PROVE AllFine /\ Order
    OBVIOUS
  <2>1. proc = [p \in Procs |-> Idle] /\ LoadSeen = {}
    BY DEF Init, ConfigInit, LoadSeen, File
  <2>2. AllFine
    BY <2>1, IdleFine DEF AllFine
  <2>3. \A p \in Procs : proc[p].pc = "idle"
    BY <2>1 DEF Idle
  <2>. QED  BY <2>2, <2>3 DEF Order, Settling, Serves, Serving
<1>2. AllFine /\ (Quiet => Order) /\ [Next]_vars => (Quiet => Order)'
  <2>. SUFFICES ASSUME AllFine, Quiet => Order, [Next]_vars, Quiet' PROVE Order'
    OBVIOUS
  <2>1. CASE UNCHANGED vars
    BY <2>1 DEF vars, base, svars, Quiet, Order, Settling, Serves
  <2>2. CASE Next
    <3>1. Order
      BY <2>2, StillQuiet
    <3>. QED  BY <2>2, <3>1, OrderAside, OrderStart, OrderClaim, OrderRemove, OrderStop DEF Next
  <2>. QED  BY <2>1, <2>2
<1>3. (Quiet => Order) => OneSidecar
  <2>. SUFFICES ASSUME Order
                PROVE  Cardinality({p \in Procs : Running(p)}) =< 1
    BY DEF Quiet, OneSidecar
  <2>1. \A p, q \in Procs : Running(p) /\ Running(q) => p = q
    BY DEF Order, Serves, Serving, Running
  <2>2. CASE {p \in Procs : Running(p)} = {}
    BY <2>2, FS_EmptySet
  <2>3. ASSUME NEW q \in Procs, {p \in Procs : Running(p)} = {q}
        PROVE  Cardinality({p \in Procs : Running(p)}) =< 1
    <3>1. Cardinality({q}) = 1
      BY FS_Singleton
    <3>. QED  BY <2>3, <3>1
  <2>. QED  BY <2>1, <2>2, <2>3
<1>. QED  BY <1>1, <1>2, <1>3, AllFineInvariant, PTL DEF Spec

-----------------------------------------------------------------------------
(* Settings and keys: writers of config.yaml and credentials.enc that do   *)
(* not overlap.                                                            *)

Settings == {"dest", "agent", "initial", "max"}
Storing == {"put", "put_open", "put_fill", "put_rename"}
Writing == {"open", "fill", "rename"}
Initing == {"exchange", "validate"} \cup Storing
WritersApart == "writers" \notin overlap

\* A config as Save gets it.
IsConfig(c) == DOMAIN c = Settings /\ c.agent \in Nat

\* c is the config w with one setting changed.
Updates(c, w, key) ==
  w # Absent /\ key \in {"initial", "max"} /\ c = [w EXCEPT ![key] = c[key]]

\* A writer goes by what the files say, has open what it writes, and what it
\* has written is as it wrote it.
Steady(p) ==
  LET x == proc[p]
  IN  /\ x.pc \in Initing \cup Writing => IsConfig(x.c)
      /\ x.pc \in Initing => x.cmd = "init"
      /\ x.pc \in Storing => x.c.agent > 0
      /\ x.pc \in Writing =>
           /\ Valid(x.c)
           /\ x.cmd # "init" => Updates(x.c, want, x.cmd)
      /\ x.pc \in {"validate"} \cup Writing /\ x.cmd = "init" /\ x.c.agent > 0 =>
           store.file = [key |-> x.c.agent]
      /\ config.fd[p] = IF x.pc = "fill" THEN "tmp" ELSE "none"
      /\ store.fd[p] = IF x.pc = "put_fill" THEN "tmp" ELSE "none"
      /\ x.pc = "fill" => config.tmp = Torn
      /\ x.pc = "rename" => config.tmp = x.c
      /\ x.pc = "put_fill" => store.tmp = Torn
      /\ x.pc = "put_rename" => store.tmp = [key |-> x.c.agent]

\* The files themselves: the config is what was wanted, and the key in the
\* store that of its agent.
FilesAgree ==
  /\ config.file = want
  /\ want # Absent => IsConfig(want) /\ Valid(want)
  /\ store.file = NoKey \/ \E k \in Nat \ {0} : store.file = [key |-> k]
  /\ want # Absent /\ want.agent > 0 =>
       store.file # NoKey /\ (halfway \/ store.file.key = want.agent)

Shapes ==
  /\ DOMAIN config = {"file", "tmp", "fd"} /\ DOMAIN config.fd = Procs
  /\ DOMAIN store = {"file", "tmp", "fd"} /\ DOMAIN store.fd = Procs
  /\ agents \in Nat

Apart ==
  /\ Shapes
  /\ FilesAgree
  /\ \A p, q \in Saving : p = q
  /\ \A p \in Procs : Steady(p)

\* What a step that writes neither file may do to a process.
Idles(q) ==
  \/ proc'[q] = proc[q] /\ config'.fd[q] = config.fd[q] /\ store'.fd[q] = store.fd[q]
  \/ /\ proc'[q].pc \notin Initing \cup Writing
     /\ config'.fd[q] = "none" /\ store'.fd[q] = "none"

(* A command of Sidecar, or the end of a process.                          *)
LEMMA ApartKept ==
  ASSUME Apart, Shapes', \A q \in Procs : Idles(q),
         UNCHANGED <<config.file, config.tmp, store.file, store.tmp, want, halfway>>
  PROVE  Apart'
<1>1. FilesAgree'
  BY DEF Apart, FilesAgree
<1>2. \A q \in Saving' : q \in Saving
  BY DEF Saving, Idles, Initing, Storing, Writing
<1>3. ASSUME NEW q \in Procs
      PROVE  Steady(q)'
  <2>1. CASE proc'[q] = proc[q] /\ config'.fd[q] = config.fd[q] /\ store'.fd[q] = store.fd[q]
    BY <2>1 DEF Apart, Steady
  <2>2. CASE /\ proc'[q].pc \notin Initing \cup Writing
             /\ config'.fd[q] = "none" /\ store'.fd[q] = "none"
    BY <2>2 DEF Steady, Initing, Storing, Writing
  <2>. QED  BY <2>1, <2>2 DEF Idles
<1>. QED  BY <1>1, <1>2, <1>3 DEF Apart

(* A config that init makes is one that Save can write.                    *)
LEMMA DefaultIsConfig ==
  ASSUME NEW dest, NEW agent \in Nat
  PROVE  IsConfig(Default(dest, agent)) /\ Valid(Default(dest, agent)) /\ Default(dest, agent).agent = agent
<1>. DEFINE most == CHOOSE v \in Values : \A w \in Values : w =< v
<1>1. 1 =< most
  BY ConfigConstantsOK
<1>. HIDE DEF most
<1>2. Default(dest, agent) = [dest |-> dest, agent |-> agent, initial |-> 1, max |-> most]
  BY DEF Default, most
<1>. QED  BY <1>1, <1>2 DEF IsConfig, Settings, Valid

(* What a step of p leaves to the others, when p is the only writer.        *)
LEMMA OneWriter ==
  ASSUME Apart, NEW p \in Procs, \A q \in Saving : q = p,
         Shapes', FilesAgree', Steady(p)',
         \A q \in Procs \ {p} :
           proc'[q] = proc[q] /\ config'.fd[q] = config.fd[q] /\ store'.fd[q] = store.fd[q]
  PROVE  Apart'
<1>1. ASSUME NEW q \in Procs \ {p}
      PROVE  proc[q].pc \notin Initing \cup Writing /\ config.fd[q] = "none" /\ store.fd[q] = "none"
  <2>1. proc[q].pc \notin Initing \cup Writing
    BY <1>1 DEF Saving, Initing, Storing, Writing
  <2>. QED  BY <2>1 DEF Apart, Steady, Initing, Storing, Writing
<1>2. ASSUME NEW q \in Procs \ {p}
      PROVE  q \notin Saving' /\ Steady(q)'
  <2>1. proc'[q].pc \notin Initing \cup Writing /\ config'.fd[q] = "none" /\ store'.fd[q] = "none"
    BY <1>1
  <2>. QED  BY <2>1 DEF Saving, Steady, Initing, Storing, Writing
<1>3. \A q, r \in Saving' : q = r
  BY <1>2 DEF Saving
<1>. QED  BY <1>2, <1>3 DEF Apart

LEMMA Becomes ==
  ASSUME AllFine, NEW p \in Procs, NEW x, Become(p, x)
  PROVE  proc'[p] = x /\ \A q \in Procs \ {p} : proc'[q] = proc[q]
BY DEF AllFine, Become

(* A writer's step that leaves the files alone.                            *)
LEMMA FilesAside ==
  ASSUME AllFine, Apart, NEW p \in Procs, \A q \in Saving : q = p,
         NEW x, Become(p, x), Steady(p)', agents' \in Nat,
         UNCHANGED <<config, store, want, halfway>>
  PROVE  Apart'
<1>1. Shapes' /\ FilesAgree'
  BY DEF Apart, Shapes, FilesAgree
<1>. QED  BY <1>1, OneWriter, Becomes

(* A writer that begins while no other is at work.                         *)
LEMMA Launched ==
  ASSUME AllFine, NEW p \in Procs, Launch(p, "writers", Saving), WritersApart', WritersApart => Apart
  PROVE  Apart /\ Saving = {} /\ config.fd[p] = "none" /\ store.fd[p] = "none"
<1>1. Apart /\ Saving = {}
  BY DEF Launch, WritersApart
<1>2. proc[p].pc = "idle"
  BY DEF Launch, Busy
<1>. QED  BY <1>1, <1>2 DEF Apart, Steady

(* config set, and the beginning of init.                                  *)
LEMMA ApartLaunch ==
  ASSUME AllFine, NEW p \in Procs, WritersApart', WritersApart => Apart,
         \/ \E key \in {"initial", "max"}, v \in Values : Set(p, key, v)
         \/ \E dest \in Dests : InitPlain(p, dest)
         \/ \E dest \in Dests, bad \in BOOLEAN : InitWithToken(p, dest, bad) \/ InitWithKey(p, dest, bad)
  PROVE  Apart'
<1>0. Launch(p, "writers", Saving)
  BY DEF Set, InitPlain, InitWithToken, InitWithKey
<1>1. Apart /\ Saving = {} /\ config.fd[p] = "none" /\ store.fd[p] = "none"
  BY <1>0, Launched
<1>2. ASSUME NEW key \in {"initial", "max"}, NEW v \in Values, Set(p, key, v)
      PROVE  Apart'
  <2>. DEFINE c == [config.file EXCEPT ![key] = v]
              x == [Idle EXCEPT !.pc = "open", !.cmd = key, !.c = c]
  <2>1. CASE Loads(config.file) /\ Valid(c)
    <3>1. Become(p, x) /\ UNCHANGED cvars
      BY <1>2, <2>1 DEF Set
    <3>2. x.pc = "open" /\ x.cmd = key /\ x.c = c
      BY DEF Idle
    <3>3. want # Absent /\ config.file = want /\ IsConfig(want)
      BY <1>1, <2>1 DEF Loads, Apart, FilesAgree
    <3>4. IsConfig(c) /\ Updates(c, want, key)
      BY <3>3 DEF IsConfig, Settings, Updates
    <3>5. proc'[p] = x
      BY <3>1, Becomes
    <3>6. Steady(p)'
      BY <1>1, <2>1, <3>1, <3>2, <3>3, <3>4, <3>5 DEF Steady, Initing, Storing, Writing, cvars
    <3>7. agents' \in Nat /\ UNCHANGED <<config, store, want, halfway>>
      BY <1>1, <3>1 DEF cvars, Apart, Shapes
    <3>. QED  BY <1>1, <3>1, <3>6, <3>7, FilesAside
  <2>2. CASE ~(Loads(config.file) /\ Valid(c))
    <3>1. UNCHANGED <<proc, cvars>>
      BY <1>2, <2>2 DEF Set
    <3>. QED  BY <1>1, <3>1 DEF cvars, Apart, Shapes, FilesAgree, Saving, Steady
  <2>. QED  BY <2>1, <2>2
<1>3. ASSUME NEW pc \in {"exchange", "put", "validate"}, NEW dest, NEW agent \in Nat,
             pc = "put" => agent > 0, pc # "put" => agent = 0,
             NEW x, x.pc = pc, x.cmd = "init", x.c = Default(dest, agent), Become(p, x),
             agents' \in Nat, UNCHANGED <<config, store, want, halfway>>
      PROVE  Apart'
  <2>1. proc'[p] = x
    BY <1>3, Becomes
  <2>2. IsConfig(x.c) /\ x.c.agent = agent
    BY <1>3, DefaultIsConfig
  <2>3. Steady(p)'
    BY <1>1, <1>3, <2>1, <2>2 DEF Steady, Initing, Storing, Writing
  <2>. QED  BY <1>1, <1>3, <2>3, FilesAside
<1>4. ASSUME NEW dest \in Dests, InitPlain(p, dest)
      PROVE  Apart'
  <2>. DEFINE x == [Idle EXCEPT !.pc = "validate", !.cmd = "init", !.c = Default(dest, 0)]
  <2>1. Become(p, x) /\ agents' \in Nat /\ UNCHANGED <<config, store, want, halfway>>
    BY <1>1, <1>4 DEF InitPlain, cvars, Apart, Shapes
  <2>2. x.pc = "validate" /\ x.cmd = "init" /\ x.c = Default(dest, 0)
    BY DEF Idle
  <2>. HIDE DEF x
  <2>. QED  BY <1>3, <2>1, <2>2
<1>5. ASSUME NEW dest \in Dests, NEW bad \in BOOLEAN, InitWithToken(p, dest, bad)
      PROVE  Apart'
  <2>. DEFINE x == [Idle EXCEPT !.pc = "exchange", !.cmd = "init", !.c = Default(dest, 0), !.flag = bad]
  <2>1. Become(p, x) /\ agents' \in Nat /\ UNCHANGED <<config, store, want, halfway>>
    BY <1>1, <1>5 DEF InitWithToken, cvars, Apart, Shapes
  <2>2. x.pc = "exchange" /\ x.cmd = "init" /\ x.c = Default(dest, 0)
    BY DEF Idle
  <2>. HIDE DEF x
  <2>. QED  BY <1>3, <2>1, <2>2
<1>6. ASSUME NEW dest \in Dests, NEW bad \in BOOLEAN, InitWithKey(p, dest, bad)
      PROVE  Apart'
  <2>. DEFINE x == [Idle EXCEPT !.pc = "put", !.cmd = "init", !.c = Default(dest, agents + 1), !.flag = bad]
  <2>1. agents + 1 \in Nat /\ agents + 1 > 0
    BY <1>1 DEF Apart, Shapes
  <2>2. Become(p, x) /\ agents' = agents + 1 /\ UNCHANGED <<config, store, want, halfway>>
    BY <1>6 DEF InitWithKey
  <2>3. x.pc = "put" /\ x.cmd = "init" /\ x.c = Default(dest, agents + 1)
    BY DEF Idle
  <2>. HIDE DEF x
  <2>. QED  BY <1>3, <2>1, <2>2, <2>3
<1>. QED  BY <1>2, <1>4, <1>5, <1>6

(* init, from the exchange of the token to the key in the store.           *)
LEMMA ApartStore ==
  ASSUME AllFine, Apart, NEW p \in Procs,
         \/ Exchange(p) \/ ExchangeFails(p) \/ Put(p) \/ PutFails(p)
         \/ PutOpen(p) \/ PutFill(p) \/ PutRename(p)
  PROVE  Apart'
<1>. DEFINE x == proc[p]
<1>1. \A q \in Saving : q = p
  <2>1. p \in Saving
    BY DEF Saving, Exchange, ExchangeFails, Put, PutFails, PutOpen, PutFill, PutRename
  <2>. QED  BY <2>1 DEF Apart
<1>2. /\ Steady(p) /\ Shapes /\ FilesAgree /\ DOMAIN x = Fields
      /\ x.pc \in Initing /\ IsConfig(x.c) /\ x.cmd = "init" /\ config.fd[p] = "none"
  <2>1. Steady(p) /\ Shapes /\ FilesAgree /\ DOMAIN x = Fields
    BY DEF AllFine, Fine, Apart
  <2>2. x.pc \in Initing
    BY DEF Initing, Storing, Exchange, ExchangeFails, Put, PutFails, PutOpen, PutFill, PutRename
  <2>. QED  BY <2>1, <2>2 DEF Steady, Initing, Storing, Writing
<1>3. ASSUME Become(p, Idle), store.fd[p] = "none", UNCHANGED <<config, store, want, halfway>>, agents' \in Nat
      PROVE  Apart'
  <2>1. proc'[p].pc = "idle"
    BY <1>3, Becomes DEF Idle
  <2>2. Steady(p)'
    BY <1>2, <1>3, <2>1 DEF Steady, Initing, Storing, Writing
  <2>. QED  BY <1>1, <1>3, <2>2, FilesAside
<1>4. ASSUME NEW pc, Go(p, pc)
      PROVE  /\ proc'[p].pc = pc /\ proc'[p].cmd = x.cmd /\ proc'[p].c = x.c
             /\ \A q \in Procs \ {p} : proc'[q] = proc[q]
  BY <1>2, <1>4, Becomes DEF Go, Fields
<1>5. CASE Exchange(p)
  <2>. DEFINE y == [proc[p] EXCEPT !.pc = "put", !.c.agent = agents + 1]
  <2>1. agents' = agents + 1 /\ agents' \in Nat /\ agents' > 0 /\ UNCHANGED <<config, store, want, halfway>>
    BY <1>2, <1>5 DEF Exchange, Shapes
  <2>2. store.fd[p] = "none"
    BY <1>2, <1>5 DEF Exchange, Steady
  <2>3. CASE Become(p, y)
    <3>1. y.pc = "put" /\ y.cmd = "init" /\ y.c = [x.c EXCEPT !.agent = agents + 1]
      BY <1>2 DEF Fields
    <3>2. IsConfig(y.c) /\ y.c.agent = agents + 1
      BY <1>2, <2>1, <3>1 DEF IsConfig, Settings
    <3>3. proc'[p] = y
      BY <2>3, Becomes
    <3>. HIDE DEF y
    <3>4. Steady(p)'
      BY <1>2, <2>1, <2>2, <3>1, <3>2, <3>3 DEF Steady, Initing, Storing, Writing
    <3>. QED  BY <1>1, <2>1, <2>3, <3>4, FilesAside
  <2>. QED  BY <1>3, <1>5, <2>1, <2>2, <2>3 DEF Exchange
<1>6. CASE ExchangeFails(p) \/ PutFails(p)
  <2>1. store.fd[p] = "none"
    BY <1>2, <1>6 DEF ExchangeFails, PutFails, Steady
  <2>. QED  BY <1>2, <1>3, <1>6, <2>1 DEF ExchangeFails, PutFails, cvars, Shapes
<1>7. CASE Put(p)
  <2>1. Steady(p)'
    BY <1>2, <1>4, <1>7 DEF Put, Steady, Initing, Storing, Writing, cvars
  <2>. QED  BY <1>1, <1>2, <1>7, <2>1, FilesAside DEF Put, Go, cvars, Shapes
<1>8. CASE PutOpen(p)
  <2>1. store' = [store EXCEPT !.tmp = Torn, !.fd[p] = "tmp"] /\ UNCHANGED <<config, agents, want, halfway>>
    BY <1>8 DEF PutOpen, OpenTmp
  <2>2. /\ store'.file = store.file /\ store'.tmp = Torn /\ store'.fd[p] = "tmp"
        /\ \A q \in Procs \ {p} : store'.fd[q] = store.fd[q]
        /\ DOMAIN store' = {"file", "tmp", "fd"} /\ DOMAIN store'.fd = Procs
    BY <1>2, <2>1 DEF Shapes
  <2>3. Shapes' /\ FilesAgree'
    BY <1>2, <2>1, <2>2 DEF Shapes, FilesAgree
  <2>4. Steady(p)'
    BY <1>2, <1>4, <1>8, <2>1, <2>2 DEF PutOpen, Steady, Initing, Storing, Writing
  <2>. QED  BY <1>1, <1>4, <1>8, <2>1, <2>2, <2>3, <2>4, OneWriter DEF PutOpen
<1>9. CASE PutFill(p)
  <2>1. store.fd[p] = "tmp" /\ store.tmp = Torn /\ x.c.agent > 0
    BY <1>2, <1>9 DEF PutFill, Steady, Storing
  <2>2. store' = [[store EXCEPT !.fd[p] = "none"] EXCEPT !.tmp = [key |-> x.c.agent]]
    BY <1>9, <2>1 DEF PutFill, FillTmp, Over
  <2>3. /\ store'.file = store.file /\ store'.tmp = [key |-> x.c.agent] /\ store'.fd[p] = "none"
        /\ \A q \in Procs \ {p} : store'.fd[q] = store.fd[q]
        /\ DOMAIN store' = {"file", "tmp", "fd"} /\ DOMAIN store'.fd = Procs
    BY <1>2, <2>2 DEF Shapes
  <2>4. Shapes' /\ FilesAgree'
    BY <1>2, <1>9, <2>3 DEF PutFill, Shapes, FilesAgree
  <2>5. Steady(p)'
    BY <1>2, <1>4, <1>9, <2>1, <2>3 DEF PutFill, Steady, Initing, Storing, Writing
  <2>. QED  BY <1>1, <1>4, <1>9, <2>3, <2>4, <2>5, OneWriter DEF PutFill
<1>10. CASE PutRename(p)
  <2>1. store.fd[p] = "none" /\ store.tmp = [key |-> x.c.agent] /\ x.c.agent > 0 /\ x.c.agent \in Nat
    BY <1>2, <1>10 DEF PutRename, Steady, Storing, IsConfig
  <2>2. CASE ~CanRename(store)
    <3>1. agents' \in Nat
      BY <1>2, <1>10 DEF PutRename, Shapes
    <3>. QED  BY <1>3, <1>10, <2>1, <2>2, <3>1 DEF PutRename
  <2>3. CASE CanRename(store)
    <3>1. store' = RenameTmp(store) /\ Go(p, "validate") /\ halfway' = TRUE
          /\ UNCHANGED <<config, agents, want>>
      BY <1>10, <2>3 DEF PutRename
    <3>2. \A q \in Procs : store.fd[q] = "none"
      <4>1. \A q \in Procs \ {p} : proc[q].pc # "put_fill"
        BY <1>1 DEF Saving
      <4>. QED  BY <2>1, <4>1 DEF Apart, Steady
    <3>3. /\ store'.file = [key |-> x.c.agent]
          /\ \A q \in Procs : store'.fd[q] = store.fd[q]
          /\ DOMAIN store' = {"file", "tmp", "fd"} /\ DOMAIN store'.fd = Procs
      BY <1>2, <2>1, <3>1, <3>2 DEF Shapes, RenameTmp
    <3>4. Shapes' /\ FilesAgree'
      BY <1>2, <2>1, <3>1, <3>3 DEF Shapes, FilesAgree, NoKey
    <3>5. Steady(p)'
      BY <1>2, <1>4, <2>1, <3>1, <3>3 DEF Steady, Initing, Storing, Writing
    <3>. QED  BY <1>1, <1>4, <3>1, <3>3, <3>4, <3>5, OneWriter
  <2>. QED  BY <2>2, <2>3
<1>. QED  BY <1>5, <1>6, <1>7, <1>8, <1>9, <1>10

(* config.Save, for both: what is renamed is what was wanted.              *)
LEMMA ApartSave ==
  ASSUME AllFine, Apart, NEW p \in Procs, Validate(p) \/ Open(p) \/ Fill(p) \/ Rename(p)
  PROVE  Apart'
<1>. DEFINE x == proc[p]
<1>1. \A q \in Saving : q = p
  <2>1. p \in Saving
    BY DEF Saving, Validate, Open, Fill, Rename
  <2>. QED  BY <2>1 DEF Apart
<1>2. /\ Steady(p) /\ Shapes /\ FilesAgree /\ DOMAIN x = Fields
      /\ x.pc \in {"validate"} \cup Writing /\ IsConfig(x.c) /\ store.fd[p] = "none"
      /\ (x.cmd = "init" /\ x.c.agent > 0) => store.file = [key |-> x.c.agent]
  <2>1. Steady(p) /\ Shapes /\ FilesAgree /\ DOMAIN x = Fields
    BY DEF AllFine, Fine, Apart
  <2>2. x.pc \in {"validate"} \cup Writing
    BY DEF Writing, Validate, Open, Fill, Rename
  <2>. QED  BY <2>1, <2>2 DEF Steady, Initing, Storing, Writing
<1>3. ASSUME Become(p, Idle)
      PROVE  proc'[p].pc = "idle" /\ \A q \in Procs \ {p} : proc'[q] = proc[q]
  BY <1>3, Becomes DEF Idle
<1>4. ASSUME NEW pc, Go(p, pc)
      PROVE  /\ proc'[p].pc = pc /\ proc'[p].cmd = x.cmd /\ proc'[p].c = x.c
             /\ \A q \in Procs \ {p} : proc'[q] = proc[q]
  BY <1>2, <1>4, Becomes DEF Go, Fields
<1>9. ASSUME x.pc \in Writing
      PROVE  /\ Valid(x.c)
             /\ x.cmd # "init" => Updates(x.c, want, x.cmd)
  BY <1>2, <1>9 DEF Steady
<1>5. CASE Validate(p)
  <2>1. UNCHANGED <<config, store, want, halfway>> /\ agents' \in Nat
    BY <1>2, <1>5 DEF Validate, cvars, Shapes
  <2>2. x.pc = "validate" /\ config.fd[p] = "none" /\ x.cmd = "init"
    BY <1>2, <1>5 DEF Validate, Steady, Initing, Storing
  <2>3. CASE Become(p, Idle)
    <3>1. Steady(p)'
      BY <1>2, <1>3, <2>1, <2>2, <2>3 DEF Steady, Initing, Storing, Writing
    <3>. QED  BY <1>1, <2>1, <2>3, <3>1, FilesAside
  <2>4. CASE Valid(x.c) /\ Go(p, "open")
    <3>1. Steady(p)'
      BY <1>2, <1>4, <2>1, <2>2, <2>4 DEF Steady, Initing, Storing, Writing
    <3>. QED  BY <1>1, <2>1, <2>4, <3>1, FilesAside DEF Go
  <2>. QED  BY <1>5, <2>3, <2>4 DEF Validate
<1>6. CASE Open(p)
  <2>1. config' = [config EXCEPT !.tmp = Torn, !.fd[p] = "tmp"] /\ UNCHANGED <<store, agents, want, halfway>>
    BY <1>6 DEF Open, OpenTmp
  <2>2. /\ config'.file = config.file /\ config'.tmp = Torn /\ config'.fd[p] = "tmp"
        /\ \A q \in Procs \ {p} : config'.fd[q] = config.fd[q]
        /\ DOMAIN config' = {"file", "tmp", "fd"} /\ DOMAIN config'.fd = Procs
    BY <1>2, <2>1 DEF Shapes
  <2>3. Shapes' /\ FilesAgree'
    BY <1>2, <2>1, <2>2 DEF Shapes, FilesAgree
  <2>4. Steady(p)'
    <3>1. x.pc \in Writing /\ Go(p, "fill")
      BY <1>6 DEF Open, Writing
    <3>. QED  BY <1>2, <1>4, <1>9, <2>1, <2>2, <3>1 DEF Steady, Initing, Storing, Writing
  <2>. QED  BY <1>1, <1>4, <1>6, <2>1, <2>2, <2>3, <2>4, OneWriter DEF Open
<1>7. CASE Fill(p)
  <2>1. config.fd[p] = "tmp" /\ config.tmp = Torn
    BY <1>2, <1>7 DEF Fill, Steady
  <2>2. config' = [[config EXCEPT !.fd[p] = "none"] EXCEPT !.tmp = x.c]
    BY <1>7, <2>1 DEF Fill, FillTmp, Over
  <2>3. /\ config'.file = config.file /\ config'.tmp = x.c /\ config'.fd[p] = "none"
        /\ \A q \in Procs \ {p} : config'.fd[q] = config.fd[q]
        /\ DOMAIN config' = {"file", "tmp", "fd"} /\ DOMAIN config'.fd = Procs
    BY <1>2, <2>2 DEF Shapes
  <2>4. Shapes' /\ FilesAgree'
    BY <1>2, <1>7, <2>3 DEF Fill, Shapes, FilesAgree
  <2>5. Steady(p)'
    <3>1. x.pc \in Writing /\ Go(p, "rename") /\ UNCHANGED <<store, want>>
      BY <1>7 DEF Fill, Writing
    <3>. QED  BY <1>2, <1>4, <1>9, <2>3, <3>1 DEF Steady, Initing, Storing, Writing
  <2>. QED  BY <1>1, <1>4, <1>7, <2>3, <2>4, <2>5, OneWriter DEF Fill
<1>8. CASE Rename(p)
  <2>1. /\ config.fd[p] = "none" /\ config.tmp = x.c /\ Valid(x.c)
        /\ x.cmd # "init" => Updates(x.c, want, x.cmd)
    BY <1>2, <1>8, <1>9 DEF Rename, Steady, Writing
  <2>2. Become(p, Idle) /\ UNCHANGED <<store, agents>>
    BY <1>8 DEF Rename
  <2>3. CASE ~CanRename(config)
    <3>1. UNCHANGED <<config, want, halfway>>
      BY <1>8, <2>3 DEF Rename
    <3>2. Steady(p)'
      BY <1>2, <1>3, <2>1, <2>2, <3>1 DEF Steady, Initing, Storing, Writing
    <3>. QED  BY <1>1, <1>2, <2>2, <3>1, <3>2, FilesAside DEF Shapes
  <2>4. CASE CanRename(config)
    <3>1. /\ config' = RenameTmp(config)
          /\ want' = IF x.cmd = "init" \/ want = Absent THEN x.c ELSE [want EXCEPT ![x.cmd] = x.c[x.cmd]]
          /\ halfway' = (halfway /\ (x.cmd # "init" \/ x.c.agent = 0))
      BY <1>8, <2>4 DEF Rename
    <3>2. \A q \in Procs : config.fd[q] = "none"
      <4>1. \A q \in Procs \ {p} : proc[q].pc # "fill"
        BY <1>1 DEF Saving
      <4>. QED  BY <2>1, <4>1 DEF Apart, Steady
    <3>3. /\ config'.file = x.c
          /\ \A q \in Procs : config'.fd[q] = config.fd[q]
          /\ DOMAIN config' = {"file", "tmp", "fd"} /\ DOMAIN config'.fd = Procs
      BY <1>2, <2>1, <3>1, <3>2 DEF Shapes, RenameTmp
    <3>4. want' = x.c
      BY <2>1, <3>1 DEF Updates
    <3>5. x.c.agent > 0 => store.file # NoKey /\ (halfway' \/ store.file.key = x.c.agent)
      <4>1. CASE x.cmd = "init"
        BY <1>2, <4>1 DEF NoKey
      <4>2. CASE x.cmd # "init"
        <5>1. want # Absent /\ x.cmd \in {"initial", "max"} /\ IsConfig(want)
          BY <1>2, <2>1, <4>2 DEF FilesAgree, Updates
        <5>2. x.c.agent = want.agent
          BY <2>1, <4>2, <5>1 DEF IsConfig, Settings, Updates
        <5>3. halfway' <=> halfway
          BY <3>1, <4>2
        <5>. QED  BY <1>2, <5>1, <5>2, <5>3 DEF FilesAgree
      <4>. QED  BY <4>1, <4>2
    <3>6. Shapes' /\ FilesAgree'
      BY <1>2, <2>1, <2>2, <3>3, <3>4, <3>5 DEF Shapes, FilesAgree
    <3>7. Steady(p)'
      BY <1>2, <1>3, <2>1, <2>2, <3>3 DEF Steady, Initing, Storing, Writing
    <3>. QED  BY <1>1, <1>3, <2>2, <3>3, <3>6, <3>7, OneWriter
  <2>. QED  BY <2>3, <2>4
<1>. QED  BY <1>5, <1>6, <1>7, <1>8

(* The commands of Sidecar write neither file.                             *)
LEMMA ApartAside ==
  ASSUME AllFine, Apart, NEW p \in Procs,
         NEW x, x.pc \notin Initing \cup Writing, proc[p].pc \notin {"fill", "put_fill"},
         Become(p, x), UNCHANGED cvars
  PROVE  Apart'
<1>1. config.fd[p] = "none" /\ store.fd[p] = "none"
  BY DEF Apart, Steady
<1>2. \A q \in Procs : Idles(q)
  BY <1>1, Becomes DEF Idles, cvars
<1>. QED  BY <1>2, ApartKept DEF cvars, Apart, Shapes

LEMMA ApartRemove ==
  ASSUME AllFine, Apart, NEW p \in Procs,
         NEW next, next.pc \notin Initing \cup Writing, proc[p].pc \notin {"fill", "put_fill"},
         Remove(p, next), UNCHANGED cvars
  PROVE  Apart'
<1>1. config.fd[p] = "none" /\ store.fd[p] = "none"
  BY DEF Apart, Steady
<1>2. ASSUME NEW q \in Procs, q # p, proc[q].pc = "pid_fill"
      PROVE  Idles(q)
  <2>1. config.fd[q] = "none" /\ store.fd[q] = "none"
    BY <1>2 DEF Apart, Steady
  <2>2. proc'[q].pc = "pid_lost"
    BY <1>2 DEF Remove, AllFine, Fine, Fields
  <2>. QED  BY <2>1, <2>2 DEF Idles, cvars, Initing, Storing, Writing
<1>3. \A q \in Procs : Idles(q)
  BY <1>1, <1>2 DEF Idles, Remove, cvars
<1>. QED  BY <1>3, ApartKept DEF cvars, Apart, Shapes

LEMMA ApartKill ==
  ASSUME AllFine, Apart, NEW p \in Procs, NEW pids,
         NEW next, next.pc \notin Initing \cup Writing, p \in pids \/ proc[p].pc \notin {"fill", "put_fill"},
         Kill(p, pids, next)
  PROVE  Apart'
<1>1. p \notin pids => config.fd[p] = "none" /\ store.fd[p] = "none"
  BY DEF Apart, Steady
<1>2. /\ UNCHANGED <<config.file, config.tmp, store.file, store.tmp, want, halfway>>
      /\ \A q \in Procs : /\ config'.fd[q] = IF q \in pids THEN "none" ELSE config.fd[q]
                          /\ store'.fd[q] = IF q \in pids THEN "none" ELSE store.fd[q]
      /\ Shapes'
  BY DEF Kill, Apart, Shapes
<1>3. ASSUME NEW q \in Procs
      PROVE  Idles(q)
  <2>1. proc'[q] = IF q \in pids THEN Idle ELSE IF q = p THEN next ELSE proc[q]
    BY DEF Kill
  <2>2. Idle.pc \notin Initing \cup Writing
    BY DEF Idle, Initing, Storing, Writing
  <2>. QED  BY <1>1, <1>2, <2>1, <2>2 DEF Idles
<1>. QED  BY <1>2, <1>3, ApartKept

(* start, flush and the approvals.                                         *)
LEMMA ApartServe ==
  ASSUME AllFine, Apart, NEW p \in Procs,
         \/ Approve(p) \/ (\E host \in Hosts : ApproveHost(p, host)) \/ SeenOpen(p) \/ SeenFill(p)
         \/ \E yes \in BOOLEAN : Start(p, yes) \/ Restart(p, yes) \/ Flush(p, yes)
         \/ Check(p) \/ FlushEnds(p) \/ PidRead(p) \/ GiveUp(p) \/ PidOpen(p) \/ PidFill(p)
         \/ Listen(p) \/ Leave(p)
  PROVE  Apart'
<1>. DEFINE Ours(x) == x.pc \notin Initing \cup Writing
<1>1. Ours(Idle)
  BY DEF Idle, Initing, Storing, Writing
<1>2. UNCHANGED cvars /\ proc[p].pc \notin {"fill", "put_fill"}
  BY DEF Approve, ApproveHost, SeenOpen, SeenFill, Start, Restart, Flush, Launch, Busy, Check, FlushEnds,
         PidRead, GiveUp, PidOpen, PidFill, Listen, Leave, Running
<1>3. DOMAIN proc[p] = Fields
  BY DEF AllFine, Fine
<1>4. ASSUME NEW pc \in {"seen_fill", "sending", "pid_read", "pid_open", "pid_fill", "filled", "running", "leaving"}
      PROVE  Ours([proc[p] EXCEPT !.pc = pc])
  BY <1>3 DEF Fields, Initing, Storing, Writing
<1>5. UNCHANGED proc \/ \E x : Ours(x) /\ Become(p, x)
  <2>1. CASE Approve(p) \/ \E host \in Hosts : ApproveHost(p, host)
    BY <2>1 DEF Approve, ApproveHost, Idle, Initing, Storing, Writing
  <2>2. CASE SeenFill(p)
    <3>1. [proc[p] EXCEPT !.pc = Onward(p), !.entries = {}].pc \in {"sending", "pid_read"}
      BY <1>3 DEF Fields, Onward
    <3>. QED  BY <1>1, <2>2, <3>1 DEF SeenFill, Initing, Storing, Writing
  <2>3. ASSUME NEW yes \in BOOLEAN, NEW cmd, Load(p, cmd, yes)
        PROVE  \E x : Ours(x) /\ Become(p, x)
    <3>1. Ours([Idle EXCEPT !.pc = "check", !.cmd = cmd, !.c = config.file, !.flag = yes])
      BY DEF Idle, Initing, Storing, Writing
    <3>. QED  BY <1>1, <2>3, <3>1 DEF Load
  <2>4. CASE Check(p)
    <3>. DEFINE x == [proc[p] EXCEPT !.pc = "seen_open", !.entries = LoadSeen \cup {proc[p].c.dest}]
    <3>1. Ours(x)
      BY <1>3 DEF Fields, Initing, Storing, Writing
    <3>2. Go(p, Onward(p)) \/ Become(p, x) \/ Become(p, Idle)
      BY <2>4 DEF Check
    <3>. QED  BY <1>1, <1>4, <3>1, <3>2 DEF Go, Onward
  <2>5. CASE SeenOpen(p) \/ FlushEnds(p) \/ PidRead(p) \/ GiveUp(p) \/ PidOpen(p) \/ PidFill(p) \/ Listen(p) \/ Leave(p)
    <3>1. \/ Become(p, Idle)
          \/ \E pc \in {"seen_fill", "pid_open", "pid_fill", "filled", "running", "leaving"} : Go(p, pc)
      BY <2>5 DEF SeenOpen, FlushEnds, PidRead, GiveUp, PidOpen, PidFill, Listen, Leave
    <3>. QED  BY <1>1, <1>4, <3>1 DEF Go
  <2>. QED  BY <2>1, <2>2, <2>3, <2>4, <2>5 DEF Start, Restart, Flush
<1>6. CASE UNCHANGED proc
  BY <1>2, <1>6 DEF cvars, Apart, Shapes, FilesAgree, Saving, Steady
<1>. QED  BY <1>2, <1>5, <1>6, ApartAside

(* stop and restart, the exit of a dispatcher, and a crash.                *)
LEMMA ApartStop ==
  ASSUME AllFine, Apart, NEW p \in Procs,
         \/ (\E force, restart \in BOOLEAN : Stop(p, force, restart))
         \/ Signal(p) \/ Poll(p) \/ PollTimeout(p) \/ StopRemove(p) \/ Exit(p) \/ Crash(p)
  PROVE  Apart'
<1>. DEFINE Ours(x) == x.pc \notin Initing \cup Writing
<1>1. Ours(Idle)
  BY DEF Idle, Initing, Storing, Writing
<1>2. DOMAIN proc[p] = Fields
  BY DEF AllFine, Fine
<1>3. ASSUME NEW pc \in {"poll", "remove"}
      PROVE  Ours([proc[p] EXCEPT !.pc = pc])
  BY <1>2 DEF Fields, Initing, Storing, Writing
<1>4. ASSUME NEW force \in BOOLEAN, NEW restart \in BOOLEAN, Stop(p, force, restart)
      PROVE  Apart'
  <2>. DEFINE self == [Idle EXCEPT !.cmd = IF restart THEN "restart" ELSE "stop", !.flag = force]
  <2>1. Ours([self EXCEPT !.pc = "restart"]) /\ Ours([self EXCEPT !.pc = "signal", !.target = Written])
    BY DEF Idle, Initing, Storing, Writing
  <2>2. \/ Become(p, [self EXCEPT !.pc = "restart"])
        \/ Become(p, [self EXCEPT !.pc = "signal", !.target = Written])
        \/ Become(p, Idle)
    BY <1>4 DEF Stop
  <2>3. UNCHANGED cvars /\ proc[p].pc = "idle"
    BY <1>4 DEF Stop, Launch, Busy
  <2>. QED  BY <1>1, <2>1, <2>2, <2>3, ApartAside
<1>5. CASE Signal(p)
  <2>. DEFINE poll == [proc[p] EXCEPT !.pc = "poll"]
  <2>1. proc[p].pc = "signal" /\ Ours(poll)
    BY <1>3, <1>5 DEF Signal
  <2>2. PICK q \in proc[p].target :
           \/ Running(q) /\ proc' = [proc EXCEPT ![p] = poll, ![q].pc = "leaving"] /\ UNCHANGED cvars
           \/ Become(p, poll) /\ UNCHANGED cvars
           \/ Kill(p, {q}, poll)
    BY <1>5 DEF Signal
  <2>3. CASE Running(q) /\ proc' = [proc EXCEPT ![p] = poll, ![q].pc = "leaving"] /\ UNCHANGED cvars
    <3>1. q # p
      BY <2>1, <2>3 DEF Running
    <3>2. proc' = [[proc EXCEPT ![p] = poll] EXCEPT ![q].pc = "leaving"]
      BY <2>3
    <3>3. proc'[p] = poll /\ \A r \in Procs \ {p, q} : proc'[r] = proc[r]
      BY <3>1, <3>2 DEF AllFine
    <3>4. ASSUME q \in Procs
          PROVE  proc'[q].pc = "leaving"
      <4>1. proc'[q] = [proc[q] EXCEPT !.pc = "leaving"]
        BY <3>1, <3>2, <3>4 DEF AllFine
      <4>. QED  BY <3>4, <4>1 DEF AllFine, Fine, Fields
    <3>5. ASSUME NEW r \in Procs, r \in {p, q}
          PROVE  proc'[r].pc \notin Initing \cup Writing /\ config.fd[r] = "none" /\ store.fd[r] = "none"
      <4>1. proc[r].pc \notin {"fill", "put_fill"}
        BY <2>1, <2>3, <3>5 DEF Running
      <4>. QED  BY <2>1, <3>3, <3>4, <3>5, <4>1 DEF Apart, Steady, Initing, Storing, Writing
    <3>6. \A r \in Procs : Idles(r)
      BY <2>3, <3>3, <3>5 DEF Idles, cvars
    <3>. QED  BY <2>3, <3>6, ApartKept DEF cvars, Apart, Shapes
  <2>. QED  BY <2>1, <2>2, <2>3, ApartAside, ApartKill
<1>6. CASE Poll(p)
  BY <1>3, <1>6, ApartAside DEF Poll, Go
<1>7. CASE PollTimeout(p)
  BY <1>1, <1>3, <1>7, ApartAside, ApartKill DEF PollTimeout
<1>8. CASE StopRemove(p)
  <2>1. Ours([Idle EXCEPT !.pc = "restart", !.cmd = "restart"])
    BY DEF Idle, Initing, Storing, Writing
  <2>. QED  BY <1>1, <1>8, <2>1, ApartRemove DEF StopRemove
<1>9. CASE Exit(p)
  BY <1>1, <1>9, ApartRemove DEF Exit
<1>10. CASE Crash(p)
  BY <1>1, <1>10, ApartKill DEF Crash
<1>. QED  BY <1>4, <1>5, <1>6, <1>7, <1>8, <1>9, <1>10

(* What has overlapped stays so, and only a launch is asked about it.      *)
LEMMA StillApart ==
  ASSUME NEW p \in Procs, WritersApart',
         \/ Exchange(p) \/ ExchangeFails(p) \/ Put(p) \/ PutFails(p)
         \/ PutOpen(p) \/ PutFill(p) \/ PutRename(p)
         \/ Validate(p) \/ Open(p) \/ Fill(p) \/ Rename(p)
         \/ Approve(p) \/ (\E host \in Hosts : ApproveHost(p, host)) \/ SeenOpen(p) \/ SeenFill(p)
         \/ (\E yes \in BOOLEAN : Start(p, yes) \/ Restart(p, yes) \/ Flush(p, yes))
         \/ Check(p) \/ FlushEnds(p) \/ PidRead(p) \/ GiveUp(p) \/ PidOpen(p) \/ PidFill(p)
         \/ Listen(p) \/ Leave(p) \/ Exit(p)
         \/ (\E force, restart \in BOOLEAN : Stop(p, force, restart))
         \/ Signal(p) \/ Poll(p) \/ PollTimeout(p) \/ StopRemove(p) \/ Crash(p)
  PROVE  WritersApart
<1>1. CASE \/ Exchange(p) \/ ExchangeFails(p) \/ Put(p) \/ PutFails(p)
           \/ PutOpen(p) \/ PutFill(p) \/ PutRename(p)
           \/ Validate(p) \/ Open(p) \/ Fill(p) \/ Rename(p)
  BY <1>1 DEF WritersApart, Exchange, ExchangeFails, Put, PutFails, PutOpen, PutFill, PutRename,
              Validate, Open, Fill, Rename
<1>2. CASE \/ Approve(p) \/ (\E host \in Hosts : ApproveHost(p, host))
           \/ (\E yes \in BOOLEAN : Start(p, yes) \/ Flush(p, yes))
           \/ (\E force, restart \in BOOLEAN : Stop(p, force, restart))
  BY <1>2 DEF WritersApart, Approve, ApproveHost, Start, Flush, Stop, Launch
<1>3. CASE \/ SeenOpen(p) \/ SeenFill(p) \/ (\E yes \in BOOLEAN : Restart(p, yes))
           \/ Check(p) \/ FlushEnds(p) \/ PidRead(p) \/ GiveUp(p) \/ PidOpen(p) \/ PidFill(p)
           \/ Listen(p) \/ Leave(p) \/ Exit(p)
           \/ Signal(p) \/ Poll(p) \/ PollTimeout(p) \/ StopRemove(p) \/ Crash(p)
  BY <1>3 DEF WritersApart, SeenOpen, SeenFill, Restart, Check, FlushEnds, PidRead, GiveUp, PidOpen,
              PidFill, Listen, Leave, Exit, Signal, Poll, PollTimeout, StopRemove, Crash
<1>. QED  BY <1>1, <1>2, <1>3

(* Apart is inductive, as long as no two writers overlap.                  *)
LEMMA ApartInvariant == Spec => [](WritersApart => Apart)
<1>1. Init => Apart
  <2>. SUFFICES ASSUME Init PROVE Apart
    OBVIOUS
  <2>1. /\ config = Files(want, Procs) /\ store = Files(NoKey, Procs) /\ agents = 0
        /\ proc = [p \in Procs |-> Idle]
        /\ want = Absent \/ \E dest \in Dests : want = Default(dest, 0)
    BY DEF Init, ConfigInit
  <2>2. Shapes
    BY <2>1 DEF Shapes, Files
  <2>3. want # Absent => IsConfig(want) /\ Valid(want) /\ want.agent = 0
    BY <2>1, DefaultIsConfig
  <2>4. FilesAgree
    BY <2>1, <2>3 DEF FilesAgree, Files
  <2>5. \A p \in Procs : proc[p].pc = "idle" /\ config.fd[p] = "none" /\ store.fd[p] = "none"
    BY <2>1 DEF Files, Idle
  <2>6. Saving = {} /\ \A p \in Procs : Steady(p)
    BY <2>5 DEF Saving, Steady, Initing, Storing, Writing
  <2>. QED  BY <2>2, <2>4, <2>6 DEF Apart
<1>2. AllFine /\ (WritersApart => Apart) /\ [Next]_vars => (WritersApart => Apart)'
  <2>. SUFFICES ASSUME AllFine, WritersApart => Apart, [Next]_vars, WritersApart' PROVE Apart'
    OBVIOUS
  <2>1. CASE UNCHANGED vars
    BY <2>1 DEF vars, base, cvars, WritersApart, Apart, Shapes, FilesAgree, Saving, Steady
  <2>2. ASSUME NEW p \in Procs, ConfigStep(p)
        PROVE  Apart'
    BY <2>2, StillApart, ApartLaunch, ApartStore, ApartSave DEF ConfigStep
  <2>3. CASE Next
    BY <2>2, <2>3, StillApart, ApartServe, ApartStop DEF Next
  <2>. QED  BY <2>1, <2>3
<1>. QED  BY <1>1, <1>2, AllFineInvariant, PTL DEF Spec

(* SetsKept, for every number of processes, commands and crashes: while no *)
(* writer starts beside another, what a command read stays what the file   *)
(* says until it renames its own over it, so no setting is lost, and a     *)
(* command that fails or dies before its rename has changed nothing.       *)
THEOREM SetsKeptTheorem == Spec => []SetsKept
<1>1. (WritersApart => Apart) => SetsKept
  <2>. SUFFICES ASSUME Apart PROVE config.file = want /\ (want = Absent \/ Loads(config.file))
    BY DEF WritersApart, SetsKept
  <2>1. config.file = want /\ (want # Absent => IsConfig(want) /\ Valid(want))
    BY DEF Apart, FilesAgree
  <2>2. DOMAIN Torn # Settings
    BY DEF Torn, Settings
  <2>. QED  BY <2>1, <2>2 DEF IsConfig, Loads
<1>. QED  BY <1>1, ApartInvariant, PTL

(* KeyIsOfAgent: a config that names an agent finds that agent's key.      *)
THEOREM KeyIsOfAgentTheorem == Spec => []KeyIsOfAgent
<1>1. (WritersApart => Apart) => KeyIsOfAgent
  <2>. SUFFICES ASSUME Apart, config.file \in Content, config.file.agent > 0
                PROVE  store.file \in Key /\ (halfway \/ store.file.key = config.file.agent)
    BY DEF WritersApart, KeyIsOfAgent
  <2>1. config.file # Absent
    BY DEF Content, Absent
  <2>2. store.file # NoKey /\ (halfway \/ store.file.key = config.file.agent)
    BY <2>1 DEF Apart, FilesAgree
  <2>3. PICK k \in Nat \ {0} : store.file = [key |-> k]
    BY <2>2 DEF Apart, FilesAgree
  <2>. QED  BY <2>2, <2>3 DEF Key
<1>. QED  BY <1>1, ApartInvariant, PTL


-----------------------------------------------------------------------------
(* Types, whatever overlaps.                                               *)

\* The configs that Save may be given.
Configs == {c \in Content : Valid(c)}

\* A file of texts, or of none at first, and its temporary file.
IsPair(f, texts, none) ==
  /\ DOMAIN f = {"file", "tmp", "fd"}
  /\ f.fd \in [Procs -> FDs]
  /\ f.file \in texts \cup {Torn, none}
  /\ f.tmp \in texts \cup {Torn, NoTmp}

\* What a process holds is of the type that its next steps rely on.
Typed(x) ==
  /\ x.pc \in Initing \cup Writing => x.c \in Content /\ x.cmd \in {"init", "initial", "max"}
  /\ x.pc \in Writing => Valid(x.c)
  /\ x.pc \in Storing => x.c.agent > 0
  /\ x.pc = "check" => x.c \in Content
  /\ x.pc \in Approving => x.entries \subseteq Approvals

\* A process that neither writes a config or an approval nor is about to.
Elsewhere(x) == x.pc \notin {"check"} \cup Approving \cup Initing \cup Writing

FilesTyped ==
  /\ IsPair(config, Configs, Absent)
  /\ IsPair(store, Key, NoKey)
  /\ want = Absent \/ want \in Content
  /\ halfway \in BOOLEAN

SidecarTyped ==
  /\ pidfile \in {Missing, Torn} \cup Pid
  /\ seen = Torn \/ seen \in {File(entries) : entries \in SUBSET Approvals}
  /\ approved \subseteq Approvals
  /\ overlap \subseteq {"writers", "sidecar"}

\* An agent is made by a command, and an init that is about to ask for one has
\* made none yet.
Asking == {q \in Procs : proc[q].pc = "exchange"}
Counted ==
  /\ DOMAIN used = {"commands", "crashes"}
  /\ used.commands \in 0 .. MaxCommands /\ used.crashes \in 0 .. MaxCrashes
  /\ agents \in Nat /\ IsFiniteSet(Asking)
  /\ agents + Cardinality(Asking) =< used.commands

AllTyped ==
  /\ FilesTyped /\ SidecarTyped /\ Counted
  /\ \A p \in Procs : Typed(proc[p])

(* The steps of a write, on a file of any kind.                            *)
LEMMA PairOpened ==
  ASSUME NEW f, NEW texts, NEW none, IsPair(f, texts, none), NEW p \in Procs
  PROVE  IsPair(OpenTmp(f, p), texts, none)
BY DEF IsPair, OpenTmp, FDs

LEMMA PairFilled ==
  ASSUME NEW f, NEW texts, NEW none, IsPair(f, texts, none), NEW p \in Procs,
         NEW text \in texts, NEW g \in FillTmp(f, p, text)
  PROVE  IsPair(g, texts, none)
<1>. DEFINE shut == [f EXCEPT !.fd[p] = "none"]
<1>1. IsPair(shut, texts, none) /\ DOMAIN shut = {"file", "tmp", "fd"}
  BY DEF IsPair, FDs
<1>2. \A old : Over(old, text) \subseteq texts \cup {Torn}
  BY DEF Over
<1>3. \/ \E t \in Over(f.tmp, text) : g = [shut EXCEPT !.tmp = t]
      \/ \E t \in Over(f.file, text) : g = [shut EXCEPT !.file = t]
      \/ g = shut
  BY DEF FillTmp
<1>. HIDE DEF shut
<1>. QED  BY <1>1, <1>2, <1>3 DEF IsPair

LEMMA PairRenamed ==
  ASSUME NEW f, NEW texts, NEW none, IsPair(f, texts, none), CanRename(f)
  PROVE  IsPair(RenameTmp(f), texts, none)
BY DEF IsPair, CanRename, RenameTmp, FDs

LEMMA PairShut ==
  ASSUME NEW f, NEW texts, NEW none, IsPair(f, texts, none), NEW pids
  PROVE  IsPair([f EXCEPT !.fd = [q \in Procs |-> IF q \in pids THEN "none" ELSE @[q]]], texts, none)
BY DEF IsPair, FDs

(* A config that init makes is of the type of configs.                     *)
LEMMA DefaultTyped ==
  ASSUME NEW dest \in Dests, NEW agent \in Nat
  PROVE  Default(dest, agent) \in Content /\ Default(dest, agent).agent = agent /\ Valid(Default(dest, agent))
<1>. DEFINE most == CHOOSE v \in Values : \A w \in Values : w =< v
<1>1. most \in Values
  BY ConfigConstantsOK
<1>. HIDE DEF most
<1>2. Default(dest, agent) = [dest |-> dest, agent |-> agent, initial |-> 1, max |-> most]
  BY DEF Default, most
<1>. QED  BY <1>1, <1>2, DefaultIsConfig, ConfigConstantsOK DEF Content

(* So is one with a setting that was changed.                              *)
LEMMA SettingTyped ==
  ASSUME NEW c \in Content, NEW key \in {"initial", "max"}, NEW v \in Values
  PROVE  [c EXCEPT ![key] = v] \in Content
<1>1. CASE key = "initial"
  BY <1>1 DEF Content
<1>2. CASE key = "max"
  BY <1>2 DEF Content
<1>. QED  BY <1>1, <1>2

(* What loads is a config, and so is one that is set.                      *)
LEMMA LoadsTyped ==
  ASSUME FilesTyped, Loads(config.file)
  PROVE  config.file \in Content /\ Valid(config.file)
BY DEF FilesTyped, IsPair, Loads, Configs

LEMMA SeenTyped ==
  ASSUME SidecarTyped
  PROVE  LoadSeen \subseteq Approvals
BY DEF SidecarTyped, LoadSeen, File

(* It is enough to look at the process that took the step.                 *)
LEMMA OneTyped ==
  ASSUME AllFine, AllTyped, NEW p \in Procs, NEW x, Typed(x), Become(p, x)
  PROVE  \A q \in Procs : Typed(proc'[q])
BY DEF AllFine, AllTyped, Become

(* A process between commands, or one of Sidecar, holds nothing to write.  *)
LEMMA ElsewhereTyped ==
  ASSUME NEW x, Elsewhere(x)
  PROVE  Typed(x)
BY DEF Elsewhere, Typed, Approving, Initing, Storing, Writing

LEMMA IdleTyped == Typed(Idle)
<1>1. Elsewhere(Idle)
  BY DEF Elsewhere, Idle, Approving, Initing, Storing, Writing
<1>. QED  BY <1>1, ElsewhereTyped

(* config set and init: what is about to be saved is a config, and about    *)
(* to be renamed a valid one.                                              *)
LEMMA WriterTyped ==
  ASSUME AllFine, AllTyped, NEW p \in Procs, ConfigStep(p)
  PROVE  \A q \in Procs : Typed(proc'[q])
<1>. USE DEF Approving, Initing, Storing, Writing
<1>1. Typed(proc[p]) /\ DOMAIN proc[p] = Fields /\ agents \in Nat
  BY DEF AllFine, Fine, AllTyped, Counted
<1>2. ASSUME NEW key \in {"initial", "max"}, NEW v \in Values, Set(p, key, v)
      PROVE  \A q \in Procs : Typed(proc'[q])
  <2>1. PICK c : c = [config.file EXCEPT ![key] = v]
    OBVIOUS
  <2>. DEFINE x == [Idle EXCEPT !.pc = "open", !.cmd = key, !.c = c]
  <2>2. CASE Loads(config.file) /\ Valid(c) /\ Become(p, x)
    <3>1. c \in Content
      BY <2>1, <2>2, LoadsTyped, SettingTyped DEF AllTyped
    <3>2. x.pc = "open" /\ x.cmd = key /\ x.c = c
      BY DEF Idle
    <3>3. Typed(x)
      BY <2>2, <3>1, <3>2 DEF Typed
    <3>. QED  BY <2>2, <3>3, OneTyped
  <2>3. CASE UNCHANGED proc
    BY <2>3 DEF AllTyped
  <2>. QED  BY <1>2, <2>1, <2>2, <2>3 DEF Set
<1>3. ASSUME NEW dest \in Dests, InitPlain(p, dest)
      PROVE  \A q \in Procs : Typed(proc'[q])
  <2>. DEFINE x == [Idle EXCEPT !.pc = "validate", !.cmd = "init", !.c = Default(dest, 0)]
  <2>1. x.pc = "validate" /\ x.cmd = "init" /\ x.c = Default(dest, 0)
    BY DEF Idle
  <2>2. Typed(x)
    BY <2>1, DefaultTyped DEF Typed
  <2>. QED  BY <1>3, <2>2, OneTyped DEF InitPlain
<1>4. ASSUME NEW dest \in Dests, NEW bad \in BOOLEAN, InitWithToken(p, dest, bad)
      PROVE  \A q \in Procs : Typed(proc'[q])
  <2>. DEFINE x == [Idle EXCEPT !.pc = "exchange", !.cmd = "init", !.c = Default(dest, 0), !.flag = bad]
  <2>1. x.pc = "exchange" /\ x.cmd = "init" /\ x.c = Default(dest, 0)
    BY DEF Idle
  <2>2. Typed(x)
    BY <2>1, DefaultTyped DEF Typed
  <2>. QED  BY <1>4, <2>2, OneTyped DEF InitWithToken
<1>5. ASSUME NEW dest \in Dests, NEW bad \in BOOLEAN, InitWithKey(p, dest, bad)
      PROVE  \A q \in Procs : Typed(proc'[q])
  <2>. DEFINE x == [Idle EXCEPT !.pc = "put", !.cmd = "init", !.c = Default(dest, agents + 1), !.flag = bad]
  <2>1. x.pc = "put" /\ x.cmd = "init" /\ x.c = Default(dest, agents + 1)
    BY DEF Idle
  <2>2. Typed(x)
    BY <1>1, <2>1, DefaultTyped DEF Typed
  <2>. QED  BY <1>5, <2>2, OneTyped DEF InitWithKey
<1>6. CASE Exchange(p)
  <2>. DEFINE x == [proc[p] EXCEPT !.pc = "put", !.c.agent = agents + 1]
  <2>1. x.pc = "put" /\ x.cmd = proc[p].cmd /\ x.c = [proc[p].c EXCEPT !.agent = agents + 1]
    BY <1>1 DEF Fields
  <2>2. x.c \in Content /\ x.c.agent > 0
    BY <1>1, <1>6, <2>1 DEF Exchange, Typed, Content
  <2>3. Typed(x)
    BY <1>1, <1>6, <2>1, <2>2 DEF Exchange, Typed
  <2>. QED  BY <1>6, <2>3, IdleTyped, OneTyped DEF Exchange
<1>7. ASSUME NEW pc \in {"put_open", "put_fill", "put_rename", "validate", "open", "fill", "rename"}, Go(p, pc),
             proc[p].pc \in Initing \cup Writing,
             pc \in Storing => proc[p].pc \in Storing,
             pc \in Writing => proc[p].pc \in Writing \/ Valid(proc[p].c)
      PROVE  \A q \in Procs : Typed(proc'[q])
  <2>. DEFINE x == [proc[p] EXCEPT !.pc = pc]
  <2>1. x.pc = pc /\ x.cmd = proc[p].cmd /\ x.c = proc[p].c
    BY <1>1 DEF Fields
  <2>2. Typed(x)
    BY <1>1, <1>7, <2>1 DEF Typed
  <2>. QED  BY <1>7, <2>2, OneTyped DEF Go
<1>8. ASSUME Become(p, Idle)
      PROVE  \A q \in Procs : Typed(proc'[q])
  BY <1>8, IdleTyped, OneTyped
<1>9. CASE ExchangeFails(p) \/ PutFails(p) \/ Rename(p)
  BY <1>8, <1>9 DEF ExchangeFails, PutFails, Rename
<1>10. CASE Put(p) \/ PutOpen(p) \/ PutFill(p)
  BY <1>7, <1>10 DEF Put, PutOpen, PutFill
<1>11. CASE PutRename(p) \/ Validate(p)
  BY <1>7, <1>8, <1>11 DEF PutRename, Validate
<1>12. CASE Open(p) \/ Fill(p)
  BY <1>7, <1>12 DEF Open, Fill
<1>. QED  BY <1>2, <1>3, <1>4, <1>5, <1>6, <1>9, <1>10, <1>11, <1>12 DEF ConfigStep

(* The commands of Sidecar that approve, start and flush.                  *)
LEMMA ServerTyped ==
  ASSUME AllFine, AllTyped, NEW p \in Procs,
         \/ Approve(p) \/ (\E host \in Hosts : ApproveHost(p, host)) \/ SeenOpen(p) \/ SeenFill(p)
         \/ \E yes \in BOOLEAN : Start(p, yes) \/ Restart(p, yes) \/ Flush(p, yes)
         \/ Check(p) \/ FlushEnds(p) \/ PidRead(p) \/ GiveUp(p) \/ PidOpen(p) \/ PidFill(p)
         \/ Listen(p) \/ Leave(p)
  PROVE  SidecarTyped' /\ \A q \in Procs : Typed(proc'[q])
<1>. USE DEF Approving, Initing, Storing, Writing
<1>1. Typed(proc[p]) /\ DOMAIN proc[p] = Fields /\ SidecarTyped /\ LoadSeen \subseteq Approvals
  BY SeenTyped DEF AllFine, Fine, AllTyped
<1>2. FilesTyped
  BY DEF AllTyped
<1>3. overlap' \subseteq {"writers", "sidecar"}
  <2>1. overlap' \subseteq overlap \cup {"sidecar"}
    BY DEF Approve, ApproveHost, SeenOpen, SeenFill, Start, Restart, Flush, Launch, Check, FlushEnds, PidRead,
           GiveUp, PidOpen, PidFill, Listen, Leave
  <2>. QED  BY <1>1, <2>1 DEF SidecarTyped
<1>4. approved' \subseteq Approvals
  <2>1. \/ UNCHANGED approved
        \/ Loads(config.file) /\ approved' = approved \cup {config.file.dest}
        \/ \E host \in Hosts : approved' = approved \cup {host}
        \/ proc[p].pc = "check" /\ approved' = approved \cup {proc[p].c.dest}
    BY DEF Approve, ApproveHost, SeenOpen, SeenFill, Start, Restart, Flush, Check, FlushEnds, PidRead,
           GiveUp, PidOpen, PidFill, Listen, Leave, svars
  <2>2. Loads(config.file) => config.file.dest \in Dests
    BY <1>2, LoadsTyped DEF Content
  <2>3. proc[p].pc = "check" => proc[p].c.dest \in Dests
    BY <1>1 DEF Typed, Content
  <2>. QED  BY <1>1, <2>1, <2>2, <2>3 DEF SidecarTyped, Approvals
<1>5. pidfile' \in {Missing, Torn} \cup Pid
  <2>1. pidfile' \in {pidfile, Torn, [pid |-> p]}
    BY DEF Approve, ApproveHost, SeenOpen, SeenFill, Start, Restart, Flush, Check, FlushEnds, PidRead,
           GiveUp, PidOpen, PidFill, Listen, Leave, svars, Over
  <2>. QED  BY <1>1, <2>1 DEF SidecarTyped, Pid
<1>6. seen' = Torn \/ seen' \in {File(entries) : entries \in SUBSET Approvals}
  <2>1. \/ seen' = seen \/ seen' = Torn
        \/ proc[p].pc = "seen_fill" /\ seen' = File(proc[p].entries)
    BY DEF Approve, ApproveHost, SeenOpen, SeenFill, Start, Restart, Flush, Check, FlushEnds, PidRead,
           GiveUp, PidOpen, PidFill, Listen, Leave, svars, Over
  <2>. QED  BY <1>1, <2>1 DEF SidecarTyped, Typed
<1>7. \A q \in Procs : Typed(proc'[q])
  <2>1. ASSUME NEW x, x.pc = "seen_open", x.entries \subseteq Approvals, Become(p, x)
        PROVE  \A q \in Procs : Typed(proc'[q])
    <3>1. Typed(x)
      BY <2>1 DEF Typed
    <3>. QED  BY <2>1, <3>1, OneTyped
  <2>2. CASE UNCHANGED proc
    BY <2>2 DEF AllTyped
  <2>3. ASSUME Become(p, Idle)
        PROVE  \A q \in Procs : Typed(proc'[q])
    BY <2>3, IdleTyped, OneTyped
  <2>4. ASSUME NEW pc \in {"sending", "pid_read", "pid_open", "pid_fill", "filled", "running", "leaving"},
               NEW x, x.pc = pc, Become(p, x)
        PROVE  \A q \in Procs : Typed(proc'[q])
    <3>1. Typed(x)
      BY <2>4, ElsewhereTyped DEF Elsewhere
    <3>. QED  BY <2>4, <3>1, OneTyped
  <2>5. CASE Approve(p)
    <3>. DEFINE x == [Idle EXCEPT !.pc = "seen_open", !.cmd = "approve",
                                  !.entries = LoadSeen \cup {config.file.dest}]
    <3>1. x.pc = "seen_open" /\ x.entries = LoadSeen \cup {config.file.dest}
      BY DEF Idle
    <3>2. CASE Loads(config.file) /\ Become(p, x)
      <4>1. config.file.dest \in Dests
        BY <1>2, <3>2, LoadsTyped DEF Content
      <4>. QED  BY <1>1, <2>1, <3>1, <3>2, <4>1 DEF Approvals
    <3>. QED  BY <2>2, <2>5, <3>2 DEF Approve
  <2>6. ASSUME NEW host \in Hosts, ApproveHost(p, host)
        PROVE  \A q \in Procs : Typed(proc'[q])
    <3>. DEFINE x == [Idle EXCEPT !.pc = "seen_open", !.cmd = "approve", !.entries = LoadSeen \cup {host}]
    <3>1. x.pc = "seen_open" /\ x.entries = LoadSeen \cup {host}
      BY DEF Idle
    <3>. QED  BY <1>1, <2>1, <2>6, <3>1 DEF ApproveHost, Approvals
  <2>7. CASE SeenOpen(p)
    <3>. DEFINE x == [proc[p] EXCEPT !.pc = "seen_fill"]
    <3>1. x.pc = "seen_fill" /\ x.entries = proc[p].entries
      BY <1>1 DEF Fields
    <3>2. Typed(x)
      BY <1>1, <2>7, <3>1 DEF SeenOpen, Typed
    <3>. QED  BY <2>7, <3>2, OneTyped DEF SeenOpen, Go
  <2>8. CASE SeenFill(p)
    <3>. DEFINE x == [proc[p] EXCEPT !.pc = Onward(p), !.entries = {}]
    <3>1. x.pc = Onward(p) /\ Onward(p) \in {"sending", "pid_read"}
      BY <1>1 DEF Fields, Onward
    <3>. QED  BY <2>3, <2>4, <2>8, <3>1 DEF SeenFill
  <2>9. ASSUME NEW yes \in BOOLEAN, NEW cmd, Load(p, cmd, yes)
        PROVE  \A q \in Procs : Typed(proc'[q])
    <3>. DEFINE x == [Idle EXCEPT !.pc = "check", !.cmd = cmd, !.c = config.file, !.flag = yes]
    <3>1. x.pc = "check" /\ x.c = config.file
      BY DEF Idle
    <3>2. CASE Loads(config.file) /\ Become(p, x)
      <4>1. Typed(x)
        BY <1>2, <3>1, <3>2, LoadsTyped DEF Typed
      <4>. QED  BY <3>2, <4>1, OneTyped
    <3>. QED  BY <2>3, <2>9, <3>2 DEF Load
  <2>10. CASE Check(p)
    <3>. DEFINE x == [proc[p] EXCEPT !.pc = "seen_open", !.entries = LoadSeen \cup {proc[p].c.dest}]
                y == [proc[p] EXCEPT !.pc = Onward(p)]
    <3>1. x.pc = "seen_open" /\ x.entries = LoadSeen \cup {proc[p].c.dest}
      BY <1>1 DEF Fields
    <3>2. x.entries \subseteq Approvals
      BY <1>1, <2>10, <3>1 DEF Check, Typed, Content, Approvals
    <3>3. y.pc = Onward(p) /\ Onward(p) \in {"sending", "pid_read"}
      BY <1>1 DEF Fields, Onward
    <3>4. Become(p, y) \/ Become(p, x) \/ Become(p, Idle)
      BY <2>10 DEF Check, Go
    <3>. QED  BY <2>1, <2>3, <2>4, <3>1, <3>2, <3>3, <3>4
  <2>11. CASE FlushEnds(p) \/ PidRead(p) \/ GiveUp(p) \/ PidOpen(p) \/ PidFill(p) \/ Listen(p) \/ Leave(p)
    <3>1. Become(p, Idle) \/ \E pc \in {"pid_open", "pid_fill", "filled", "running", "leaving"} : Go(p, pc)
      BY <2>11 DEF FlushEnds, PidRead, GiveUp, PidOpen, PidFill, Listen, Leave
    <3>2. ASSUME NEW pc \in {"pid_open", "pid_fill", "filled", "running", "leaving"}, Go(p, pc)
          PROVE  \A q \in Procs : Typed(proc'[q])
      <4>1. [proc[p] EXCEPT !.pc = pc].pc = pc
        BY <1>1 DEF Fields
      <4>. QED  BY <2>4, <3>2, <4>1 DEF Go
    <3>. QED  BY <2>3, <3>1, <3>2
  <2>. QED  BY <2>5, <2>6, <2>7, <2>8, <2>9, <2>10, <2>11 DEF Start, Restart, Flush
<1>. QED  BY <1>3, <1>4, <1>5, <1>6, <1>7 DEF SidecarTyped

(* stop and restart, the exit of a dispatcher, and a crash: no process is   *)
(* left with more than it had.                                             *)
LEMMA StopperTyped ==
  ASSUME AllFine, AllTyped, NEW p \in Procs,
         \/ (\E force, restart \in BOOLEAN : Stop(p, force, restart))
         \/ Signal(p) \/ Poll(p) \/ PollTimeout(p) \/ StopRemove(p) \/ Exit(p) \/ Crash(p)
  PROVE  SidecarTyped' /\ \A q \in Procs : Typed(proc'[q])
<1>1. \A q \in Procs : Typed(proc[q]) /\ DOMAIN proc[q] = Fields
  BY DEF AllFine, Fine, AllTyped
<1>2. SidecarTyped'
  <2>1. UNCHANGED <<seen, approved>> /\ pidfile' \in {pidfile, Missing} /\ overlap' \subseteq overlap \cup {"sidecar"}
    BY DEF Stop, Launch, Signal, Poll, PollTimeout, StopRemove, Exit, Remove, Crash, svars
  <2>2. SidecarTyped
    BY DEF AllTyped
  <2>. QED  BY <2>1, <2>2 DEF SidecarTyped
<1>. SUFFICES \A q \in Procs : Typed(proc'[q])
  BY <1>2
<1>3. \A x : Elsewhere(x) => Typed(x)
  BY ElsewhereTyped
<1>4. Elsewhere(Idle) /\ \A pc \in Stopping \cup Serving : pc \notin {"check"} \cup Approving \cup Initing \cup Writing
  BY DEF Elsewhere, Idle, Approving, Initing, Storing, Writing, Stopping, Serving
<1>5. ASSUME \A q \in Procs : proc'[q] = proc[q] \/ Elsewhere(proc'[q])
      PROVE  \A q \in Procs : Typed(proc'[q])
  BY <1>1, <1>3, <1>5
<1>6. ASSUME NEW x, Become(p, x), Elsewhere(x)
      PROVE  \A q \in Procs : Typed(proc'[q])
  BY <1>5, <1>6, Becomes
<1>7. ASSUME NEW pc \in Stopping \cup Serving, NEW q \in Procs
      PROVE  Elsewhere([proc[q] EXCEPT !.pc = pc])
  <2>1. [proc[q] EXCEPT !.pc = pc].pc = pc
    BY <1>1 DEF Fields
  <2>. QED  BY <1>4, <2>1 DEF Elsewhere
<1>8. ASSUME NEW next, Elsewhere(next), Remove(p, next)
      PROVE  \A q \in Procs : Typed(proc'[q])
  <2>1. ASSUME NEW q \in Procs
        PROVE  proc'[q] = proc[q] \/ Elsewhere(proc'[q])
    <3>1. [proc[q] EXCEPT !.pc = "pid_lost"].pc = "pid_lost"
      BY <1>1 DEF Fields
    <3>2. Elsewhere([proc[q] EXCEPT !.pc = "pid_lost"])
      BY <3>1 DEF Elsewhere, Approving, Initing, Storing, Writing
    <3>. QED  BY <1>8, <3>2 DEF Remove
  <2>. QED  BY <1>5, <2>1
<1>9. ASSUME NEW pids, NEW next, Elsewhere(next), Kill(p, pids, next)
      PROVE  \A q \in Procs : Typed(proc'[q])
  <2>1. \A q \in Procs : proc'[q] = proc[q] \/ Elsewhere(proc'[q])
    BY <1>4, <1>9 DEF Kill
  <2>. QED  BY <1>5, <2>1
<1>10. ASSUME NEW force \in BOOLEAN, NEW restart \in BOOLEAN, Stop(p, force, restart)
       PROVE  \A q \in Procs : Typed(proc'[q])
  <2>. DEFINE self == [Idle EXCEPT !.cmd = IF restart THEN "restart" ELSE "stop", !.flag = force]
  <2>1. /\ [self EXCEPT !.pc = "restart"].pc = "restart"
        /\ [self EXCEPT !.pc = "signal", !.target = Written].pc = "signal"
    BY DEF Idle
  <2>2. Elsewhere([self EXCEPT !.pc = "restart"]) /\ Elsewhere([self EXCEPT !.pc = "signal", !.target = Written])
    BY <1>4, <2>1 DEF Elsewhere, Stopping
  <2>3. \/ Become(p, [self EXCEPT !.pc = "restart"])
        \/ Become(p, [self EXCEPT !.pc = "signal", !.target = Written])
        \/ Become(p, Idle)
    BY <1>10 DEF Stop
  <2>. QED  BY <1>4, <1>6, <2>2, <2>3
<1>11. CASE Signal(p)
  <2>. DEFINE poll == [proc[p] EXCEPT !.pc = "poll"]
  <2>1. Elsewhere(poll)
    BY <1>7 DEF Stopping
  <2>2. PICK q \in proc[p].target :
           \/ Running(q) /\ proc' = [proc EXCEPT ![p] = poll, ![q].pc = "leaving"]
           \/ Become(p, poll)
           \/ Kill(p, {q}, poll)
    BY <1>11 DEF Signal
  <2>3. CASE Running(q) /\ proc' = [proc EXCEPT ![p] = poll, ![q].pc = "leaving"]
    <3>1. q # p
      BY <1>11, <2>3 DEF Signal, Running
    <3>2. proc' = [[proc EXCEPT ![p] = poll] EXCEPT ![q].pc = "leaving"]
      BY <2>3
    <3>3. \A r \in Procs \ {p, q} : proc'[r] = proc[r]
      BY <3>1, <3>2 DEF AllFine
    <3>4. proc'[p] = poll
      BY <3>1, <3>2 DEF AllFine
    <3>5. ASSUME q \in Procs
          PROVE  Elsewhere(proc'[q])
      <4>1. proc'[q] = [proc[q] EXCEPT !.pc = "leaving"]
        BY <3>1, <3>2, <3>5 DEF AllFine
      <4>. QED  BY <1>7, <3>5, <4>1 DEF Serving
    <3>. QED  BY <1>5, <2>1, <3>3, <3>4, <3>5
  <2>. QED  BY <1>6, <1>9, <2>1, <2>2, <2>3
<1>12. CASE Poll(p)
  BY <1>6, <1>7, <1>12 DEF Poll, Go, Stopping
<1>13. CASE PollTimeout(p)
  BY <1>4, <1>6, <1>7, <1>9, <1>13 DEF PollTimeout, Stopping
<1>14. CASE StopRemove(p)
  <2>1. [Idle EXCEPT !.pc = "restart", !.cmd = "restart"].pc = "restart"
    BY DEF Idle
  <2>2. Elsewhere([Idle EXCEPT !.pc = "restart", !.cmd = "restart"])
    BY <1>4, <2>1 DEF Elsewhere, Stopping
  <2>. QED  BY <1>4, <1>8, <1>14, <2>2 DEF StopRemove
<1>15. CASE Exit(p)
  BY <1>4, <1>8, <1>15 DEF Exit
<1>16. CASE Crash(p)
  BY <1>4, <1>9, <1>16 DEF Crash
<1>. QED  BY <1>10, <1>11, <1>12, <1>13, <1>14, <1>15, <1>16

(* A process that is killed leaves both pairs of files as they are.        *)
LEMMA KilledFiles ==
  ASSUME FilesTyped, NEW p \in Procs, NEW pids, NEW next, Kill(p, pids, next)
  PROVE  FilesTyped'
<1>1. IsPair(config', Configs, Absent) /\ IsPair(store', Key, NoKey)
  BY PairShut DEF FilesTyped, Kill
<1>. QED  BY <1>1 DEF FilesTyped, Kill

(* The two files and what was wanted: only valid configs come to be saved. *)
LEMMA FilesKept ==
  ASSUME AllFine, AllTyped, Next
  PROVE  FilesTyped'
<1>. USE DEF Approving, Initing, Storing, Writing
<1>0. FilesTyped
  BY DEF AllTyped
<1>1. ASSUME NEW p \in Procs, ConfigStep(p)
      PROVE  FilesTyped'
  <2>0. Typed(proc[p])
    BY DEF AllTyped
  <2>1. CASE UNCHANGED <<config, store, want, halfway>>
    BY <1>0, <2>1 DEF FilesTyped
  <2>2. CASE PutOpen(p)
    BY <1>0, <2>2, PairOpened DEF PutOpen, FilesTyped
  <2>3. CASE PutFill(p)
    <3>1. [key |-> proc[p].c.agent] \in Key
      BY <2>0, <2>3 DEF PutFill, Typed, Content, Key
    <3>2. IsPair(store', Key, NoKey)
      BY <1>0, <2>3, <3>1, PairFilled DEF PutFill, FilesTyped
    <3>. QED  BY <1>0, <2>3, <3>2 DEF PutFill, FilesTyped
  <2>4. CASE PutRename(p)
    BY <1>0, <2>4, PairRenamed DEF PutRename, FilesTyped
  <2>5. CASE Open(p)
    BY <1>0, <2>5, PairOpened DEF Open, FilesTyped
  <2>6. CASE Fill(p)
    <3>1. proc[p].c \in Configs
      BY <2>0, <2>6 DEF Fill, Typed, Configs
    <3>2. IsPair(config', Configs, Absent)
      BY <1>0, <2>6, <3>1, PairFilled DEF Fill, FilesTyped
    <3>. QED  BY <1>0, <2>6, <3>2 DEF Fill, FilesTyped
  <2>7. CASE Rename(p)
    <3>1. proc[p].c \in Content /\ proc[p].cmd \in {"init", "initial", "max"}
      BY <2>0, <2>7 DEF Rename, Typed
    <3>2. IsPair(config', Configs, Absent)
      BY <1>0, <2>7, PairRenamed DEF Rename, FilesTyped
    <3>3. want' = Absent \/ want' \in Content
      <4>1. CASE proc[p].cmd \in {"initial", "max"} /\ want # Absent
        <5>1. proc[p].c[proc[p].cmd] \in Values /\ want \in Content
          BY <1>0, <3>1, <4>1 DEF Content, FilesTyped
        <5>2. [want EXCEPT ![proc[p].cmd] = proc[p].c[proc[p].cmd]] \in Content
          BY <4>1, <5>1, SettingTyped
        <5>3. want' \in {want, [want EXCEPT ![proc[p].cmd] = proc[p].c[proc[p].cmd]]}
          BY <2>7, <4>1 DEF Rename
        <5>. QED  BY <5>1, <5>2, <5>3
      <4>2. CASE proc[p].cmd = "init" \/ want = Absent
        BY <1>0, <2>7, <3>1, <4>2 DEF Rename, FilesTyped
      <4>. QED  BY <3>1, <4>1, <4>2
    <3>4. halfway' \in BOOLEAN /\ UNCHANGED store
      BY <1>0, <2>7 DEF Rename, FilesTyped
    <3>. QED  BY <1>0, <3>2, <3>3, <3>4 DEF FilesTyped
  <2>8. \/ UNCHANGED <<config, store, want, halfway>>
        \/ PutOpen(p) \/ PutFill(p) \/ PutRename(p) \/ Open(p) \/ Fill(p) \/ Rename(p)
    BY <1>1 DEF ConfigStep, Set, InitPlain, InitWithToken, InitWithKey, Exchange, ExchangeFails, Put, PutFails,
                Validate, cvars
  <2>. QED  BY <2>1, <2>2, <2>3, <2>4, <2>5, <2>6, <2>7, <2>8
<1>2. ASSUME UNCHANGED cvars
      PROVE  FilesTyped'
  BY <1>0, <1>2 DEF FilesTyped, cvars
<1>3. ASSUME NEW p \in Procs,
             \/ Approve(p) \/ (\E host \in Hosts : ApproveHost(p, host)) \/ SeenOpen(p) \/ SeenFill(p)
             \/ \E yes \in BOOLEAN : Start(p, yes) \/ Restart(p, yes) \/ Flush(p, yes)
             \/ Check(p) \/ FlushEnds(p) \/ PidRead(p) \/ GiveUp(p) \/ PidOpen(p) \/ PidFill(p)
             \/ Listen(p) \/ Leave(p) \/ Exit(p) \/ Poll(p) \/ StopRemove(p)
             \/ \E force, restart \in BOOLEAN : Stop(p, force, restart)
      PROVE  UNCHANGED cvars
  BY <1>3 DEF Approve, ApproveHost, SeenOpen, SeenFill, Start, Restart, Flush, Check, FlushEnds, PidRead, GiveUp,
              PidOpen, PidFill, Listen, Leave, Exit, Poll, StopRemove, Stop
<1>4. ASSUME NEW p \in Procs, Signal(p) \/ PollTimeout(p) \/ Crash(p)
      PROVE  UNCHANGED cvars \/ \E pids, next : Kill(p, pids, next)
  BY <1>4 DEF Signal, PollTimeout, Crash
<1>. QED  BY <1>0, <1>1, <1>2, <1>3, <1>4, KilledFiles DEF Next

(* The count of agents: a step that asks for none makes none, and one that  *)
(* asks, or has a key of the user's own, takes it from the command's share. *)
LEMMA CountedKept ==
  ASSUME AllFine, AllTyped, Next
  PROVE  Counted'
<1>. USE DEF Initing, Storing, Writing
<1>0. /\ Counted /\ MaxCommands \in Nat /\ MaxCrashes \in Nat
      /\ Cardinality(Asking) \in Nat
  BY ConfigConstantsOK, FS_CardinalityType DEF AllTyped, Counted
<1>1. \A q \in Procs : DOMAIN proc[q] = Fields
  BY DEF AllFine, Fine
<1>2. ASSUME UNCHANGED agents, Asking' \subseteq Asking,
             used' = used \/ Use("commands", MaxCommands) \/ Use("crashes", MaxCrashes)
      PROVE  Counted'
  <2>1. IsFiniteSet(Asking') /\ Cardinality(Asking') =< Cardinality(Asking) /\ Cardinality(Asking') \in Nat
    BY <1>0, <1>2, FS_Subset, FS_CardinalityType DEF Counted
  <2>2. /\ DOMAIN used' = {"commands", "crashes"}
        /\ used'.commands \in 0 .. MaxCommands /\ used'.crashes \in 0 .. MaxCrashes
        /\ used'.commands >= used.commands
    BY <1>0, <1>2 DEF Counted, Use
  <2>. QED  BY <1>0, <1>2, <2>1, <2>2 DEF Counted
<1>3. ASSUME \A q \in Procs : proc'[q] = proc[q] \/ proc'[q].pc # "exchange"
      PROVE  Asking' \subseteq Asking
  BY <1>3 DEF Asking
<1>4. ASSUME NEW p \in Procs, NEW x, Become(p, x), x.pc # "exchange"
      PROVE  Asking' \subseteq Asking
  BY <1>3, <1>4, Becomes
<1>5. Idle.pc # "exchange"
  BY DEF Idle
<1>6. ASSUME NEW p \in Procs, NEW pc, pc # "exchange", Go(p, pc)
      PROVE  Asking' \subseteq Asking
  <2>1. [proc[p] EXCEPT !.pc = pc].pc # "exchange"
    BY <1>1, <1>6 DEF Fields
  <2>. QED  BY <1>4, <1>6, <2>1 DEF Go
<1>7. ASSUME NEW p \in Procs, ConfigStep(p)
      PROVE  Counted'
  <2>1. ASSUME NEW key \in {"initial", "max"}, NEW v \in Values, Set(p, key, v)
        PROVE  Counted'
    <3>1. PICK c : c = [config.file EXCEPT ![key] = v]
      OBVIOUS
    <3>. DEFINE x == [Idle EXCEPT !.pc = "open", !.cmd = key, !.c = c]
    <3>2. UNCHANGED proc \/ Become(p, x)
      BY <2>1, <3>1 DEF Set
    <3>3. x.pc # "exchange"
      BY DEF Idle
    <3>4. Asking' \subseteq Asking
      BY <1>3, <1>4, <3>2, <3>3
    <3>. QED  BY <1>2, <2>1, <3>4 DEF Set, cvars, Launch
  <2>2. ASSUME NEW dest \in Dests, InitPlain(p, dest)
        PROVE  Counted'
    <3>. DEFINE x == [Idle EXCEPT !.pc = "validate", !.cmd = "init", !.c = Default(dest, 0)]
    <3>1. x.pc # "exchange"
      BY DEF Idle
    <3>2. Asking' \subseteq Asking
      BY <1>4, <2>2, <3>1 DEF InitPlain
    <3>. QED  BY <1>2, <2>2, <3>2 DEF InitPlain, cvars, Launch
  <2>3. ASSUME NEW dest \in Dests, NEW bad \in BOOLEAN, InitWithToken(p, dest, bad)
        PROVE  Counted'
    <3>. DEFINE x == [Idle EXCEPT !.pc = "exchange", !.cmd = "init", !.c = Default(dest, 0), !.flag = bad]
    <3>0. x.pc = "exchange"
      BY DEF Idle
    <3>1. Become(p, x) /\ p \notin Asking
      BY <2>3 DEF InitWithToken, Launch, Busy, Asking
    <3>2. Asking' = Asking \cup {p}
      <4>1. proc'[p].pc = "exchange" /\ \A q \in Procs \ {p} : proc'[q] = proc[q]
        BY <3>0, <3>1, Becomes
      <4>. QED  BY <4>1 DEF Asking
    <3>3. IsFiniteSet(Asking') /\ Cardinality(Asking') = Cardinality(Asking) + 1
      BY <1>0, <3>1, <3>2, FS_AddElement DEF Counted
    <3>4. UNCHANGED agents /\ Use("commands", MaxCommands)
      BY <2>3 DEF InitWithToken, Launch, cvars
    <3>. QED  BY <1>0, <3>3, <3>4 DEF Counted, Use
  <2>4. ASSUME NEW dest \in Dests, NEW bad \in BOOLEAN, InitWithKey(p, dest, bad)
        PROVE  Counted'
    <3>. DEFINE x == [Idle EXCEPT !.pc = "put", !.cmd = "init", !.c = Default(dest, agents + 1), !.flag = bad]
    <3>1. x.pc # "exchange"
      BY DEF Idle
    <3>2. Asking' \subseteq Asking
      BY <1>4, <2>4, <3>1 DEF InitWithKey
    <3>3. IsFiniteSet(Asking') /\ Cardinality(Asking') =< Cardinality(Asking) /\ Cardinality(Asking') \in Nat
      BY <1>0, <3>2, FS_Subset, FS_CardinalityType DEF Counted
    <3>4. agents' = agents + 1 /\ Use("commands", MaxCommands)
      BY <2>4 DEF InitWithKey, Launch
    <3>. QED  BY <1>0, <3>3, <3>4 DEF Counted, Use
  <2>5. CASE Exchange(p)
    <3>. DEFINE x == [proc[p] EXCEPT !.pc = "put", !.c.agent = agents + 1]
    <3>1. x.pc # "exchange" /\ p \in Asking
      BY <1>1, <2>5 DEF Fields, Exchange, Asking
    <3>2. proc'[p].pc # "exchange"
      BY <1>5, <2>5, <3>1, Becomes DEF Exchange
    <3>3. Asking' = Asking \ {p}
      BY <2>5, <3>2, Becomes DEF Exchange, Asking
    <3>4. IsFiniteSet(Asking') /\ Cardinality(Asking') = Cardinality(Asking) - 1
      BY <1>0, <3>1, <3>3, FS_RemoveElement DEF Counted
    <3>5. agents' = agents + 1 /\ UNCHANGED used
      BY <2>5 DEF Exchange
    <3>. QED  BY <1>0, <3>4, <3>5, FS_CardinalityType DEF Counted
  <2>6. CASE \/ ExchangeFails(p) \/ Put(p) \/ PutFails(p) \/ PutOpen(p) \/ PutFill(p) \/ PutRename(p)
             \/ Validate(p) \/ Open(p) \/ Fill(p) \/ Rename(p)
    <3>1. \/ Become(p, Idle)
          \/ \E pc \in {"put_open", "put_fill", "put_rename", "validate", "open", "fill", "rename"} : Go(p, pc)
      BY <2>6 DEF ExchangeFails, Put, PutFails, PutOpen, PutFill, PutRename, Validate, Open, Fill, Rename
    <3>2. Asking' \subseteq Asking
      BY <1>4, <1>5, <1>6, <3>1
    <3>3. UNCHANGED <<agents, used>>
      BY <2>6 DEF ExchangeFails, Put, PutFails, PutOpen, PutFill, PutRename, Validate, Open, Fill, Rename, cvars
    <3>. QED  BY <1>2, <3>2, <3>3
  <2>. QED  BY <1>7, <2>1, <2>2, <2>3, <2>4, <2>5, <2>6 DEF ConfigStep
<1>8. ASSUME NEW p \in Procs,
             \/ Approve(p) \/ (\E host \in Hosts : ApproveHost(p, host)) \/ SeenOpen(p) \/ SeenFill(p)
             \/ \E yes \in BOOLEAN : Start(p, yes) \/ Restart(p, yes) \/ Flush(p, yes)
             \/ Check(p) \/ FlushEnds(p) \/ PidRead(p) \/ GiveUp(p) \/ PidOpen(p) \/ PidFill(p)
             \/ Listen(p) \/ Leave(p)
      PROVE  Counted'
  <2>1. UNCHANGED agents /\ (used' = used \/ Use("commands", MaxCommands))
    BY <1>8 DEF Approve, ApproveHost, SeenOpen, SeenFill, Start, Restart, Flush, Launch, Check, FlushEnds, PidRead,
                GiveUp, PidOpen, PidFill, Listen, Leave, cvars
  <2>2. Asking' \subseteq Asking
    <3>1. ASSUME NEW entries, NEW cmd, Become(p, [Idle EXCEPT !.pc = "seen_open", !.cmd = cmd, !.entries = entries])
          PROVE  Asking' \subseteq Asking
      <4>1. [Idle EXCEPT !.pc = "seen_open", !.cmd = cmd, !.entries = entries].pc # "exchange"
        BY DEF Idle
      <4>. QED  BY <1>4, <3>1, <4>1
    <3>2. ASSUME NEW entries, Become(p, [proc[p] EXCEPT !.pc = "seen_open", !.entries = entries])
          PROVE  Asking' \subseteq Asking
      <4>1. [proc[p] EXCEPT !.pc = "seen_open", !.entries = entries].pc # "exchange"
        BY <1>1 DEF Fields
      <4>. QED  BY <1>4, <3>2, <4>1
    <3>3. ASSUME NEW yes \in BOOLEAN, NEW cmd, Load(p, cmd, yes)
          PROVE  Asking' \subseteq Asking
      <4>1. [Idle EXCEPT !.pc = "check", !.cmd = cmd, !.c = config.file, !.flag = yes].pc # "exchange"
        BY DEF Idle
      <4>. QED  BY <1>4, <1>5, <3>3, <4>1 DEF Load
    <3>4. CASE SeenFill(p)
      <4>1. [proc[p] EXCEPT !.pc = Onward(p), !.entries = {}].pc # "exchange"
        BY <1>1 DEF Fields, Onward
      <4>. QED  BY <1>4, <1>5, <3>4, <4>1 DEF SeenFill
    <3>5. CASE UNCHANGED proc
      BY <3>5 DEF Asking
    <3>6. CASE Approve(p) \/ \E host \in Hosts : ApproveHost(p, host)
      BY <3>1, <3>5, <3>6 DEF Approve, ApproveHost
    <3>7. CASE Check(p)
      <4>1. Onward(p) # "exchange"
        BY DEF Onward
      <4>. QED  BY <1>4, <1>5, <1>6, <3>2, <3>7, <4>1 DEF Check
    <3>8. CASE SeenOpen(p) \/ FlushEnds(p) \/ PidRead(p) \/ GiveUp(p) \/ PidOpen(p) \/ PidFill(p) \/ Listen(p) \/ Leave(p)
      BY <1>4, <1>5, <1>6, <3>8 DEF SeenOpen, FlushEnds, PidRead, GiveUp, PidOpen, PidFill, Listen, Leave
    <3>. QED  BY <1>8, <3>3, <3>4, <3>6, <3>7, <3>8 DEF Start, Restart, Flush
  <2>. QED  BY <1>2, <2>1, <2>2
<1>9. ASSUME NEW p \in Procs,
             \/ (\E force, restart \in BOOLEAN : Stop(p, force, restart))
             \/ Signal(p) \/ Poll(p) \/ PollTimeout(p) \/ StopRemove(p) \/ Exit(p) \/ Crash(p)
      PROVE  Counted'
  <2>1. UNCHANGED agents /\ (used' = used \/ Use("commands", MaxCommands) \/ Use("crashes", MaxCrashes))
    BY <1>9 DEF Stop, Launch, Signal, Poll, PollTimeout, StopRemove, Exit, Crash, Kill, cvars
  <2>2. ASSUME NEW next, next.pc # "exchange", Remove(p, next)
        PROVE  Asking' \subseteq Asking
    <3>1. ASSUME NEW q \in Procs
          PROVE  proc'[q] = proc[q] \/ proc'[q].pc # "exchange"
      <4>1. [proc[q] EXCEPT !.pc = "pid_lost"].pc # "exchange"
        BY <1>1 DEF Fields
      <4>. QED  BY <2>2, <4>1 DEF Remove
    <3>. QED  BY <1>3, <3>1
  <2>3. ASSUME NEW pids, NEW next, next.pc # "exchange", Kill(p, pids, next)
        PROVE  Asking' \subseteq Asking
    BY <1>3, <1>5, <2>3 DEF Kill
  <2>4. \A pc \in {"poll", "remove", "leaving"} : \A q \in Procs : [proc[q] EXCEPT !.pc = pc].pc # "exchange"
    BY <1>1 DEF Fields
  <2>5. Asking' \subseteq Asking
    <3>1. ASSUME NEW force \in BOOLEAN, NEW restart \in BOOLEAN, Stop(p, force, restart)
          PROVE  Asking' \subseteq Asking
      <4>. DEFINE self == [Idle EXCEPT !.cmd = IF restart THEN "restart" ELSE "stop", !.flag = force]
      <4>1. /\ [self EXCEPT !.pc = "restart"].pc # "exchange"
            /\ [self EXCEPT !.pc = "signal", !.target = Written].pc # "exchange"
        BY DEF Idle
      <4>2. \/ Become(p, [self EXCEPT !.pc = "restart"])
            \/ Become(p, [self EXCEPT !.pc = "signal", !.target = Written])
            \/ Become(p, Idle)
        BY <3>1 DEF Stop
      <4>. QED  BY <1>4, <1>5, <4>1, <4>2
    <3>2. CASE Signal(p)
      <4>. DEFINE poll == [proc[p] EXCEPT !.pc = "poll"]
      <4>1. PICK q \in proc[p].target :
               \/ Running(q) /\ proc' = [proc EXCEPT ![p] = poll, ![q].pc = "leaving"]
               \/ Become(p, poll)
               \/ Kill(p, {q}, poll)
        BY <3>2 DEF Signal
      <4>2. CASE Running(q) /\ proc' = [proc EXCEPT ![p] = poll, ![q].pc = "leaving"]
        <5>1. q # p
          BY <3>2, <4>2 DEF Signal, Running
        <5>2. proc' = [[proc EXCEPT ![p] = poll] EXCEPT ![q].pc = "leaving"]
          BY <4>2
        <5>3. proc'[p] = poll /\ \A r \in Procs \ {p, q} : proc'[r] = proc[r]
          BY <5>1, <5>2 DEF AllFine
        <5>4. q \in Procs => proc'[q] = [proc[q] EXCEPT !.pc = "leaving"]
          BY <5>1, <5>2 DEF AllFine
        <5>. QED  BY <1>3, <2>4, <5>3, <5>4
      <4>. QED  BY <1>4, <2>3, <2>4, <4>1, <4>2
    <3>3. CASE Poll(p)
      BY <1>6, <3>3 DEF Poll
    <3>4. CASE PollTimeout(p)
      BY <1>4, <1>5, <2>3, <2>4, <3>4 DEF PollTimeout
    <3>5. CASE StopRemove(p) \/ Exit(p)
      <4>1. [Idle EXCEPT !.pc = "restart", !.cmd = "restart"].pc # "exchange"
        BY DEF Idle
      <4>. QED  BY <1>5, <2>2, <3>5, <4>1 DEF StopRemove, Exit
    <3>6. CASE Crash(p)
      BY <1>5, <2>3, <3>6 DEF Crash
    <3>. QED  BY <1>9, <3>1, <3>2, <3>3, <3>4, <3>5, <3>6
  <2>. QED  BY <1>2, <2>1, <2>5
<1>. QED  BY <1>7, <1>8, <1>9 DEF Next

(* TypeOK, for every number of processes, commands and crashes, however     *)
(* they overlap: what a command renames over config.yaml is a valid config, *)
(* or torn by one that shares the temporary file.                          *)
THEOREM TypeCorrect == Spec => []TypeOK
<1>1. Init => AllTyped
  <2>. SUFFICES ASSUME Init PROVE AllTyped
    OBVIOUS
  <2>1. /\ config = Files(want, Procs) /\ store = Files(NoKey, Procs) /\ agents = 0
        /\ proc = [p \in Procs |-> Idle] /\ halfway = FALSE /\ overlap = {}
        /\ used = [commands |-> 0, crashes |-> 0]
        /\ pidfile = Missing /\ seen = File({}) /\ approved = {}
        /\ want = Absent \/ \E dest \in Dests : want = Default(dest, 0)
    BY DEF Init, ConfigInit
  <2>2. want = Absent \/ want \in Configs
    BY <2>1, DefaultTyped DEF Configs
  <2>3. FilesTyped
    BY <2>1, <2>2 DEF FilesTyped, IsPair, Files, FDs, Configs
  <2>4. SidecarTyped
    BY <2>1 DEF SidecarTyped
  <2>5. Asking = {}
    BY <2>1 DEF Asking, Idle
  <2>6. Counted
    BY <2>1, <2>5, ConfigConstantsOK, FS_EmptySet DEF Counted
  <2>. QED  BY <2>1, <2>3, <2>4, <2>6, IdleTyped DEF AllTyped
<1>2. AllFine /\ AllTyped /\ [Next]_vars => AllTyped'
  <2>. SUFFICES ASSUME AllFine, AllTyped, [Next]_vars PROVE AllTyped'
    OBVIOUS
  <2>1. CASE UNCHANGED vars
    BY <2>1 DEF vars, base, cvars, svars, AllTyped, FilesTyped, SidecarTyped, Counted, Asking
  <2>2. CASE Next
    <3>1. FilesTyped' /\ Counted'
      BY <2>2, FilesKept, CountedKept
    <3>2. ASSUME NEW p \in Procs, ConfigStep(p), UNCHANGED svars
          PROVE  SidecarTyped'
      <4>1. overlap' \subseteq overlap \cup {"writers"}
        BY <3>2 DEF ConfigStep, Set, InitPlain, InitWithToken, InitWithKey, Launch, Exchange, ExchangeFails, Put,
                    PutFails, PutOpen, PutFill, PutRename, Validate, Open, Fill, Rename
      <4>. QED  BY <3>2, <4>1 DEF AllTyped, SidecarTyped, svars
    <3>3. SidecarTyped' /\ \A q \in Procs : Typed(proc'[q])
      BY <2>2, <3>2, WriterTyped, ServerTyped, StopperTyped DEF Next
    <3>. QED  BY <3>1, <3>3 DEF AllTyped
  <2>. QED  BY <2>1, <2>2
<1>3. AllTyped => TypeOK
  <2>. SUFFICES ASSUME AllTyped PROVE TypeOK
    OBVIOUS
  <2>1. agents \in 0 .. MaxCommands
    BY FS_CardinalityType, ConfigConstantsOK DEF AllTyped, Counted
  <2>2. /\ config.file \in {Absent, Torn} \/ (config.file \in Content /\ config.file.initial =< config.file.max)
        /\ config.tmp \in {NoTmp, Torn} \/ config.tmp \in Content
        /\ store.file \in {NoKey, Torn} \cup Key
        /\ \A p \in Procs : config.fd[p] \in FDs /\ store.fd[p] \in FDs
    BY DEF AllTyped, FilesTyped, IsPair, Configs, Valid
  <2>3. ConfigTypeOK
    BY <2>1, <2>2 DEF AllTyped, FilesTyped, SidecarTyped, Counted, ConfigTypeOK
  <2>. QED  BY <2>3 DEF AllTyped, SidecarTyped, TypeOK
<1>. QED  BY <1>1, <1>2, <1>3, AllFineInvariant, PTL DEF Spec
=============================================================================
