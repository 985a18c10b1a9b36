------------------------------ MODULE Sidecar ------------------------------
(***************************************************************************)
(* scouttrace start, stop and restart, which keep the dispatcher's process *)
(* id in dispatch.pid, and destination approve and approve-host, whose     *)
(* answers start asks for before it sends anything.  dispatch.pid and      *)
(* destinations_seen.json are written in place.  These commands share the  *)
(* processes, and so the process ids, with those of ConfigFile: an id in   *)
(* dispatch.pid may have become another command's.                         *)
(***************************************************************************)
EXTENDS ConfigFile

CONSTANTS Hosts, HostOf

ASSUME SidecarConstantsOK == HostOf \in [Network -> Hosts] /\ Hosts \cap Dests = {}

VARIABLES
  pidfile,   \* dispatch.pid
  seen,      \* destinations_seen.json
  approved   \* what the user approved (history)

svars == <<pidfile, seen, approved>>
vars == <<base, svars>>

Missing == [missing |-> TRUE]
Pid == [pid : Procs]
\* An approval is of one destination, or of a host.
Approvals == Dests \cup Hosts
File(entries) == [entries |-> entries]

Init == ConfigInit /\ pidfile = Missing /\ seen = File({}) /\ approved = {}

\* A start before its process id is in dispatch.pid, and a stop before it is
\* done with it.
Settling ==
  {q \in Procs :
     /\ proc[q].cmd \in {"start", "stop", "restart"}
     /\ proc[q].pc \in {"check", "seen_open", "seen_fill", "pid_read", "pid_open", "pid_fill",
                        "pid_lost", "signal", "poll", "remove", "restart"}}

\* The dispatcher runs, for start or for a flush.
Running(p) == proc[p].pc = "running"
Sending(p) == proc[p].pc \in {"running", "sending"}

-----------------------------------------------------------------------------
(* Approvals                                                               *)

\* What loadDestSeen finds; its error is dropped by every caller.
LoadSeen == IF seen = Torn THEN {} ELSE seen.entries

\* Variant for mutation: approval of a host is taken for one of every host.
AllowsAnyHost(entries, dest) ==
  dest \notin Network \/ dest \in entries \/ entries \cap Hosts # {}

Allows(entries, dest) ==
  dest \notin Network \/ dest \in entries \/ HostOf[dest] \in entries

\* The destination is the one the config has at this moment.
Approve(p) ==
  /\ Launch(p, "sidecar", {})
  /\ IF Loads(config.file)
     THEN /\ approved' = approved \cup {config.file.dest}
          /\ Become(p, [Idle EXCEPT !.pc = "seen_open", !.cmd = "approve",
                                    !.entries = LoadSeen \cup {config.file.dest}])
     ELSE UNCHANGED <<approved, proc>>
  /\ UNCHANGED <<cvars, pidfile, seen>>

ApproveHost(p, host) ==
  /\ Launch(p, "sidecar", {})
  /\ approved' = approved \cup {host}
  /\ Become(p, [Idle EXCEPT !.pc = "seen_open", !.cmd = "approve",
                            !.entries = LoadSeen \cup {host}])
  /\ UNCHANGED <<cvars, pidfile, seen>>

\* saveDestSeen, for the commands above and for start --yes.
SeenOpen(p) ==
  /\ proc[p].pc = "seen_open"
  /\ seen' = Torn /\ Go(p, "seen_fill")
  /\ UNCHANGED <<cvars, pidfile, approved, overlap, used>>

\* Where a command goes once its destination is approved.
Onward(p) == IF proc[p].cmd = "flush" THEN "sending" ELSE "pid_read"

SeenFill(p) ==
  /\ proc[p].pc = "seen_fill"
  /\ seen' \in Over(seen, File(proc[p].entries))
  /\ Become(p, IF proc[p].cmd = "approve" THEN Idle ELSE [proc[p] EXCEPT !.pc = Onward(p), !.entries = {}])
  /\ UNCHANGED <<cvars, pidfile, approved, overlap, used>>

-----------------------------------------------------------------------------
(* start                                                                   *)

\* The config is loaded once; approvals, queue and adapters all go by it.
Load(p, cmd, yes) ==
  Become(p, IF Loads(config.file)
            THEN [Idle EXCEPT !.pc = "check", !.cmd = cmd, !.c = config.file, !.flag = yes]
            ELSE Idle)

Start(p, yes) ==
  /\ Launch(p, "sidecar", Settling)
  /\ Load(p, "start", yes)
  /\ UNCHANGED <<cvars, svars>>

\* flush, and with yes = FALSE the --flush of a hook and the dispatcher in a
\* proxy: these run beside any sidecar, and dispatch.pid says nothing of them.
Flush(p, yes) ==
  /\ Launch(p, "sidecar", {})
  /\ Load(p, "flush", yes)
  /\ UNCHANGED <<cvars, svars>>

\* enforceFirstSendApproval
Check(p) ==
  /\ proc[p].pc = "check"
  /\ LET dest == proc[p].c.dest
     IN  CASE Allows(LoadSeen, dest) -> Go(p, Onward(p)) /\ UNCHANGED approved
           [] proc[p].flag /\ ~Allows(LoadSeen, dest) ->
                /\ Become(p, [proc[p] EXCEPT !.pc = "seen_open", !.entries = LoadSeen \cup {dest}])
                /\ approved' = approved \cup {dest}
           [] OTHER -> Become(p, Idle) /\ UNCHANGED approved
  /\ UNCHANGED <<cvars, pidfile, seen, overlap, used>>

\* pidAlive asks whether any process has the id.
Alive(pids) == \E q \in pids : Busy(q)
Written == IF pidfile \in Pid THEN {pidfile.pid} ELSE {}

\* Variant for mutation: whether the process is alive is not asked.
PidReadOnly(p) ==
  /\ proc[p].pc = "pid_read"
  /\ Go(p, "pid_open")
  /\ UNCHANGED <<cvars, svars, overlap, used>>

\* The pass ends, or does not begin: the queue does not open, an adapter
\* cannot be built.
FlushEnds(p) ==
  /\ proc[p].pc = "sending"
  /\ Become(p, Idle)
  /\ UNCHANGED <<cvars, svars, overlap, used>>

\* "already running", also if the id is another command's by now, or its own.
PidRead(p) ==
  /\ proc[p].pc = "pid_read"
  /\ IF Alive(Written) THEN Become(p, Idle) ELSE Go(p, "pid_open")
  /\ UNCHANGED <<cvars, svars, overlap, used>>

\* The queue does not open, or an adapter cannot be built.
GiveUp(p) ==
  /\ proc[p].pc = "pid_open"
  /\ Become(p, Idle)
  /\ UNCHANGED <<cvars, svars, overlap, used>>

PidOpen(p) ==
  /\ proc[p].pc = "pid_open"
  /\ pidfile' = Torn /\ Go(p, "pid_fill")
  /\ UNCHANGED <<cvars, seen, approved, overlap, used>>

\* A file that was removed since is written to no avail.
PidFill(p) ==
  /\ \/ proc[p].pc = "pid_fill" /\ pidfile' \in Over(pidfile, [pid |-> p])
     \/ proc[p].pc = "pid_lost" /\ UNCHANGED pidfile
  /\ Go(p, "filled")
  /\ UNCHANGED <<cvars, seen, approved, overlap, used>>

\* signal.Notify; then the dispatcher runs.
Listen(p) ==
  /\ proc[p].pc = "filled"
  /\ Go(p, "running")
  /\ UNCHANGED <<cvars, svars, overlap, used>>

\* --once, --timeout, an interrupt or an error ends the dispatcher.
Leave(p) ==
  /\ Running(p)
  /\ Go(p, "leaving")
  /\ UNCHANGED <<cvars, svars, overlap, used>>

\* os.Remove: who has the file open writes to one without a name.
Remove(p, next) ==
  /\ pidfile' = Missing
  /\ proc' = [q \in Procs |-> IF q = p THEN next
                              ELSE IF proc[q].pc = "pid_fill" THEN [proc[q] EXCEPT !.pc = "pid_lost"]
                              ELSE proc[q]]

\* The deferred Remove, whosever id the file has by now.
Exit(p) ==
  /\ proc[p].pc = "leaving"
  /\ Remove(p, Idle)
  /\ UNCHANGED <<cvars, seen, approved, overlap, used>>

-----------------------------------------------------------------------------
(* stop and restart                                                        *)

\* stop, with --force or without; restart is stop without it, then start.
Stop(p, force, restart) ==
  /\ Launch(p, "sidecar", Settling)
  /\ LET self == [Idle EXCEPT !.cmd = IF restart THEN "restart" ELSE "stop", !.flag = force]
     IN  Become(p, CASE pidfile = Missing /\ restart -> [self EXCEPT !.pc = "restart"]
                     [] pidfile \in Pid -> [self EXCEPT !.pc = "signal", !.target = Written]
                     [] OTHER -> Idle)
  /\ UNCHANGED <<cvars, svars>>

\* Process q is killed, and p goes on, unless it is p that was killed.
Kill(p, pids, next) ==
  /\ proc' = [q \in Procs |-> IF q \in pids THEN Idle ELSE IF q = p THEN next ELSE proc[q]]
  /\ config' = [config EXCEPT !.fd = [q \in Procs |-> IF q \in pids THEN "none" ELSE @[q]]]
  /\ store' = [store EXCEPT !.fd = [q \in Procs |-> IF q \in pids THEN "none" ELSE @[q]]]
  /\ UNCHANGED <<agents, want, halfway>>

\* SIGTERM.  Only a dispatcher that listens takes it as a request; one that is
\* on its way out may not see it, and any other command dies of it.
Signal(p) ==
  /\ proc[p].pc = "signal"
  /\ LET poll == [proc[p] EXCEPT !.pc = "poll"]
     IN  \E q \in proc[p].target :
           \/ /\ Running(q)
              /\ proc' = [proc EXCEPT ![p] = poll, ![q].pc = "leaving"]
              /\ UNCHANGED cvars
           \/ /\ proc[q].pc \in {"idle", "leaving"}
              /\ Become(p, poll) /\ UNCHANGED cvars
           \/ /\ proc[q].pc \notin {"idle", "running"}
              /\ Kill(p, {q}, poll)
  /\ UNCHANGED <<svars, overlap, used>>

Poll(p) ==
  /\ proc[p].pc = "poll" /\ ~Alive(proc[p].target)
  /\ Go(p, "remove")
  /\ UNCHANGED <<cvars, svars, overlap, used>>

\* Variant for mutation: a stop that times out takes dispatch.pid for stale.
PollTimeoutRemoves(p) ==
  /\ proc[p].pc = "poll"
  /\ Go(p, "remove")
  /\ UNCHANGED <<cvars, svars, overlap, used>>

\* Exit code 75, or SIGKILL.
PollTimeout(p) ==
  /\ proc[p].pc = "poll"
  /\ IF proc[p].flag
     THEN Kill(p, proc[p].target, [proc[p] EXCEPT !.pc = "remove"])
     ELSE Become(p, Idle) /\ UNCHANGED cvars
  /\ UNCHANGED <<svars, overlap, used>>

StopRemove(p) ==
  /\ proc[p].pc = "remove"
  /\ Remove(p, IF proc[p].cmd = "restart" THEN [Idle EXCEPT !.pc = "restart", !.cmd = "restart"] ELSE Idle)
  /\ UNCHANGED <<cvars, seen, approved, overlap, used>>

\* The start of a restart.
Restart(p, yes) ==
  /\ proc[p].pc = "restart"
  /\ Load(p, "start", yes)
  /\ UNCHANGED <<cvars, svars, overlap, used>>

-----------------------------------------------------------------------------

\* A process is killed from outside, at any step.
Crash(p) ==
  /\ Busy(p) /\ Use("crashes", MaxCrashes)
  /\ Kill(p, {p}, Idle)
  /\ UNCHANGED <<svars, overlap>>

Next ==
  \E p \in Procs :
    \/ ConfigStep(p) /\ UNCHANGED svars
    \/ Approve(p) \/ (\E host \in Hosts : ApproveHost(p, host)) \/ SeenOpen(p) \/ SeenFill(p)
    \/ \E yes \in BOOLEAN : Start(p, yes) \/ Restart(p, yes) \/ Flush(p, yes)
    \/ Check(p) \/ FlushEnds(p) \/ PidRead(p) \/ GiveUp(p) \/ PidOpen(p) \/ PidFill(p) \/ Listen(p) \/ Leave(p) \/ Exit(p)
    \/ \E force \in BOOLEAN : Stop(p, force, FALSE)
    \/ Stop(p, FALSE, TRUE) \/ Signal(p) \/ Poll(p) \/ PollTimeout(p) \/ StopRemove(p)
    \/ Crash(p)

Spec == Init /\ [][Next]_vars

-----------------------------------------------------------------------------
(* Properties                                                              *)

\* Every variable stays in its type, and no config that is not valid is saved.
TypeOK ==
  /\ ConfigTypeOK
  /\ pidfile \in {Missing, Torn} \cup Pid
  /\ seen = Torn \/ seen \in {File(entries) : entries \in SUBSET Approvals}
  /\ approved \subseteq Approvals

\* A sidecar or a flush sends only to a destination that the user approved,
\* itself or by its host, whatever became of the config and of the approvals
\* since, however commands overlap and wherever they are killed.
ApprovedOnly ==
  \A p \in Procs :
    Sending(p) /\ proc[p].c.dest \in Network =>
      proc[p].c.dest \in approved \/ HostOf[proc[p].c.dest] \in approved

\* At most one dispatcher runs, through starts, stops that time out, restarts,
\* crashes and process ids that are used again.  Only a start or a stop that
\* overlaps another can break it: between the look at dispatch.pid and the
\* change of it nothing is locked.
OneSidecar == "sidecar" \notin overlap => Cardinality({p \in Procs : Running(p)}) =< 1
=============================================================================
