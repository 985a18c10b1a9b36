---------------------------- MODULE MCFileQueue ----------------------------
(* Small instances of FileQueue for TLC. *)
EXTENDS FileQueue, FiniteSetsExt

MCDestOf == [e \in Events |-> CHOOSE d \in Dests : TRUE]

\* Payloads of one and two units, a header of one unit.
MCPayload == [e \in Events |-> IF e = CHOOSE x \in Events : TRUE THEN 2 ELSE 1]
MCWeight == [S \in SUBSET Events |-> MapThenSumSet(LAMBDA e : MCPayload[e] + 1, S)]

\* Both processes are there before the first event: no Open rolls back what
\* another process is at work on.
OpenedFirst == asked # {} => up = Procs

\* A bound on the retries of two processes: each may put back a copy that
\* the other's bound on its own Retry calls does not see.
FewAttempts ==
  \A d \in Dir, e \in Events : file[d][e] # None => file[d][e].attempts =< MaxAttempts

\* With a third event, one thing goes wrong (a process ends or a file-system
\* call fails) and a record is retried once; with two, both can go wrong.
ThirdIsPlain ==
  Cardinality(asked) > 2 =>
    /\ crashes + faults =< 1
    /\ \A d \in Dir, e \in Events : file[d][e] # None => file[d][e].attempts =< 1
=============================================================================
