---------------------------- MODULE MCCodexHook ----------------------------
(* Small instances of CodexHook for TLC. *)
EXTENDS CodexHook, TLC

CONSTANTS s1, s2, p1

\* Something fails, or a hook that is at work names another id, but not both.
FailsOrOther == failures > 0 => \A p \in Procs : proc[p].id # "other"

\* A failure, or a second turn_context, which changes nothing for the scan.
FailsOrAgain ==
  failures > 0 =>
    \A s \in Sessions : Cardinality({i \in DOMAIN file[s] : file[s][i].type = "model"}) =< 1

\* Scans of two sessions, which have no file in common, do not interleave.
OneScanned ==
  \A p, q \in Procs : Scanning(p) /\ Scanning(q) => proc[p].session = proc[q].session

\* Nothing is left to show where both repetitions and omissions are excused.
NotAllExcused == ~({"repeats", "omits"} \subseteq excused)

Symmetry == Permutations(Sessions)
=============================================================================
