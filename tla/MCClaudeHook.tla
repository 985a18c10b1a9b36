---------------------------- MODULE MCClaudeHook ----------------------------
(* Small instances of ClaudeHook for TLC. *)
EXTENDS ClaudeHook, TLC

CONSTANTS h1, h2, h3

\* At most two hooks run at a time.
TwoAtOnce == Cardinality({h \in Hooks : Started(h)}) =< 2

\* The transcript is replaced, or a hook fails, but not both.
OneMishap == gen + failures =< 1

\* After one, a third hook runs by itself: it finds what the others left.
ThirdAlone ==
  gen + failures > 0 /\ (\A h \in Hooks : hook[h].pc # "off") =>
    Cardinality({h \in Hooks : Started(h)}) =< 1

\* Where a replaced transcript went unnoticed, every property is excused.
NotAllExcused == "unnoticed" \notin mishaps

Symmetry == Permutations(Hooks)
=============================================================================
