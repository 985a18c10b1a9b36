---------------------------- MODULE MCHostPatch ----------------------------
(* Small instances of HostPatch for TLC. *)
EXTENDS HostPatch, TLC

CONSTANTS p1, p2

\* Two commands overlap, or three follow each other.
TwoOverlap == "overlap" \in excused => used.commands =< 2 /\ used.edits = 0

Symmetry == Permutations(Procs)
=============================================================================
