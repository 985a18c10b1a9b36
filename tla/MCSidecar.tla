----------------------------- MODULE MCSidecar -----------------------------
(* Small instances of Sidecar for TLC. *)
EXTENDS Sidecar

CONSTANTS p1, p2

\* Every destination of the network has a host of its own.
MCHostOf == [dest \in {"d1", "d2"} |-> IF dest = "d1" THEN "h1" ELSE "h2"]

\* Two commands overlap and a third follows, or four do not overlap.
FourInOrder ==
  /\ used.commands >= 3 =>
       Cardinality({p \in Procs : proc[p].pc \notin {"idle", "running", "leaving"}}) =< 1
  /\ used.commands = 4 => overlap = {}

Symmetry == Permutations(Procs)
=============================================================================
