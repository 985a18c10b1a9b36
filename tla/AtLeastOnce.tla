---------------------------- MODULE AtLeastOnce ----------------------------
(***************************************************************************)
(* What the queue and its dispatcher together promise for an event, with   *)
(* no files, processes or batches: an accepted event stays queued until a  *)
(* destination has received it, or it is put aside, visibly, as dead or    *)
(* evicted; what was put aside can be picked up again by nobody but an     *)
(* operator, and is dropped only when it is pruned.                        *)
(***************************************************************************)
CONSTANT Events

VARIABLES
  stage,   \* stage[e]: "new", "queued", "gone", "dead" or "evicted"
  got      \* events a destination has received

Init == stage = [e \in Events |-> "new"] /\ got = {}

Move(e, from, to) ==
  /\ stage[e] \in from
  /\ stage' = [stage EXCEPT ![e] = to]
  /\ UNCHANGED got

Accept(e) == Move(e, {"new"}, "queued")

\* A destination receives any of the queued events, possibly once again.
Receive(S) ==
  /\ \A e \in S : stage[e] = "queued"
  /\ got' = got \cup S
  /\ UNCHANGED stage

Complete(e) == e \in got /\ Move(e, {"queued"}, "gone")
Bury(e) == Move(e, {"queued"}, "dead")
Evict(e) == Move(e, {"queued"}, "evicted")
Prune(e) == Move(e, {"dead", "evicted"}, "gone")

Next ==
  \/ \E e \in Events : Accept(e) \/ Complete(e) \/ Bury(e) \/ Evict(e) \/ Prune(e)
  \/ \E S \in SUBSET Events : Receive(S)

Spec == Init /\ [][Next]_<<stage, got>>
=============================================================================
