---------------------------- MODULE MCDispatcher ----------------------------
(* Small instances of Dispatcher for TLC. *)
EXTENDS DispatcherImplements, TLC

MCDestOf == [e \in Events |-> CHOOSE d \in Dests : TRUE]
MCRegistry == <<CHOOSE d \in Dests : TRUE>>
MCRegistryTwo == LET last == CHOOSE d \in Dests : TRUE IN <<CHOOSE d \in Dests \ {last} : TRUE, last>>

Http == [d \in Dests |-> "http"]
WebhookScout == [d \in Dests |-> "webhookscout"]
FileDest == [d \in Dests |-> "file"]

\* Uniform records: a payload of one unit, a header of one.
MCPayload == [e \in Events |-> 1]
MCWeight == [S \in SUBSET Events |-> 2 * Cardinality(S)]

\* One thing goes wrong: a process ends or a file-system call fails.
OneMishap == crashes + faults =< 1

Symmetry == Permutations(Events) \cup Permutations(Workers)
=============================================================================
