------------------------ MODULE DispatcherImplements ------------------------
(***************************************************************************)
(* The dispatcher over the file queue implements AtLeastOnce.  The stage   *)
(* of an event is read off the directories; where a crash has left a       *)
(* record in two, the live copy counts, because Open rolls inflight back   *)
(* to pending and so takes back what the interrupted move had begun.       *)
(***************************************************************************)
EXTENDS Dispatcher

StageOf(e) ==
  IF e \notin accepted THEN "new"
  ELSE IF Live(e) THEN "queued"
  ELSE IF file["dead"][e] # None THEN "dead"
  ELSE IF file["dead_overflow"][e] # None THEN "evicted"
  ELSE "gone"

Promise == INSTANCE AtLeastOnce WITH
  stage <- [e \in Events |-> StageOf(e)], got <- taken

\* Every behaviour of the queue with its dispatcher is one the promise
\* allows: in particular no event leaves the queue undelivered unless it is
\* put aside as dead or evicted.
ImplementsAtLeastOnce == Promise!Spec
=============================================================================
