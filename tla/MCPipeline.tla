----------------------------- MODULE MCPipeline -----------------------------
(* Small instances of Pipeline for TLC. *)
EXTENDS Pipeline, TLC

CONSTANTS p1, p2

MCTops ==
  [cost : {{}, {"usd"}}, in : {{}, {0}, {1}}, cache : {{}, {1}}, out : {{}}, model : {{}, {"opus"}}]
MCEmpty == [cost |-> {}, in |-> {}, cache |-> {}, out |-> {}, model |-> {}]
\* What a nested object adds, and what it must not.
MCParts ==
  {MCEmpty, [MCEmpty EXCEPT !.cost = {"eur"}], [MCEmpty EXCEPT !.out = {1}, !.model = {"new"}]}
MCPayloads == {<<top, part>> : top \in MCTops, part \in MCParts}

\* Splits that divide evenly and splits that do not.
MCTurns == [delta : {0, 1, 5}, out : {1}, input : {1, 3}, creation : {0, 2}, read : {3}]
             \cup {[delta |-> 0, out |-> 0, input |-> 0, creation |-> 0, read |-> 0]}

\* One string grows over the limit, two are over it together, and some are in
\* themselves.
MCEvents ==
  LET path == <<"request", "args", "path">>
      note == <<"request", "args", "note">>
      answer == <<"response", "result", "path">>
      error == <<"response", "error">>
      All(more) == [x \in {path, note, answer, error} |-> {"key", "token", "card", "home", "email"} \cup more[x]]
      No == [x \in {path, note, answer, error} |-> {}]
  IN  {All([No EXCEPT ![path] = {"inner"}, ![note] = {"near"}]),
       All([No EXCEPT ![path] = {"near"}, ![note] = {"near"}, ![answer] = {"inner", "large"}]),
       All([No EXCEPT ![note] = {"large"}, ![error] = {"large"}])}

\* The first entry may be for another server, or not say what of a part.
MCPolicies ==
  LET results == [matches |-> TRUE, args |-> "unset", result |-> "no"]
      args == [matches |-> TRUE, args |-> "no", result |-> "yes"]
      other == [matches |-> FALSE, args |-> "no", result |-> "no"]
  IN  {<<args, results>>, <<other, results>>, <<other>>}

\* With more than one call under way or done, it only matters that they ask
\* for a price and what they get; and to what comes after an event it does not
\* matter what was in it.
Asking == [MCEmpty EXCEPT !.in = {1}, !.model = {"opus"}]
Asks == {Own(Asking), [Own(Asking) EXCEPT !.model = {"new"}, !.out = {1}]}
LaterCallsAsk ==
  /\ calls > 1 => \A p \in Procs : proc[p].pc # "redact" /\ proc[p].call \in {None} \cup Asks
  /\ out # None /\ out.kind = "event" =>
       out.profile = "strict" /\ out.policy = CHOOSE a \in Policies : TRUE

Symmetry == Permutations(Procs)
=============================================================================
