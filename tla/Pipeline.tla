------------------------------ MODULE Pipeline ------------------------------
(***************************************************************************)
(* What happens to a captured call or turn before it is enqueued, in the   *)
(* proxy's capture worker and in the hooks: it is billed, which may take a *)
(* live price (PriceCache), cut down to what is to be captured and         *)
(* redacted.  Enqueuing is FileQueue's.                                    *)
(***************************************************************************)
EXTENDS PriceCache, Billing, Redact

CONSTANTS
  Table,      \* the models in the built-in table
  Payloads,   \* what tools answer: sequences of objects, the top one first
  Turns,      \* the token counts of turns
  Events,     \* what is in the strings of a call
  Policies,   \* the entries of the config about what to capture
  Profiles,   \* the profiles a config may name
  MaxCalls    \* bound on the calls and turns

ASSUME PipelineConstantsOK ==
  /\ Table \subseteq Models /\ MaxCalls \in Nat
  /\ \A payload \in Payloads :
       /\ payload # <<>>
       /\ payload \in Seq([cost : SUBSET STRING, in : SUBSET Nat, cache : SUBSET Nat, out : SUBSET Nat, model : SUBSET Models])
  /\ Turns \subseteq [delta : Nat, out : Nat, input : Nat, creation : Nat, read : Nat]
  /\ \A policy \in Policies :
       policy \in Seq([matches : BOOLEAN, args : {"unset", "yes", "no"}, result : {"unset", "yes", "no"}])
  /\ Profiles \subseteq {"strict", "standard", "permissive"}

VARIABLES
  calls,  \* how many calls and turns there were
  out     \* what the last step computed (history)

vars == <<mem, disk, now, proc, calls, out>>

Init == CacheInit /\ calls = 0 /\ out = None

\* ask: a live price is needed.
Take(p, call, kind, model, ask) ==
  /\ proc[p].pc = "idle" /\ calls < MaxCalls /\ calls' = calls + 1
  /\ Become(p, [Idle EXCEPT !.pc = IF ask THEN "lookup" ELSE "emit", !.kind = kind,
                            !.call = call, !.model = model])
  /\ UNCHANGED cachevars

\* The answer to a tool call: it may report its cost.
TakeCall(p, payload) ==
  LET b == Extract(payload)
  IN  /\ Take(p, b, "call", IF b.model = {} THEN "none" ELSE CHOOSE m \in b.model : TRUE, Estimable(b))
      /\ out' = [kind |-> "extract", payload |-> payload, block |-> b]

\* A turn of the model, from a transcript.
TakeTurn(p, t, model) ==
  /\ Take(p, [Unbilled EXCEPT !.model = {model}, !.in = {t.delta}, !.out = {t.out}], "turn", model,
          t.delta + t.out > 0)
  /\ out' = [kind |-> "apportion", turn |-> t, usage |-> Apportion(t)]

\* EnrichLive or EstimateUsage returns.  Beside the bill is what it is of.
Bill(p, static) ==
  /\ proc[p].pc = "emit"
  /\ LET b == proc[p].call
         turn == proc[p].kind = "turn"
         live == proc[p].entry # None /\ proc[p].entry.ok
         table == proc[p].model \in Table
     IN  Become(p, [Idle EXCEPT !.pc = "redact",
           !.bill = [call |-> b, turn |-> turn, live |-> live, table |-> table, static |-> static,
                     bill |-> IF turn THEN BillTurn(b, live, table) ELSE Enrich(b, live, table, static)]])
  /\ out' = None
  /\ UNCHANGED <<cachevars, calls>>

\* Variant for mutation: the bill is of what is left of the result.
EmitBillsLate(p, event, policy, profile, long) ==
  /\ proc[p].pc = "redact"
  /\ LET kept == Captured(event, policy, long)
     IN  out' = [kind |-> "event", raw |-> event, policy |-> policy, profile |-> profile,
                 billed |-> IF \A path \in Under(kept, Result) : path = Result
                            THEN [proc[p].bill EXCEPT !.bill = Unbilled] ELSE proc[p].bill,
                 event |-> Apply(kept, profile)]
  /\ Become(p, Idle)
  /\ UNCHANGED <<cachevars, calls>>

\* The event as it goes to the queue, with the bill.
Emit(p, event, policy, profile, long) ==
  /\ proc[p].pc = "redact"
  /\ out' = [kind |-> "event", raw |-> event, policy |-> policy, profile |-> profile,
             billed |-> proc[p].bill, event |-> Apply(Captured(event, policy, long), profile)]
  /\ Become(p, Idle)
  /\ UNCHANGED <<cachevars, calls>>

Next ==
  \/ \E p \in Procs :
       \/ \E payload \in Payloads : TakeCall(p, payload)
       \/ \E t \in Turns, model \in Models : TakeTurn(p, t, model)
       \/ \E static \in BOOLEAN : Bill(p, static)
       \/ \E event \in Events, policy \in Policies, profile \in Profiles, long \in SUBSET {Args, Result} :
            Emit(p, event, policy, profile, long)
  \/ (Tick \/ \E p \in Procs : CacheStep(p)) /\ out' = None /\ UNCHANGED calls

Spec == Init /\ [][Next]_vars

-----------------------------------------------------------------------------
(* Properties                                                              *)

\* What the objects of a payload say of a field, in their order.
Says(payload, field) ==
  LET at == {i \in DOMAIN payload : payload[i][field] # {}}
  IN  IF at = {} THEN {} ELSE payload[CHOOSE i \in at : \A j \in at : i =< j][field]

\* A bill is right: a cost and a model are those of the outermost object that
\* has them; the tokens of a turn are all billed, each part within rounding of
\* its share; and an event goes to the queue with an estimate only where no
\* cost is reported, with the live price before the table's and either before
\* the tool's, whatever was cut of the result or not captured.
BillIsRight ==
  /\ out # None /\ out.kind = "extract" =>
       out.block.cost = Says(out.payload, "cost") /\ out.block.model = Says(out.payload, "model")
  /\ out # None /\ out.kind = "event" =>
       LET x == out.billed
           b == x.call
           estimable == b.cost = {} /\ b.model # {} /\ Count(b.in) + Count(b.out) > 0
       IN  /\ x.bill.source = "reported" <=> b.cost # {}
           /\ x.bill.source = "live" <=> estimable /\ x.live
           /\ x.bill.source = "estimated" <=> estimable /\ ~x.live /\ x.table
           /\ x.bill.source = "none" => x.turn \/ ~x.static
  /\ out # None /\ out.kind = "apportion" =>
       LET t == out.turn  u == out.usage  cur == t.input + t.creation + t.read
       IN  /\ u.input + u.creation + u.read = t.delta
           /\ t.creation + t.read > 0 =>
                /\ t.delta * t.input - u.input * cur \in 0 .. cur - 1
                /\ t.delta * t.creation - u.creation * cur \in 0 .. cur - 1
                /\ u.read * cur - t.delta * t.read \in 0 .. 2 * (cur - 1)

\* What leaves for the queue has no API key in any string, in the other
\* profiles than permissive no other secret or card number either, and in
\* strict no e-mail address.  What the config says not to capture is not there;
\* and but for permissive, arguments or a result that were over the limit left
\* a marker and nothing else, and a path starts with a home only where there
\* was another one behind it.
NothingLeaks ==
  out # None /\ out.kind = "event" =>
    LET e == out.event
        off(part) == \E i \in DOMAIN out.policy :
                       /\ out.policy[i].matches /\ out.policy[i][part] = "no"
                       /\ \A j \in 1 .. i - 1 : ~(out.policy[j].matches /\ out.policy[j][part] = "yes")
    IN  /\ \A path \in DOMAIN e :
             /\ "key" \notin e[path]
             /\ out.profile = "strict" => "email" \notin e[path]
             /\ out.profile # "permissive" => {"token", "card"} \cap e[path] = {}
             /\ out.profile # "permissive" /\ Last(path) = "path" /\ "home" \in e[path] =>
                  "inner" \in out.raw[path]
        /\ off("args") => Under(e, Args) = {}
        /\ off("result") => Under(e, Result) = {}
        /\ out.profile # "permissive" =>
             \A part \in {Args, Result} :
               Oversize(out.raw, part) => \A path \in Under(e, part) : path = part /\ e[path] = {}
=============================================================================
