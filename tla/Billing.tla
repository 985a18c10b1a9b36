------------------------------ MODULE Billing ------------------------------
(***************************************************************************)
(* internal/billing, and apportionUsage of the Claude hook: what an event  *)
(* cost, from what the payload of a tool's answer reports, a live price,   *)
(* the built-in table of models, or a price the config gives the tool.     *)
(* Payloads nest once: usage, embedded text and metadata are the parts of  *)
(* the top object, in this order.  What a price is, is left out: a bill    *)
(* says where its cost is from.                                            *)
(***************************************************************************)
EXTENDS Integers, SequencesExt

\* A block: each field is the set of its one value, or empty.
Unbilled == [cost |-> {}, in |-> {}, out |-> {}, model |-> {}, source |-> "none"]

Or(a, b) == IF a # {} THEN a ELSE b
Count(n) == SumSet(n)

\* Variant for mutation: the nested object has the say.
MergeOver(dst, src) ==
  [cost |-> Or(src.cost, dst.cost), in |-> Or(src.in, dst.in), out |-> Or(src.out, dst.out),
   model |-> Or(src.model, dst.model), source |-> dst.source]

Merge(dst, src) ==
  [cost |-> Or(dst.cost, src.cost), in |-> Or(dst.in, src.in), out |-> Or(dst.out, src.out),
   model |-> Or(dst.model, src.model), source |-> dst.source]

\* The fields of one object; cache tokens are input tokens.
Own(o) ==
  [Unbilled EXCEPT !.cost = o.cost, !.out = o.out, !.model = o.model,
     !.in = IF o.cache = {} THEN o.in ELSE {Count(o.in) + Count(o.cache)}]

Extract(payload) == FoldLeft(LAMBDA acc, o : Merge(acc, Own(o)), Own(Head(payload)), Tail(payload))

\* EstimateLive asks for a price only of a known model and some tokens.
Estimable(b) == b.cost = {} /\ b.model # {} /\ Count(b.in) + Count(b.out) > 0

\* EnrichLive.  live says whether the service has a price, table whether the
\* built-in table has one, and static whether the config has one for the tool.
Enrich(b, live, table, static) ==
  CASE b.cost # {} -> [b EXCEPT !.source = "reported"]
    [] Estimable(b) /\ live -> [b EXCEPT !.cost = {"live"}, !.source = "live"]
    [] Estimable(b) /\ ~live /\ table -> [b EXCEPT !.cost = {"table"}, !.source = "estimated"]
    [] OTHER -> IF static THEN [b EXCEPT !.cost = {"static"}, !.source = "static"] ELSE b

-----------------------------------------------------------------------------
(* Turns of the model                                                      *)

\* apportionUsage: the new tokens of a turn, split as its context is.
Apportion(t) ==
  LET cur == t.input + t.creation + t.read
      input == (t.delta * t.input) \div cur
      creation == (t.delta * t.creation) \div cur
  IN  IF t.delta =< 0 \/ (t.creation = 0 /\ t.read = 0)
      THEN [input |-> t.delta, creation |-> 0, read |-> 0]
      ELSE [input |-> input, creation |-> creation, read |-> t.delta - input - creation]

\* buildLLMTurnBilling, with EstimateUsage: a turn that neither the service nor
\* the table has a price for is not billed at all.
BillTurn(b, live, table) ==
  LET some == Count(b.in) + Count(b.out) > 0
  IN  CASE some /\ live -> [b EXCEPT !.cost = {"live"}, !.source = "live"]
        [] some /\ ~live /\ table -> [b EXCEPT !.cost = {"table"}, !.source = "estimated"]
        [] OTHER -> Unbilled
=============================================================================
