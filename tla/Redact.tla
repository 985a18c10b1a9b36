------------------------------- MODULE Redact -------------------------------
(***************************************************************************)
(* internal/redact: which parts of a call are captured, and the rules of a *)
(* profile, which are applied to the event one after the other.  An event  *)
(* is a function on the paths of its strings; of a string only what rules  *)
(* look for is kept: a secret that every profile knows (key) or that only  *)
(* the stricter ones know (token), an e-mail address, a card number, the   *)
(* user's home at its start, another one behind that (inner), and whether  *)
(* it is over the limit of its part (large) or so near it that a           *)
(* placeholder takes it there.  Names of fields are not redacted.          *)
(* Rules that drop fields, and rules on an element of an array, are not in *)
(* any profile, and a profile is all that the program applies.             *)
(***************************************************************************)
EXTENDS Integers, SequencesExt

Kinds == {"key", "token", "email", "card", "home", "inner", "near", "large"}

Truncate(field) == [type |-> "truncate", field |-> field, kinds |-> {}]
Pattern(kinds) == [type |-> "pattern", field |-> <<>>, kinds |-> kinds]
\* By the last segment of the path.
Transform == [type |-> "transform", field |-> <<"path">>, kinds |-> {}]

Args == <<"request", "args">>
Result == <<"response", "result">>

Strict ==
  <<Truncate(Args), Truncate(Result), Pattern({"key", "token"}), Pattern({"email"}),
    Pattern({"card"}), Transform>>
Profile(name) ==
  CASE name = "strict" -> Strict
    [] name = "standard" -> RemoveFirst(Strict, Pattern({"email"}))
    [] name = "permissive" -> <<Pattern({"key"})>>

Under(event, field) == {path \in DOMAIN event : IsPrefix(field, path)}

\* A marker in the place of one part of the event.
Shortened(event, part) ==
  [path \in (DOMAIN event \ Under(event, part)) \cup {part} |-> IF path = part THEN {} ELSE event[path]]

\* The size of a part is that of all its strings.
Oversize(event, part) ==
  \/ \E path \in Under(event, part) : "large" \in event[path]
  \/ \E path, other \in Under(event, part) :
       path # other /\ "near" \in event[path] /\ "near" \in event[other]

\* With a placeholder, which may be the longer, for each thing found.
Replaced(s, kinds) ==
  IF s \cap kinds = {} THEN s ELSE (s \ kinds) \cup {k \in {"large"} : "near" \in s}

\* The home is replaced by "${HOME}", which expands to nothing, so that one
\* behind it comes to the start.
Normalized(s) == s \ {IF "inner" \in s THEN "inner" ELSE "home"}

\* One rule.
ApplyOne(event, r) ==
  CASE r.type = "truncate" ->
         IF Oversize(event, r.field) THEN Shortened(event, r.field) ELSE event
    [] r.type = "pattern" -> [path \in DOMAIN event |-> Replaced(event[path], r.kinds)]
    [] r.type = "transform" ->
         [path \in DOMAIN event |-> IF Last(path) = Last(r.field) THEN Normalized(event[path]) ELSE event[path]]

\* Variant for mutation: the first rule that changes the event is the last.
ApplyFirst(event, profile) ==
  LET after == FoldLeft(LAMBDA acc, r : IF acc.done THEN acc
                          ELSE [done |-> ApplyOne(acc.e, r) # acc.e, e |-> ApplyOne(acc.e, r)],
                        [done |-> FALSE, e |-> event], Profile(profile))
  IN  after.e

Apply(event, profile) == FoldLeft(ApplyOne, event, Profile(profile))

\* ShouldCaptureArgs, ShouldCaptureResult: the first entry for the server
\* that says something.
ShouldCapture(entries, part) ==
  LET says == {i \in DOMAIN entries : entries[i].matches /\ entries[i][part] # "unset"}
  IN  says = {} \/ entries[CHOOSE i \in says : \A j \in says : i =< j][part] = "yes"

\* The event before redaction: without the parts that are not captured, and
\* with a marker for each of long, those the config's caps are too small for.
Captured(event, entries, long) ==
  LET off == (IF ShouldCapture(entries, "args") THEN {} ELSE Under(event, Args))
             \cup (IF ShouldCapture(entries, "result") THEN {} ELSE Under(event, Result))
      kept == [path \in DOMAIN event \ off |-> event[path]]
      there == {part \in long : Under(kept, part) # {}}
  IN  FoldLeft(Shortened, kept, SetToSeq(there))
=============================================================================
