------------------------ MODULE MC_ExpectationsService ----------------------
(* Model-checking instance of the registry.  Payloads are JSON documents   *)
(* of the Comparators module and a comparator is the set of them it       *)
(* accepts: an EXACT and a PARTIAL comparator on the body {"a":"x"}, so    *)
(* that candidates match some expectations and not others.                 *)
EXTENDS ExpectationsService, TLC

\* The plain-text payload "x", as json.Unmarshal would see it.
Text == [kind |-> "scalar", val |-> "x"]

\* {"a":"x"}: its raw bytes contain x as well.
B1 == [kind |-> "object", fields |-> ("a" :> Text)]

C == INSTANCE Comparators WITH Scalars <- {"x", "y"}, Keys <- {"a", "b"},
       MaxDepth <- 1, MaxArrayLen <- 1, InvalidJSON <- NoMatch,
       Patterns <- [p \in {"x"} |-> {Text, B1}], BadPattern <- NoTTL

B2 == C!Object(("a" :> C!Scalar("x")) @@ ("b" :> C!Scalar("y")))

MCBodies == {B1, B2}
MCComparators ==
    {C!Accepts(C!NewJSONBody(B1, m), MCBodies) : m \in {"EXACT", "PARTIAL"}}

\* A request whose body is a plain string, matched by the regex "x".
MCTextBodies == {B1, Text}
MCTextComparators ==
    {C!Accepts(C!NewRegex("x"), MCTextBodies),
     C!Accepts(C!NewJSONBody(B1, "EXACT"), MCTextBodies)}

MCObjectBodies(bodies) == {b \in bodies : b.kind = "object"}
MCObjects == MCObjectBodies(MCBodies)
MCTextObjects == MCObjectBodies(MCTextBodies)
=============================================================================
