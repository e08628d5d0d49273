--------------------------- MODULE MC_Comparators ---------------------------
(***************************************************************************)
(* Checks the comparators against the reference definition of spec        *)
(* section 4.1 over every small document: one behaviour per comparator the *)
(* control plane can build and payload a delivery can carry, each a single *)
(* call of Match.                                                          *)
(***************************************************************************)
EXTENDS Comparators

VARIABLES request, payload, result  \* result: <<>> before the call

cvars == <<request, payload, result>>

MCPatterns == [p \in {"p1"} |-> {Scalar("x")}]

\* The JSON body assertions of a CreateExpectation request: a Struct body
\* and any proto match type.
JSONRequests ==
    [kind : {"json"}, body : ObjectDocuments, matchType : {"UNSPECIFIED", "EXACT", "PARTIAL"}]

\* A regex body assertion with a pattern that compiles.
RegexRequests == [kind : {"regex"}, pattern : DOMAIN Patterns]

MCInit ==
    /\ request \in JSONRequests \cup RegexRequests
    /\ payload \in Payloads
    /\ result = <<>>

MCMatch ==
    /\ result = <<>>
    /\ result' = <<Compare(NewComparator(request), payload)>>
    /\ UNCHANGED <<request, payload>>

MCSpec == MCInit /\ [][MCMatch]_cvars

\* The comparator newComparator builds from a request, through
\* JSONBody.Match (json.Valid, then reflect.DeepEqual for EXACT or a
\* jsondiff patch of adds only for PARTIAL) accepts a payload exactly when
\* spec section 4.1 says it does: structural equality, or a superset with
\* extra keys at any depth, where a request without a match type is exact.
MatchFollowsSpec ==
    request.kind = "json" /\ result # <<>> => result[1] = SpecMatch(request, payload)

\* Spec section 9: the request GetExpectation and GetAssertions report for
\* an expectation (newProtoRequest) carries enough to rebuild its
\* comparator: sent back through newComparator it gives the same one.
ReportedRequestRebuilds ==
    NewComparator(NewProtoRequest(NewComparator(request))) = NewComparator(request)
=============================================================================
