---------------------------- MODULE Comparators ----------------------------
(***************************************************************************)
(* The body comparators of internal/domain/comparators.  A JSON document   *)
(* is the value json.Unmarshal produces: a scalar, an object (a function   *)
(* from its keys) or an array (a sequence); a payload that is not valid    *)
(* JSON is the model value InvalidJSON.  Numbers are parsed values, so     *)
(* 1 and 1.0 are one scalar here.  A regular expression is abstracted to   *)
(* the set of payloads its compiled form matches somewhere in the raw      *)
(* bytes; a pattern regexp.Compile rejects is BadPattern.                  *)
(***************************************************************************)
EXTENDS Integers, Sequences, FiniteSets

CONSTANTS
    Scalars,       \* strings, numbers, booleans and null after parsing
    Keys,          \* object keys
    MaxDepth,      \* bound: nesting depth of a document
    MaxArrayLen,   \* bound: length of an array
    InvalidJSON,   \* model value: a payload json.Valid rejects
    Patterns,      \* Patterns[p]: the payloads regex p matches
    BadPattern     \* model value: a pattern regexp.Compile rejects

Scalar(s) == [kind |-> "scalar", val |-> s]
Object(f) == [kind |-> "object", fields |-> f]
Array(s)  == [kind |-> "array", elems |-> s]

\* All documents of nesting depth at most d.
RECURSIVE Documents(_)
Documents(d) ==
    {Scalar(s) : s \in Scalars}
    \cup IF d = 0 THEN {}
         ELSE LET inner == Documents(d - 1) IN
              UNION {{Object(f) : f \in [K -> inner]} : K \in SUBSET Keys}
              \cup UNION {{Array(s) : s \in [1..n -> inner]} : n \in 0..MaxArrayLen}

\* The body of a JSON comparator comes from a protobuf Struct: an object.
ObjectDocuments == {v \in Documents(MaxDepth) : v.kind = "object"}

Payloads == Documents(MaxDepth) \cup {InvalidJSON}

-----------------------------------------------------------------------------
(* jsondiff.CompareJSON(source, target): the kinds of the operations of   *)
(* the patch that turns source into target.  Documents of different kinds *)
(* are replaced; objects are compared key by key; arrays index by index,   *)
(* the source's surplus removed and the target's surplus appended.         *)

RECURSIVE Diff(_, _)

\* Mutant: keys the target lacks produce no operation.
DiffObjectsIgnoringRemoved(src, tgt) ==
    LET ks == DOMAIN src.fields
        kt == DOMAIN tgt.fields
    IN UNION {Diff(src.fields[k], tgt.fields[k]) : k \in ks \cap kt}
       \cup (IF kt \ ks # {} THEN {"add"} ELSE {})

DiffObjects(src, tgt) ==
    LET ks == DOMAIN src.fields
        kt == DOMAIN tgt.fields
    IN UNION {Diff(src.fields[k], tgt.fields[k]) : k \in ks \cap kt}
       \cup (IF ks \ kt # {} THEN {"remove"} ELSE {})
       \cup (IF kt \ ks # {} THEN {"add"} ELSE {})

DiffArrays(src, tgt) ==
    LET sl == Len(src.elems)
        tl == Len(tgt.elems)
        size == IF sl < tl THEN sl ELSE tl
    IN (IF sl > size THEN {"remove"} ELSE {})
       \cup UNION {Diff(src.elems[i], tgt.elems[i]) : i \in 1..size}
       \cup (IF tl > size THEN {"add"} ELSE {})

Diff(src, tgt) ==
    CASE src.kind # tgt.kind   -> {"replace"}
      [] src.kind = "object"   -> DiffObjects(src, tgt)
      [] src.kind = "array"    -> DiffArrays(src, tgt)
      [] OTHER                 -> IF src = tgt THEN {} ELSE {"replace"}

-----------------------------------------------------------------------------
(* JSONBody and Regex                                                      *)

\* NewJSONBody: json.Valid on the body; the match type as newComparator
\* maps it (anything but PARTIAL is EXACT).
NewJSONBody(body, matchType) ==
    IF body = InvalidJSON THEN "invalid json body"
    ELSE [type |-> "json", body |-> body, matchType |-> matchType]

\* reflect.DeepEqual of the two unmarshalled values.
MatchStrict(b, payload) == b.body = payload

\* Every operation of the patch from the body to the payload is an add.
MatchSubset(b, payload) == Diff(b.body, payload) \subseteq {"add"}

JSONBodyMatch(b, payload) ==
    /\ payload # InvalidJSON
    /\ CASE b.matchType = "EXACT"   -> MatchStrict(b, payload)
         [] b.matchType = "PARTIAL" -> MatchSubset(b, payload)
         [] OTHER                   -> FALSE

NewRegex(p) ==
    IF p = BadPattern THEN "failed to compile regex"
    ELSE [type |-> "regex", pattern |-> p]

RegexMatch(r, payload) == payload \in Patterns[r.pattern]

\* newComparator of the gRPC layer: a JSON body assertion, whose proto
\* match type PARTIAL is kept and any other (UNSPECIFIED included) is
\* EXACT, or a regex assertion.
NewComparator(req) ==
    IF req.kind = "json"
    THEN NewJSONBody(req.body, IF req.matchType = "PARTIAL" THEN "PARTIAL" ELSE "EXACT")
    ELSE NewRegex(req.pattern)

\* BodyComparator.Match behind Request.Matches.
Compare(c, payload) ==
    IF c.type = "json" THEN JSONBodyMatch(c, payload) ELSE RegexMatch(c, payload)

\* Mutant: the PARTIAL case of the switch dropped.
NewProtoMatchTypeExactOnly(mt) ==
    IF mt = "EXACT" THEN "EXACT" ELSE "UNSPECIFIED"

\* newProtoMatchType: the comparator's match type as the proto enum.
NewProtoMatchType(mt) ==
    CASE mt = "EXACT"   -> "EXACT"
      [] mt = "PARTIAL" -> "PARTIAL"
      [] OTHER          -> "UNSPECIFIED"

\* newProtoRequest, the body part: a JSON comparator's body unmarshalled
\* into a map and rebuilt as a Struct (no request at all when it is not an
\* object), a regex by the source text of the compiled expression.
NewProtoRequest(c) ==
    CASE c.type = "json" /\ c.body.kind # "object" -> "nil request"
      [] c.type = "json" ->
           [kind |-> "json", body |-> c.body, matchType |-> NewProtoMatchType(c.matchType)]
      [] OTHER -> [kind |-> "regex", pattern |-> c.pattern]

\* The set of payloads, of those given, a comparator accepts: how the
\* registry modules see a comparator.
Accepts(c, payloads) == {p \in payloads : Compare(c, p)}

-----------------------------------------------------------------------------
(* Reference: spec section 4.1.  Exact is structural equality; partial     *)
(* holds when every path of the expectation body exists in the payload     *)
(* with a value of the same kind, and the same value at scalars.           *)

RECURSIVE Paths(_)
Paths(v) ==
    {<<>>}
    \cup (IF v.kind = "object"
          THEN UNION {{<<k>> \o p : p \in Paths(v.fields[k])} : k \in DOMAIN v.fields}
          ELSE {})
    \cup (IF v.kind = "array"
          THEN UNION {{<<i>> \o p : p \in Paths(v.elems[i])} : i \in DOMAIN v.elems}
          ELSE {})

RECURSIVE At(_, _)
At(v, path) ==
    IF path = <<>> THEN v
    ELSE At(IF v.kind = "object" THEN v.fields[Head(path)] ELSE v.elems[Head(path)],
            Tail(path))

SpecSuperset(e, p) ==
    \A path \in Paths(e) :
       /\ path \in Paths(p)
       /\ At(e, path).kind = At(p, path).kind
       /\ At(e, path).kind = "scalar" => At(e, path) = At(p, path)

SpecMatch(c, payload) ==
    /\ payload # InvalidJSON
    /\ IF c.matchType = "PARTIAL"
       THEN SpecSuperset(c.body, payload)
       ELSE SpecSuperset(c.body, payload) /\ SpecSuperset(payload, c.body)

=============================================================================
