------------------------ MODULE ExpectationsService ------------------------
(***************************************************************************)
(* The expectation registry: app.ExpectationsService with the domain types *)
(* it drives (expectations.Expectation, Times, TimeToLive, Assertion).     *)
(* Every public method of the service runs under its mutex, so each one is *)
(* a single atomic step here.  Time is an integer clock; a body comparator *)
(* is abstracted to the set of payloads it accepts; an expectation's       *)
(* response is identified with the expectation's id.                       *)
(***************************************************************************)
EXTENDS Integers, Sequences, SequencesExt, FiniteSets

CONSTANTS
    Exchanges,        \* exchange names a request or a delivery may carry
    RoutingKeys,      \* routing keys
    Bodies,           \* payloads a delivery may carry
    ObjectBodies,     \* those of Bodies that parse as a JSON object
    Comparators,      \* body comparators, each the set of Bodies it accepts
    Priorities,       \* priorities a control-plane client may give
    MaxTimes,         \* largest limited usage count a client may give
    TTLs,             \* time-to-live values a client may give (all > 0)
    NoTTL,            \* model value: expectation without TimeToLive
    NoMatch,          \* model value: an unmatched assertion / nil response
    MaxExpectations,  \* bound: expectations created in one behaviour
    MaxMatches,       \* bound: Match calls in one behaviour
    MaxTime,          \* bound: ticks of the clock
    MaxInsertion      \* Go's pdqsort uses insertion sort up to this length

ASSUME /\ \A c \in Comparators : c \subseteq Bodies
       /\ ObjectBodies \subseteq Bodies
       /\ MaxTimes \in Nat \ {0}
       /\ TTLs \subseteq Nat \ {0}
       /\ MaxInsertion = 12

VARIABLES
    expectations,   \* s.expectations: the ordered list of live expectations
    assertions,     \* s.assertions.list: the append-only match log
    now,            \* time.Now()
    nextId,         \* uuid.New(): ids are fresh, never reused
    granted         \* history: the Times each expectation was created with

regVars == <<expectations, assertions, now, nextId, granted>>

Candidates == [exchange : Exchanges, routingKey : RoutingKeys, body : Bodies]

\* The Times the options WithLimitedTimes (n >= 1, else an error) and
\* WithUnlimitedTimes set.
WithLimitedTimes(n) == [unlimited |-> FALSE, remaining |-> n]

WithUnlimitedTimes == [unlimited |-> TRUE, remaining |-> 0]

\* Times as the control plane can produce it: newExpectationOptions maps a
\* positive remainingTimes to WithLimitedTimes, zero to WithUnlimitedTimes,
\* and an absent Times keeps NewExpectation's default (limited, 1).
TimesChoices ==
    {WithUnlimitedTimes} \cup {WithLimitedTimes(n) : n \in 1..MaxTimes}

-----------------------------------------------------------------------------
(* Domain: expectations.Expectation                                        *)

NewExpectation(id, ex, rk, cmp, prio, times, ttl) ==
    [id |-> id, exchange |-> ex, routingKey |-> rk, accepts |-> cmp,
     priority |-> prio, times |-> times, ttl |-> ttl, createdAt |-> now]

IsActive(e) ==
    /\ e.times.unlimited \/ e.times.remaining > 0
    /\ e.ttl = NoTTL \/ ~(now > e.createdAt + e.ttl)

RequestMatches(e, cnd) ==
    /\ e.exchange = cnd.exchange
    /\ e.routingKey = cnd.routingKey
    /\ cnd.body \in e.accepts

Matches(e, cnd) == IsActive(e) /\ RequestMatches(e, cnd)

\* Mutant: the decrement of RemainingTimes dropped.
UseNoDecrement(e) == e

\* Mutant: the Unlimited test dropped, so unlimited expectations count down.
UseIgnoringUnlimited(e) == [e EXCEPT !.times.remaining = @ - 1]

Use(e) ==
    IF ~e.times.unlimited
    THEN [e EXCEPT !.times.remaining = @ - 1]
    ELSE e

\* Copy shares Request and Response and value-copies Times and TimeToLive,
\* so a record value is already a frozen snapshot.
NewMatchedAssertion(cnd, e) ==
    [candidate |-> cnd, expectation |-> e, createdAt |-> now]

NewUnmatchedAssertion(cnd) ==
    [candidate |-> cnd, expectation |-> NoMatch, createdAt |-> now]

-----------------------------------------------------------------------------
(* sort.Slice(matches, less) with less = higher priority first.  For at    *)
(* most MaxInsertion elements pdqsort runs insertionSort, which is stable.  *)
(* Beyond that, pdqsort first looks for a presorted input: choosePivot      *)
(* counts no swaps and partialInsertionSort scans to the end without one,   *)
(* so an input with no element less than its left neighbour is returned    *)
(* as it is.  Otherwise the order among equal priorities is unspecified,    *)
(* and any element of maximal priority may come first.                      *)

\* Mutant: a non-strict comparison in the sort.Slice closure.
PriorityLessOrEqual(a, b) == a.priority >= b.priority

PriorityLess(a, b) == a.priority > b.priority

\* The inner loop of insertionSort: the new element moves left while it is
\* less than its left neighbour.
RECURSIVE InsertSorted(_, _)
InsertSorted(s, x) ==
    IF s = <<>> \/ ~PriorityLess(x, Last(s))
    THEN Append(s, x)
    ELSE Append(InsertSorted(Front(s), x), Last(s))

InsertionSort(s) == FoldLeft(InsertSorted, <<>>, s)

\* pdqsort's presorted check: no element is less than the one before it.
Presorted(ms) == \A i \in 2..Len(ms) : ~PriorityLess(ms[i], ms[i-1])

\* The possible values of matches[0] after the sort.
SortedHeads(ms) ==
    CASE Len(ms) <= MaxInsertion -> {Head(InsertionSort(ms))}
      [] Presorted(ms)           -> {Head(ms)}
      [] OTHER -> {e \in ToSet(ms) : \A f \in ToSet(ms) : ~PriorityLess(f, e)}

-----------------------------------------------------------------------------
(* ExpectationsService                                                     *)

Init ==
    /\ expectations = <<>>
    /\ assertions = <<>>
    /\ now = 0
    /\ nextId = 1
    /\ granted = <<>>

\* Create: append; the informExpectationExpired goroutine only logs.
Create(ex, rk, cmp, prio, times, ttl) ==
    /\ nextId <= MaxExpectations
    /\ expectations' = Append(expectations,
                              NewExpectation(nextId, ex, rk, cmp, prio, times, ttl))
    /\ granted' = Append(granted, times)
    /\ nextId' = nextId + 1
    /\ UNCHANGED <<assertions, now>>

MatchNotFound(cnd) ==
    /\ ~\E i \in DOMAIN expectations : Matches(expectations[i], cnd)
    /\ assertions' = Append(assertions, NewUnmatchedAssertion(cnd))
    /\ UNCHANGED expectations

\* Mutant: the assertion is built before matches[0].Use().
MatchFoundCopyBeforeUse(cnd) ==
    LET ms == SelectSeq(expectations, LAMBDA e : Matches(e, cnd))
    IN /\ ms # <<>>
       /\ \E first \in SortedHeads(ms) :
            /\ expectations' = [i \in DOMAIN expectations |->
                                  IF expectations[i].id = first.id
                                  THEN Use(first) ELSE expectations[i]]
            /\ assertions' = Append(assertions, NewMatchedAssertion(cnd, first))

\* Sort, Use() the first, then freeze a copy of it into the assertion.
MatchFound(cnd) ==
    LET ms == SelectSeq(expectations, LAMBDA e : Matches(e, cnd))
    IN /\ ms # <<>>
       /\ \E first \in SortedHeads(ms) :
            LET used == Use(first)
            IN /\ expectations' = [i \in DOMAIN expectations |->
                                     IF expectations[i].id = first.id
                                     THEN used ELSE expectations[i]]
               /\ assertions' = Append(assertions, NewMatchedAssertion(cnd, used))

Match(cnd) ==
    /\ Len(assertions) < MaxMatches
    /\ MatchNotFound(cnd) \/ MatchFound(cnd)
    /\ UNCHANGED <<now, nextId, granted>>

Reset ==
    /\ expectations' = <<>>
    /\ UNCHANGED <<assertions, now, nextId, granted>>

\* The wall clock advances; nothing sweeps expired expectations.
Tick ==
    /\ now < MaxTime
    /\ now' = now + 1
    /\ UNCHANGED <<expectations, assertions, nextId, granted>>

\* Read side (RLock): the lists the control plane returns.
GetExpectations(status) ==
    CASE status = "all"     -> expectations
      [] status = "active"  -> SelectSeq(expectations, IsActive)
      [] status = "expired" -> SelectSeq(expectations, LAMBDA e : ~IsActive(e))

GetForExpectationByID(id) ==
    SelectSeq(assertions, LAMBDA a : a.expectation # NoMatch
                                     /\ a.expectation.id = id)

GetMatched == SelectSeq(assertions, LAMBDA a : a.expectation # NoMatch)

GetUnmatched == SelectSeq(assertions, LAMBDA a : a.expectation = NoMatch)

\* ExpectationsService.GetAssertions: the expectation id filter wins over
\* the status filter; no filter, or an unknown status, returns the log.
GetAssertions(req) ==
    CASE req.expectationId # NoMatch -> GetForExpectationByID(req.expectationId)
      [] req.status = "matched"      -> GetMatched
      [] req.status = "unmatched"    -> GetUnmatched
      [] OTHER                       -> assertions

\* The filters a GetAssertionsRequest can carry (NoMatch: no id given).
AssertionRequests ==
    [expectationId : (1..MaxExpectations) \cup {NoMatch},
     status : {"all", "matched", "unmatched"}, include : BOOLEAN]

\* newProtoAssertion unmarshals the candidate body into a
\* map[string]interface{} and returns nil when the body is not a JSON
\* object; protobuf marshals a nil element of the repeated field as an
\* empty Assertion message.
EmptyProtoAssertion == [matched |-> FALSE, expectation |-> NoMatch]

\* newProtoExpectation: Times as the unlimited flag or the remaining count,
\* ExpiresAt as CreatedAt + TTL when a TimeToLive is set.
NewProtoExpectation(e) ==
    [id |-> e.id, exchange |-> e.exchange, routingKey |-> e.routingKey,
     times |-> IF e.times.unlimited THEN [unlimited |-> TRUE]
               ELSE [remainingTimes |-> e.times.remaining],
     expiresAt |-> IF e.ttl = NoTTL THEN NoTTL ELSE e.createdAt + e.ttl]

NewProtoAssertion(a, include) ==
    IF a.candidate.body \notin ObjectBodies THEN EmptyProtoAssertion
    ELSE [matched |-> a.expectation # NoMatch,
          expectation |-> IF include /\ a.expectation # NoMatch
                          THEN NewProtoExpectation(a.expectation) ELSE NoMatch]

\* The grpc GetAssertions handler: one DTO per assertion, in order.
GetAssertionsResponse(req) ==
    LET log == GetAssertions(req)
    IN [i \in DOMAIN log |-> NewProtoAssertion(log[i], req.include)]

RegNext ==
    \/ \E ex \in Exchanges, rk \in RoutingKeys, cmp \in Comparators,
          prio \in Priorities, times \in TimesChoices, ttl \in TTLs \cup {NoTTL} :
          Create(ex, rk, cmp, prio, times, ttl)
    \/ \E cnd \in Candidates : Match(cnd)
    \/ Reset
    \/ Tick

RegSpec == Init /\ [][RegNext]_regVars

-----------------------------------------------------------------------------
(* Properties                                                              *)

Expectations ==
    [id : Nat, exchange : Exchanges, routingKey : RoutingKeys,
     accepts : Comparators, priority : Priorities, times : TimesChoices
     \cup [unlimited : {FALSE}, remaining : 0..MaxTimes],
     ttl : TTLs \cup {NoTTL}, createdAt : 0..MaxTime]

TypeOK ==
    /\ expectations \in Seq(Expectations)
    /\ assertions \in Seq([candidate : Candidates,
                           expectation : Expectations \cup {NoMatch},
                           createdAt : 0..MaxTime])
    /\ now \in 0..MaxTime
    /\ nextId \in 1..MaxExpectations + 1
    /\ granted \in Seq(TimesChoices) /\ Len(granted) = nextId - 1

ChosenId(a) == IF a.expectation = NoMatch THEN NoMatch ELSE a.expectation.id

\* Refinement mapping onto ExpectationsSpec: the live expectations by id,
\* and the outcome each assertion records.
ExpectationWithId(id) == CHOOSE e \in ToSet(expectations) : e.id = id

AbsStore ==
    [id \in {expectations[i].id : i \in DOMAIN expectations} |->
       LET e == ExpectationWithId(id) IN
       [exchange |-> e.exchange, routingKey |-> e.routingKey, accepts |-> e.accepts,
        priority |-> e.priority, unlimited |-> e.times.unlimited,
        remaining |-> e.times.remaining, ttl |-> e.ttl, createdAt |-> e.createdAt]]

Abs == INSTANCE ExpectationsSpec
         WITH store <- AbsStore,
              log <- [i \in DOMAIN assertions |->
                        [candidate |-> assertions[i].candidate,
                         chosen |-> ChosenId(assertions[i])]],
              clock <- now,
              issued <- nextId

\* ExpectationsService implements the registry of spec sections 4.3 and
\* 8.1: every Create, Match (filter, sort.Slice, matches[0].Use()), Reset
\* and tick of the clock is a step of ExpectationsSpec, so each match picks
\* the highest-priority active expectation accepting the candidate, the
\* earliest created among equals, and spends exactly one of its uses.
ImplementsExpectationsSpec == Abs!Spec

\* Expectation.Use and the usage check in IsActive: a limited expectation
\* created with n uses has been matched at most n times over its lifetime
\* (also once Reset dropped it), and while it is live its remaining count
\* plus its matched assertions is exactly n.
UsageAccounting ==
    /\ \A id \in DOMAIN granted :
         ~granted[id].unlimited =>
            Len(GetForExpectationByID(id)) <= granted[id].remaining
    /\ \A i \in DOMAIN expectations :
         LET e == expectations[i] IN
         ~e.times.unlimited =>
            e.times.remaining + Len(GetForExpectationByID(e.id))
              = granted[e.id].remaining

\* NewMatchedAssertion freezes a copy made after Use(): the k-th matched
\* assertion of a limited expectation created with n uses shows n - k
\* remaining, whatever happened to the live expectation later.
SnapshotReflectsUse ==
    \A k \in DOMAIN assertions :
       LET x == assertions[k].expectation IN
       x # NoMatch /\ ~x.times.unlimited =>
          x.times.remaining =
            granted[x.id].remaining
              - Cardinality({j \in 1..k : ChosenId(assertions[j]) = x.id})

\* The expectation id a DTO of GetAssertions names.
ReportedId(dto) == IF dto.expectation = NoMatch THEN NoMatch ELSE dto.expectation.id

\* Spec section 7: the assertion log is the user-visible record of match
\* and no-match outcomes.  Whatever filter a GetAssertions call carries,
\* each entry of the response reports whether its request was matched,
\* and names the matched expectation when "expectation" is included.
AssertionsReportOutcomes ==
    \A req \in AssertionRequests :
       LET log == GetAssertions(req)
           resp == GetAssertionsResponse(req)
       IN \A i \in DOMAIN log :
             /\ resp[i].matched = (log[i].expectation # NoMatch)
             /\ req.include => ReportedId(resp[i]) = ChosenId(log[i])

=============================================================================
