--------------------------- MODULE ExpectationsSpec ---------------------------
(***************************************************************************)
(* What the expectation registry promises (spec sections 3, 4.3 and 8.1),  *)
(* with no list, no sort and no lock: a store of live expectations by id,  *)
(* the log of match outcomes, and a clock.  Ids are issued in creation     *)
(* order, so "earliest created" is "smallest id".  Match picks, in one     *)
(* step, the highest-priority active expectation accepting the candidate,  *)
(* the earliest among equals, and spends one of its uses.                  *)
(***************************************************************************)
EXTENDS Integers, Sequences, FiniteSets, TLC

CONSTANTS Exchanges, RoutingKeys, Bodies, Comparators, Priorities, MaxTimes,
          TTLs, NoTTL, NoMatch

VARIABLES
    store,    \* id -> the live expectation with that id
    log,      \* the outcomes of match, in order: candidate and chosen id
    clock,    \* now
    issued    \* the next id

absVars == <<store, log, clock, issued>>

Candidate == [exchange : Exchanges, routingKey : RoutingKeys, body : Bodies]

Live(x) ==
    /\ x.unlimited \/ x.remaining >= 1
    /\ x.ttl = NoTTL \/ clock <= x.createdAt + x.ttl

Accepts(x, cnd) ==
    x.exchange = cnd.exchange /\ x.routingKey = cnd.routingKey /\ cnd.body \in x.accepts

Choice(cnd) ==
    LET ok == {id \in DOMAIN store : Live(store[id]) /\ Accepts(store[id], cnd)}
        top == CHOOSE p \in {store[id].priority : id \in ok} :
                 \A id \in ok : store[id].priority <= p
    IN IF ok = {} THEN NoMatch
       ELSE CHOOSE id \in ok : /\ store[id].priority = top
                              /\ \A j \in ok : store[j].priority = top => id <= j

Init ==
    /\ store = [id \in {} |-> NoMatch]
    /\ log = <<>>
    /\ clock = 0
    /\ issued = 1

\* The expectations a create may register at the current time.
NewExpectations ==
    {x \in [exchange : Exchanges, routingKey : RoutingKeys, accepts : Comparators,
            priority : Priorities, unlimited : BOOLEAN, remaining : 0..MaxTimes,
            ttl : TTLs \cup {NoTTL}, createdAt : {clock}] :
       x.unlimited \/ x.remaining >= 1}

\* A fresh id joins the store with a new expectation; the others are kept.
Register ==
    /\ issued' = issued + 1
    /\ DOMAIN store' = DOMAIN store \cup {issued}
    /\ \A id \in DOMAIN store : store'[id] = store[id]
    /\ store'[issued] \in NewExpectations
    /\ UNCHANGED <<log, clock>>

Match(cnd) ==
    LET id == Choice(cnd) IN
    /\ log' = Append(log, [candidate |-> cnd, chosen |-> id])
    /\ store' = IF id = NoMatch \/ store[id].unlimited THEN store
                ELSE [store EXCEPT ![id].remaining = @ - 1]
    /\ UNCHANGED <<clock, issued>>

Reset ==
    /\ store' = [id \in {} |-> NoMatch]
    /\ UNCHANGED <<log, clock, issued>>

Tick ==
    /\ clock' = clock + 1
    /\ UNCHANGED <<store, log, issued>>

Next == Register \/ (\E cnd \in Candidate : Match(cnd)) \/ Reset \/ Tick

Spec == Init /\ [][Next]_absVars

=============================================================================
