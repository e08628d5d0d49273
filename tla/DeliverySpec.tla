----------------------------- MODULE DeliverySpec -----------------------------
(***************************************************************************)
(* What the broker and the listeners promise an RPC request (spec section  *)
(* 4.4), with no channels, no goroutines and no order: a published request *)
(* is ready in its queue, delivered to a consumer that has not yet         *)
(* acknowledged it, or acknowledged.  Acknowledging takes it out for good; *)
(* a consumer going away returns all it had not acknowledged.  Nothing is  *)
(* lost and nothing is delivered twice at once (at-least-once delivery).   *)
(***************************************************************************)
CONSTANT Requests       \* correlation ids a caller may publish

VARIABLES
    ready,      \* requests waiting in a queue
    unacked,    \* requests delivered to a live consumer, not acknowledged
    done        \* requests acknowledged

vars == <<ready, unacked, done>>

TypeOK == /\ ready \subseteq Requests
          /\ unacked \subseteq Requests
          /\ done \subseteq Requests

Init == ready = {} /\ unacked = {} /\ done = {}

Publish(r) ==
    /\ r \notin ready \cup unacked \cup done
    /\ ready' = ready \cup {r}
    /\ UNCHANGED <<unacked, done>>

Deliver(r) ==
    /\ r \in ready
    /\ ready' = ready \ {r}
    /\ unacked' = unacked \cup {r}
    /\ UNCHANGED done

Ack(r) ==
    /\ r \in unacked
    /\ unacked' = unacked \ {r}
    /\ done' = done \cup {r}
    /\ UNCHANGED ready

\* One or more consumers go away at once; what they held is ready again.
Requeue(R) ==
    /\ R # {} /\ R \subseteq unacked
    /\ unacked' = unacked \ R
    /\ ready' = ready \cup R
    /\ UNCHANGED done

Next ==
    \/ \E r \in Requests : Publish(r) \/ Deliver(r) \/ Ack(r)
    \/ \E R \in SUBSET unacked : Requeue(R)

Spec == Init /\ [][Next]_vars
=============================================================================
