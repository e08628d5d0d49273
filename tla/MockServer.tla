----------------------------- MODULE MockServer -----------------------------
(***************************************************************************)
(* The mock server as a whole: the broker's queues, one amqpListener per   *)
(* subscription with its worker goroutine, the consumer fleet               *)
(* (infra/amqp.Consumer), the subscription service, the control-plane      *)
(* handlers that drive them, and process shutdown (Consumer.Run).  The      *)
(* expectation registry is the ExpectationsService module, instantiated on *)
(* the same variables; a worker's call to Match is one step of it.          *)
(***************************************************************************)
EXTENDS Integers, Sequences, SequencesExt, FiniteSets

CONSTANTS
    Exchanges, RoutingKeys, Bodies, ObjectBodies, Comparators, Priorities,
    MaxTimes, TTLs,
    NoTTL, NoMatch, MaxExpectations, MaxMatches, MaxTime, MaxInsertion,
    Queues,           \* broker queues the control plane may subscribe to
    Binding,          \* Binding[q]: the (exchange, routing key) bound to q
    DefaultExchange,  \* model value: the nameless exchange ""
    PublishVia,       \* subset of {"binding", "default"}: how callers publish
    Idempotence,      \* subset of BOOLEAN: idempotent flags callers send
    Ctl,              \* concurrent control-plane calls (gRPC handlers)
    None,             \* model value: no message / no subscription
    MaxSubs,          \* bound: subscriptions created in one behaviour
    MaxRequests,      \* bound: RPC requests published in one behaviour
    StartupQueues,    \* cfg.AMQPQueues: the queues app.Run subscribes first
    ConnectionLoss    \* whether the broker connection may be lost

ASSUME /\ Binding \in [Queues -> Exchanges \X RoutingKeys]
       /\ PublishVia \subseteq {"binding", "default"} /\ PublishVia # {}
       /\ Idempotence \subseteq BOOLEAN /\ Idempotence # {}
       /\ StartupQueues \in Seq(Queues) /\ Len(StartupQueues) <= MaxSubs
       /\ ConnectionLoss \in BOOLEAN

VARIABLES
    expectations, assertions, now, nextId, granted,   \* the registry
    queue,      \* queue[q]: messages ready in broker queue q
    nextCorr,   \* correlation ids handed to callers
    subQueue,   \* subQueue[s]: the queue subscription s consumes
    chan,       \* chan[s]: "none", "open" or "closed": the listener's channel
    inbox,      \* inbox[s]: delivered to s, not yet received by its worker
    held,       \* held[s]: received, dropped without ack (unacked)
    cur,        \* cur[s]: the delivery the worker of s is handling
    result,     \* result[s]: what Match returned for cur[s]
    wpc,        \* wpc[s]: the worker's position in listen/handleMessage
    listeners,  \* Consumer.listeners: the subscription ids in the map
    ctl,        \* ctl[c]: program counter and locals of a control-plane call
    answered,   \* answered[q]: what the last idempotent Subscribe(q) returned
    nextSub,    \* uuid.New() for subscriptions
    replies,    \* replies published to callers' reply-to queues
    acked,      \* correlation ids whose delivery was acknowledged
    phase,      \* Consumer.Run: "running", "waiting" (wg.Wait) or "done"
    serving,    \* the gRPC server still accepts calls
    conn        \* the server's broker connection: "open" or "closed"

regVars == <<expectations, assertions, now, nextId, granted>>
brokerVars == <<queue, nextCorr, replies, acked>>
workerVars == <<subQueue, chan, inbox, held, cur, result, wpc>>
vars == <<regVars, brokerVars, workerVars, listeners, ctl, answered, nextSub, phase, serving, conn>>

Reg == INSTANCE ExpectationsService

SubIds == 1..MaxSubs
Messages == [corr : 1..MaxRequests, exchange : Exchanges \cup {DefaultExchange},
             routingKey : RoutingKeys \cup Queues, body : Bodies]

-----------------------------------------------------------------------------
(* amqpListener.stop closes the channel; the broker requeues everything    *)
(* the channel had not acknowledged, in front of the queue, and the client *)
(* closes the deliveries stream, dropping what it had buffered.  Closing   *)
(* an already closed channel is tolerated and does nothing.                *)

\* Mutant: Consume with autoAck true; the broker counts a delivery as
\* acknowledged once sent and keeps nothing to requeue.
UnackedAutoAck(s) == <<>>

Unacked(s) ==
    held[s] \o (IF wpc[s] \in {"publish", "ack"} THEN <<cur[s]>> ELSE <<>>)
            \o inbox[s]

StopListeners(S) ==
    LET open == {s \in S : chan[s] = "open"}
        back(q) == FlattenSeq([i \in 1..Cardinality({s \in open : subQueue[s] = q}) |->
                     Unacked(SetToSeq({s \in open : subQueue[s] = q})[i])])
    IN /\ chan' = [s \in SubIds |-> IF s \in open THEN "closed" ELSE chan[s]]
       /\ queue' = [q \in Queues |-> back(q) \o queue[q]]
       /\ inbox' = [s \in SubIds |-> IF s \in open THEN <<>> ELSE inbox[s]]
       /\ held' = [s \in SubIds |-> IF s \in open THEN <<>> ELSE held[s]]

-----------------------------------------------------------------------------
(* Callers and the broker                                                  *)

\* An RPC caller publishes a request, through the queue's binding or
\* straight to the queue through the default exchange.
RpcCall(q, via, body) ==
    /\ nextCorr <= MaxRequests
    /\ queue' = [queue EXCEPT ![q] = Append(@,
                   [corr |-> nextCorr, body |-> body,
                    exchange |-> IF via = "binding" THEN Binding[q][1] ELSE DefaultExchange,
                    routingKey |-> IF via = "binding" THEN Binding[q][2] ELSE q])]
    /\ nextCorr' = nextCorr + 1
    /\ UNCHANGED <<regVars, replies, acked, workerVars, listeners, ctl, answered, nextSub, phase, serving, conn>>

\* Consume without QoS: the broker pushes the head of the queue to any
\* consumer of it whose channel is open.
Deliver(s) ==
    /\ chan[s] = "open"
    /\ queue[subQueue[s]] # <<>>
    /\ inbox' = [inbox EXCEPT ![s] = Append(@, Head(queue[subQueue[s]]))]
    /\ queue' = [queue EXCEPT ![subQueue[s]] = Tail(@)]
    /\ UNCHANGED <<regVars, nextCorr, replies, acked, subQueue, chan, held, cur,
                   result, wpc, listeners, ctl, answered, nextSub, phase, serving, conn>>

-----------------------------------------------------------------------------
(* The worker goroutine: amqpListener.listen and handleMessage             *)

\* Receive the next delivery; NewCandidate rejects an empty exchange, and
\* handleMessage then returns without acknowledging.
HandleBadCandidate(s) ==
    /\ wpc[s] = "idle" /\ chan[s] = "open" /\ inbox[s] # <<>>
    /\ Head(inbox[s]).exchange = DefaultExchange
    /\ inbox' = [inbox EXCEPT ![s] = Tail(@)]
    /\ held' = [held EXCEPT ![s] = Append(@, Head(inbox[s]))]
    /\ UNCHANGED <<regVars, brokerVars, subQueue, chan, cur, result, wpc,
                   listeners, ctl, answered, nextSub, phase, serving, conn>>

\* Receive the next delivery and call Match under the registry lock.
HandleMatch(s) ==
    LET m == Head(inbox[s]) IN
    /\ wpc[s] = "idle" /\ chan[s] = "open" /\ inbox[s] # <<>>
    /\ m.exchange # DefaultExchange
    /\ Reg!Match([exchange |-> m.exchange, routingKey |-> m.routingKey, body |-> m.body])
    /\ inbox' = [inbox EXCEPT ![s] = Tail(@)]
    /\ cur' = [cur EXCEPT ![s] = m]
    /\ result' = [result EXCEPT ![s] = Reg!ChosenId(Last(assertions'))]
    /\ wpc' = [wpc EXCEPT ![s] = "publish"]
    /\ UNCHANGED <<brokerVars, subQueue, chan, held, listeners, ctl, answered, nextSub, phase, serving, conn>>

\* Mutant: a nil match result returns before publishing the no-match body.
PublishSkipNoMatch(s) ==
    /\ wpc[s] = "publish"
    /\ replies' = IF chan[s] = "open" /\ result[s] # NoMatch
                  THEN Append(replies, [corr |-> cur[s].corr, body |-> result[s]])
                  ELSE replies
    /\ wpc' = [wpc EXCEPT ![s] = "ack"]
    /\ UNCHANGED <<regVars, queue, nextCorr, acked, subQueue, chan, inbox, held,
                   cur, result, listeners, ctl, answered, nextSub, phase, serving, conn>>

\* channel.Publish("", ReplyTo, ...) with the match result (nil becomes the
\* canned no-match body); on a closed channel it fails and is only logged.
Publish(s) ==
    /\ wpc[s] = "publish"
    /\ replies' = IF chan[s] = "open"
                  THEN Append(replies, [corr |-> cur[s].corr, body |-> result[s]])
                  ELSE replies
    /\ wpc' = [wpc EXCEPT ![s] = "ack"]
    /\ UNCHANGED <<regVars, queue, nextCorr, acked, subQueue, chan, inbox, held,
                   cur, result, listeners, ctl, answered, nextSub, phase, serving, conn>>

\* Mutant: only matched deliveries are acknowledged.
AckOnlyMatched(s) ==
    /\ wpc[s] = "ack"
    /\ acked' = IF chan[s] = "open" /\ result[s] # NoMatch
                THEN acked \cup {cur[s].corr} ELSE acked
    /\ held' = IF chan[s] = "open" /\ result[s] = NoMatch
               THEN [held EXCEPT ![s] = Append(@, cur[s])] ELSE held
    /\ wpc' = [wpc EXCEPT ![s] = "idle"]
    /\ cur' = [cur EXCEPT ![s] = None]
    /\ UNCHANGED <<regVars, queue, nextCorr, replies, subQueue, chan, inbox,
                   result, listeners, ctl, answered, nextSub, phase, serving, conn>>

\* delivery.Ack(false) goes through the listener's channel; on a closed
\* channel it fails and is only logged (the broker has requeued it).
Ack(s) ==
    /\ wpc[s] = "ack"
    /\ acked' = IF chan[s] = "open" THEN acked \cup {cur[s].corr} ELSE acked
    /\ wpc' = [wpc EXCEPT ![s] = "idle"]
    /\ cur' = [cur EXCEPT ![s] = None]
    /\ UNCHANGED <<regVars, queue, nextCorr, replies, subQueue, chan, inbox, held,
                   result, listeners, ctl, answered, nextSub, phase, serving, conn>>

\* The deliveries stream is closed: listen returns and calls wg.Done.
Exit(s) ==
    /\ wpc[s] = "idle" /\ chan[s] = "closed"
    /\ wpc' = [wpc EXCEPT ![s] = "exited"]
    /\ UNCHANGED <<regVars, brokerVars, subQueue, chan, inbox, held, cur, result,
                   listeners, ctl, answered, nextSub, phase, serving, conn>>

-----------------------------------------------------------------------------
(* Control plane.  A call starts only while the gRPC server serves; the    *)
(* registry and fleet methods each run under their own lock, so only      *)
(* SubscriptionsService.Subscribe and ResetAll span several steps.        *)

\* Consumer.GetQueueSubscriptions and GetAllSubscriptions, each under RLock.
QueueSubscriptions(q) == {s \in listeners : subQueue[s] = q}

AllSubscriptions == listeners

IdleCall == [pc |-> "idle", q |-> None, idem |-> FALSE, sub |-> None]

Idle(c) == serving /\ ctl[c].pc = "idle"

\* SubscriptionsService.Subscribe: an idempotent call first reads
\* GetQueueSubscriptions (RLock) and returns subs[0], in map order, if any.
SubscribeBegin(c, q, idem) ==
    /\ Idle(c)
    /\ ~(idem /\ QueueSubscriptions(q) # {})
    /\ ctl' = [ctl EXCEPT ![c] = [pc |-> "start", q |-> q, idem |-> idem, sub |-> None]]
    /\ UNCHANGED <<answered, regVars, brokerVars, workerVars, listeners, nextSub, phase, serving, conn>>

\* The idempotent call finds listeners on q: GetQueueSubscriptions ranges
\* over the listeners map, whose iteration order Go leaves unspecified, so
\* subs[0] may be any of them.  The call returns it.
SubscribeExisting(c, q, s) ==
    /\ Idle(c)
    /\ TRUE \in Idempotence
    /\ s \in QueueSubscriptions(q)
    /\ answered' = [answered EXCEPT ![q] = s]
    /\ UNCHANGED <<regVars, brokerVars, workerVars, listeners, ctl, nextSub, phase, serving, conn>>

\* startListener, outside the fleet lock: open a channel, Consume with
\* manual ack, wg.Add(1) and start the worker.  Opening may fail; the call
\* then returns the error and registers nothing.
SubscribeStart(c) ==
    /\ ctl[c].pc = "start"
    /\ nextSub <= MaxSubs
    /\ \/ /\ conn = "open"
          /\ chan' = [chan EXCEPT ![nextSub] = "open"]
          /\ subQueue' = [subQueue EXCEPT ![nextSub] = ctl[c].q]
          /\ wpc' = [wpc EXCEPT ![nextSub] = "idle"]
          /\ ctl' = [ctl EXCEPT ![c] = [@ EXCEPT !.pc = "insert", !.sub = nextSub]]
       \/ /\ ctl' = [ctl EXCEPT ![c] = IdleCall]
          /\ UNCHANGED <<chan, subQueue, wpc>>
    /\ nextSub' = nextSub + 1
    /\ UNCHANGED <<answered, regVars, brokerVars, inbox, held, cur, result, listeners, phase, serving, conn>>

\* Consumer.Subscribe: store the listener under the fleet lock.
SubscribeInsert(c) ==
    /\ ctl[c].pc = "insert"
    /\ listeners' = listeners \cup {ctl[c].sub}
    /\ answered' = IF ctl[c].idem THEN [answered EXCEPT ![ctl[c].q] = ctl[c].sub]
                                   ELSE answered
    /\ ctl' = [ctl EXCEPT ![c] = IdleCall]
    /\ UNCHANGED <<regVars, brokerVars, workerVars, nextSub, phase, serving, conn>>

\* Consumer.Unsubscribe, UnsubscribeFromQueue and UnsubscribeAll: stop and
\* delete, all under the fleet lock.  stop() never fails in this build.
\* Mutant: the listener is deleted from the map without lst.stop().
UnsubscribeSetNoStop(S) ==
    /\ listeners' = listeners \ S
    /\ UNCHANGED <<answered, regVars, brokerVars, workerVars, nextSub, phase, serving, conn>>

UnsubscribeSet(S) ==
    /\ StopListeners(S)
    /\ listeners' = listeners \ S
    /\ UNCHANGED <<answered, regVars, nextCorr, replies, acked, subQueue, cur, result, wpc,
                   nextSub, phase, serving, conn>>

Unsubscribe(c, s) ==
    /\ Idle(c) /\ UnsubscribeSet(listeners \cap {s}) /\ UNCHANGED ctl

UnsubscribeFromQueue(c, q) ==
    /\ Idle(c) /\ UnsubscribeSet({s \in listeners : subQueue[s] = q}) /\ UNCHANGED ctl

UnsubscribeAll(c) ==
    /\ Idle(c) /\ UnsubscribeSet(listeners) /\ UNCHANGED ctl

\* ResetAll: expectationsService.Reset(), then UnsubscribeAll().
ResetAllBegin(c) ==
    /\ Idle(c)
    /\ Reg!Reset
    /\ ctl' = [ctl EXCEPT ![c].pc = "resetAllUnsub"]
    /\ UNCHANGED <<answered, brokerVars, workerVars, listeners, nextSub, phase, serving, conn>>

ResetAllUnsubscribe(c) ==
    /\ ctl[c].pc = "resetAllUnsub"
    /\ UnsubscribeSet(listeners)
    /\ ctl' = [ctl EXCEPT ![c].pc = "idle"]

\* CreateExpectation and ResetExpectations: one registry step each.
RegistryCall(c) ==
    /\ Idle(c)
    /\ \/ \E ex \in Exchanges, rk \in RoutingKeys, cmp \in Comparators,
             prio \in Priorities, times \in Reg!TimesChoices, ttl \in TTLs \cup {NoTTL} :
             Reg!Create(ex, rk, cmp, prio, times, ttl)
       \/ Reg!Reset
    /\ UNCHANGED <<brokerVars, workerVars, listeners, ctl, answered, nextSub, phase, serving, conn>>

-----------------------------------------------------------------------------
(* Shutdown: the runner cancels the context of every component at once.   *)

\* Consumer.Run: ctx done, stop() closes every listener in the map (it does
\* not delete them), then wg.Wait.
ShutdownStop ==
    /\ phase = "running"
    /\ StopListeners(listeners)
    /\ phase' = "waiting"
    /\ UNCHANGED <<regVars, nextCorr, replies, acked, subQueue, cur, result, wpc,
                   listeners, ctl, answered, nextSub, serving, conn>>

\* wg.Wait returns once every started worker has called wg.Done.
ShutdownDone ==
    /\ phase = "waiting"
    /\ \A s \in SubIds : wpc[s] \in {"none", "exited"}
    /\ phase' = "done"
    /\ UNCHANGED <<regVars, brokerVars, workerVars, listeners, ctl, answered, nextSub, serving, conn>>

\* The gRPC server's graceful stop, concurrent with Consumer.Run: no new
\* calls; calls in progress finish.
GrpcStop ==
    /\ phase # "running" /\ serving
    /\ serving' = FALSE
    /\ UNCHANGED <<regVars, brokerVars, workerVars, listeners, ctl, answered, nextSub, phase, conn>>

\* The broker connection is lost.  amqp091 closes every channel on it, and
\* so every deliveries stream; the broker requeues what they had not
\* acknowledged.  Connection.Run, which would observe NotifyClose, is not
\* among the components app.Run runs: nothing else reacts, and the fleet
\* keeps its listeners.
ConnectionLost ==
    /\ ConnectionLoss /\ conn = "open"
    /\ conn' = "closed"
    /\ StopListeners(SubIds)
    /\ UNCHANGED <<regVars, nextCorr, replies, acked, subQueue, cur, result, wpc,
                   listeners, ctl, answered, nextSub, phase, serving>>

-----------------------------------------------------------------------------

\* app.Run: an empty registry, the connection, the consumer, and one
\* successful Subscribe(queue, false) per configured queue, in order (a
\* failing one ends the process before anything is served).
Init ==
    /\ Reg!Init
    /\ queue = [q \in Queues |-> <<>>]
    /\ nextCorr = 1
    /\ replies = <<>>
    /\ acked = {}
    /\ subQueue = [s \in SubIds |-> IF s <= Len(StartupQueues)
                                     THEN StartupQueues[s] ELSE None]
    /\ chan = [s \in SubIds |-> IF s <= Len(StartupQueues) THEN "open" ELSE "none"]
    /\ inbox = [s \in SubIds |-> <<>>]
    /\ held = [s \in SubIds |-> <<>>]
    /\ cur = [s \in SubIds |-> None]
    /\ result = [s \in SubIds |-> None]
    /\ wpc = [s \in SubIds |-> IF s <= Len(StartupQueues) THEN "idle" ELSE "none"]
    /\ listeners = 1..Len(StartupQueues)
    /\ ctl = [c \in Ctl |-> IdleCall]
    /\ answered = [q \in Queues |-> None]
    /\ nextSub = Len(StartupQueues) + 1
    /\ phase = "running"
    /\ serving = TRUE
    /\ conn = "open"

Worker(s) ==
    \/ HandleBadCandidate(s) \/ HandleMatch(s) \/ Publish(s) \/ Ack(s) \/ Exit(s)

Control(c) ==
    \/ \E q \in Queues, idem \in Idempotence : SubscribeBegin(c, q, idem)
    \/ \E q \in Queues, s \in SubIds : SubscribeExisting(c, q, s)
    \/ SubscribeStart(c)
    \/ SubscribeInsert(c)
    \/ \E s \in SubIds : Unsubscribe(c, s)
    \/ \E q \in Queues : UnsubscribeFromQueue(c, q)
    \/ UnsubscribeAll(c)
    \/ ResetAllBegin(c)
    \/ ResetAllUnsubscribe(c)
    \/ RegistryCall(c)

Next ==
    \/ \E q \in Queues, via \in PublishVia, b \in Bodies : RpcCall(q, via, b)
    \/ \E s \in SubIds : Deliver(s) \/ Worker(s)
    \/ \E c \in Ctl : Control(c)
    \/ ShutdownStop \/ ShutdownDone \/ GrpcStop \/ ConnectionLost

\* Worker goroutines and Consumer.Run are always scheduled again; callers,
\* the control plane and the broker's pushes are not assumed to progress.
Fairness ==
    /\ \A s \in SubIds : WF_vars(Worker(s))
    /\ WF_vars(ShutdownDone)

Spec == Init /\ [][Next]_vars /\ Fairness

-----------------------------------------------------------------------------
(* Properties                                                              *)

TypeOK ==
    /\ Reg!TypeOK
    /\ queue \in [Queues -> Seq(Messages)]
    /\ nextCorr \in 1..MaxRequests + 1
    /\ subQueue \in [SubIds -> Queues \cup {None}]
    /\ chan \in [SubIds -> {"none", "open", "closed"}]
    /\ inbox \in [SubIds -> Seq(Messages)]
    /\ held \in [SubIds -> Seq(Messages)]
    /\ cur \in [SubIds -> Messages \cup {None}]
    /\ wpc \in [SubIds -> {"none", "idle", "publish", "ack", "exited"}]
    /\ listeners \subseteq SubIds
    /\ nextSub \in 1..MaxSubs + 1
    /\ replies \in Seq([corr : 1..MaxRequests, body : Nat \cup {NoMatch}])
    /\ acked \subseteq 1..MaxRequests
    /\ phase \in {"running", "waiting", "done"}
    /\ conn \in {"open", "closed"}

Corrs(seq) == {seq[i].corr : i \in DOMAIN seq}

\* The consumer fleet's map and the broker channels agree: while the
\* consumer runs on a live connection, every subscription
\* GetAllSubscriptions reports has an open channel, and every open channel belongs to a subscription in the map or
\* to a Subscribe call about to store it (no listener outlives Unsubscribe).
FleetTracksChannels ==
    /\ phase = "running" /\ conn = "open" => \A s \in AllSubscriptions : chan[s] = "open"
    /\ \A s \in SubIds :
         chan[s] = "open" =>
            \/ s \in listeners
            \/ \E c \in Ctl : ctl[c].pc = "insert" /\ ctl[c].sub = s

\* handleMessage publishes the reply before it acknowledges, on the same
\* channel: no request is acknowledged (and so removed from its queue)
\* without a reply having been sent to its caller.
AckedImpliesReplied ==
    \A c \in acked : c \in Corrs(replies)

\* Spec 4.6 and 8 ("subscribe(q, true); subscribe(q, true) => same id"):
\* an idempotent Subscribe to a queue returns the subscription the last
\* idempotent Subscribe to it returned, as long as that one is subscribed.
IdempotentSubscribeSameId ==
    [][\A q \in Queues :
         answered'[q] # answered[q] => answered[q] \notin listeners]_vars

\* Spec 4.4: every delivery a listener receives is acknowledged or, when
\* its channel closes first, returned to the queue; none stays unacked on a
\* live channel for ever.
Outstanding(c) == \E s \in SubIds : chan[s] = "open" /\ c \in Corrs(Unacked(s))

EveryDeliveryResolved ==
    \A c \in 1..MaxRequests :
       Outstanding(c) ~> (c \in acked \/ \E q \in Queues : c \in Corrs(queue[q]))

\* Spec 4.4 as an abstract contract (DeliverySpec): every request the
\* callers published is in exactly one of three places, and moves between
\* them only as the contract allows.  A request is ready while it is in a
\* broker queue, unacknowledged while it sits on an open listener channel
\* (in the client's buffer, dropped after a bad candidate, or in the
\* worker's hands), and done once an Ack on an open channel took it out.
\* Closing channels (Unsubscribe*, ResetAll, shutdown, connection loss)
\* must return every unacknowledged request, and an Ack that comes after
\* the close must not count.
QueuedCorrs == UNION {Corrs(queue[q]) : q \in Queues}

UnackedCorrs == UNION {Corrs(Unacked(s)) : s \in {t \in SubIds : chan[t] = "open"}}

Delivery == INSTANCE DeliverySpec
    WITH Requests <- 1..MaxRequests, ready <- QueuedCorrs,
         unacked <- UnackedCorrs, done <- acked

ImplementsDeliverySpec == Delivery!Spec

\* Spec 5: a worker that has picked up a delivery finishes publish and ack
\* before its channel is closed under it by stop().
InFlightNotCancelled ==
    \A s \in SubIds : wpc[s] \in {"publish", "ack"} => chan[s] = "open"

\* Spec 5: on shutdown every listener stops and Consumer.Run's wg.Wait
\* returns.
ShutdownCompletes == (phase = "waiting") ~> (phase = "done")

\* Spec 7: a closed connection (planned or not) is observed by the owning
\* layer, the listeners stop and the fleet's shutdown proceeds.
ConnectionLossStopsFleet == (conn = "closed") ~> (phase = "done")

=============================================================================
