# TLA+ models of the RabbitMQ RPC mock server

This directory holds TLA+ specifications of `rmq-rpc-mockserver`. The server
consumes RPC requests from RabbitMQ queues and answers each one with the
response of a matching *expectation*. Expectations are registered through a
gRPC control plane, which also creates and drops queue subscriptions. The
modules model the code under `src/`, and the TLC configurations check them.

## 1. Inventory of the system

### Components

| Component | Source | Shared state | Operations that change it |
|---|---|---|---|
| Expectation domain | `internal/domain/expectations/*` | an expectation's `Times.RemainingTimes` and `CreatedAt` | `NewExpectation`, `Use`, `IsActive` (reads the clock), `NewMatchedAssertion` (snapshot via `Copy`) |
| Body comparators | `internal/domain/comparators/*`, `newComparator`, `newProtoRequest` | none (pure) | `NewJSONBody`, `JSONBody.Match` (exact, partial via `jsondiff`), `NewRegex`, `Regex.Match` |
| Expectation registry | `internal/app/expectations.go` | `expectations` list, `assertions` log, under an `RWMutex` | `Create`, `Match`, `Reset`; getters |
| Broker listener | `internal/infra/amqp/listener.go` | an AMQP channel, a deliveries stream, one goroutine | `startListener`, `listen`, `handleMessage` (candidate → `Match` → `Publish` → `Ack`), `stop` |
| Consumer fleet | `internal/infra/amqp/consumer.go` | `listeners` map under a mutex, a `WaitGroup` | `Subscribe` (start outside the lock, insert inside), `Unsubscribe`, `UnsubscribeFromQueue`, `UnsubscribeAll`, `Run` / `stop` |
| Subscription service | `internal/app/subscriptions.go` | none of its own | `Subscribe(queue, idempotent)`: check, then subscribe |
| gRPC control plane | `internal/infra/grpc/*` | none of its own | `CreateExpectation`, `ResetExpectations`, `AddSubscription`, `DeleteSubscription`, `UnsubscribeFromQueue`, `ResetSubscriptions`, `ResetAll`; DTO conversion |
| RPC client library | `lib/amqp/rpc_client.go` | a channel per call | `Call`: open a channel, consume the reply-to queue, publish with a correlation id, then loop on a select of the reply stream and a fresh `time.After` |
| AMQP connection | `lib/amqp/connection.go` | the connection | `EstablishConnection`, `Run` (watches `NotifyClose`; `app.Run` never starts it) |
| Runner and shutdown | `lib/components/runner.go`, `app/app.go`, `lib/grpc/server.go` | a context | on a signal, cancel every component at once; gRPC `GracefulStop`; the consumer stops |
| HTTP gateway, config, main | `lib/http`, `lib/grpc/gateway.go`, `lib/config`, `internal/config`, `cmd` | none relevant | forwarding and bootstrap only |

### How the parts interact

- Each gRPC handler runs in its own goroutine, so control-plane calls run
  concurrently with each other.
- Each subscription has a listener goroutine. The listeners of different
  subscriptions run concurrently, and every one of them calls
  `ExpectationsService.Match`.
- The broker pushes messages to channels. When a channel closes, the broker
  requeues every unacked delivery of that channel.
- On shutdown, the runner cancels the gRPC server, the HTTP server and the
  consumer concurrently.

### Hard behaviours

- **Registry.** `Match` runs sort, `Use` and the assertion under one lock.
  `sort.Slice` is not stable in general, and `RemainingTimes` is a `uint32`
  counter. `Use` only runs on an expectation that has just passed `IsActive`
  under the lock, so the counter never wraps. TTL
  expiry is lazy and uses a strict `After` comparison.
- **Listener.**
  - Its channel can be closed by `Unsubscribe`, `ResetAll` or shutdown at any
    point of `handleMessage`.
  - `Publish` and `Ack` can fail on a closed channel.
  - A bad candidate is returned without an ack.
- **Fleet.**
  - `startListener` runs outside the lock, so it can race with unsubscribe-all
    and with `stop`.
  - `Run` waits on a `WaitGroup`, which a late `Subscribe` can leave waiting
    forever.
- **Subscription service.** An idempotent `Subscribe` is check-then-act, and
  it returns `subs[0]` of a slice built by ranging over a Go map, whose order
  is unspecified.
- **Client.** A timeout can race with a late reply. A closed reply stream
  yields zero deliveries forever, which the correlation filter skips.
- **Connection.** Nothing in `app.Run` watches the connection, so its loss
  kills every listener without the fleet or the process noticing.
- **DTOs.** `newProtoAssertion` returns nil for a body that is not a JSON
  object; `newProtoRequest` and `newComparator` must agree on match types.

## 2. Modules and how they correspond to the code

### `ExpectationsService.tla`: the registry and the expectation domain

**State.**
- `expectations` is `s.expectations`, kept in creation order.
- `assertions` is the append-only `assertions.list`.
- `now` is the wall clock, and `nextId` stands for `uuid.New`.
- `granted` is a history variable. It records the `Times` each expectation was
  created with.

**Data abstractions.**
- A comparator is the set of bodies it accepts. The MC module builds these
  sets with the `Comparators` module, so they are the sets the real
  comparators accept.
- A response is identified with the expectation's id.
- `TimesChoices` are exactly the `Times` values that `newExpectationOptions`
  can produce through `WithUnlimitedTimes` and `WithLimitedTimes`:
  unlimited, or limited `1..MaxTimes`. An absent `Times` gives the default,
  limited 1.
- Priorities: the gRPC API carries no priority and `newExpectationOptions`
  never calls `WithPriority`, so through the server every expectation has
  priority 0. The registry run still uses priorities 0 and 1, because
  `ExpectationsService` is a package API that accepts any `Expectation`.
  Every MockServer run and the sort-stability run use priority 0 only.

**Actions.** Each service method is one atomic step, because each takes the
mutex:
- `Create`
- `Match`, in two cases:
  - `MatchNotFound` appends an unmatched assertion.
  - `MatchFound` filters with `Matches`, takes the first element after the
    sort, calls `Use` on it, and appends an assertion holding the
    post-`Use` copy.
- `Reset`
- `Tick`, which advances `time.Now`.

**The sort.** `sort.Slice` is modelled by what Go's pdqsort does:
- For at most 12 elements it runs insertion sort. This is `InsertionSort`,
  built with `RECURSIVE InsertSorted` and `FoldLeft`, and it is stable.
- Beyond 12 elements, pdqsort first checks for presorted input (`Presorted`).
  `choosePivot` counts no swaps and returns `increasingHint`, and
  `partialInsertionSort` then scans to the end without a swap. So input in
  which no element is less than its left neighbour comes back unchanged.
  Expectations the gRPC API creates all have priority 0 (`WithPriority` is used
  only in tests), so their creation order is kept.
- Any other input longer than 12 is over-approximated: any element of maximal
  priority may come first (`SortedHeads`).

**Read side.** `GetAssertions`, `GetMatched`, `GetUnmatched` and
`GetForExpectationByID` are operators, as are the DTO conversions of the gRPC
handler: `NewProtoAssertion` (nil, i.e. an empty assertion, when the candidate
body is not a JSON object) and `NewProtoExpectation`.

**Refinement.** `ExpectationsSpec.tla` is the abstract registry of spec §3,
§4.3 and §8.1. It has no list, no sort and no lock. It holds a store of
expectations by id, the log of match outcomes, and a clock. `Match` picks, in
one step, the highest-priority live expectation accepting the candidate, and
the smallest id among equals. `ExpectationsService` maps its state onto it
(`Abs == INSTANCE ExpectationsSpec WITH store <- AbsStore, log <- ...`):
- the list becomes a function from id;
- each assertion becomes its candidate and the chosen id.

`ImplementsExpectationsSpec == Abs!Spec` is checked as a temporal property.
The abstract `Register` is stated by membership, not by enumeration: a fresh
id joins the store, the rest is kept, and the new value is in
`NewExpectations`. This keeps the refinement check fast.

### `MockServer.tla`: the server as a whole

This module instantiates the registry on the same variables
(`Reg == INSTANCE ExpectationsService`) and adds the broker, the listeners,
the fleet, the control plane and shutdown.

**The broker.**
- `queue[q]` holds the messages ready in queue `q`.
- `RpcCall` is `RPCClient.Call` publishing a request. It goes either through
  the queue's binding or through the default exchange `""`.
- `Deliver` is the broker pushing a message into a channel's stream.
- `StopListeners` closes channels. It requeues their unacked deliveries
  (`Unacked`) at the front of the queue, and the client library drops its
  buffered stream.

**A listener.**
- `chan[s]`, `inbox[s]`, `held[s]`, `cur[s]`, `result[s]` and `wpc[s]` hold
  its channel, its stream, its unacked-and-dropped deliveries, the delivery in
  hand, the `Match` result, and the goroutine's position.
- `handleMessage` is split at every point where another goroutine can
  interleave:
  - `HandleBadCandidate` is the `NewCandidate` error path: return, no ack.
  - `HandleMatch` calls `Reg!Match`.
  - `Publish` replies if the channel is open; otherwise the publish fails.
  - `Ack` acks if the channel is open, and returns to the loop.
  - `Exit` returns from `listen` when the stream is closed (`wg.Done`).

**The fleet and the subscription service.**
- `listeners` is the map.
- `ctl[c]` is the program counter of a concurrent control-plane call.
- `Subscribe` is split into three steps:
  - `SubscribeBegin`: the idempotent check (`QueueSubscriptions`, that is
    `GetQueueSubscriptions`, under its own lock) finding nothing.
  - `SubscribeExisting(c, q, s)`: the idempotent check finding listeners on
    `q`. It returns any one of them, since map order decides `subs[0]`.
  - `SubscribeStart`: `startListener`, outside the lock; it may fail.
  - `SubscribeInsert`: the insert, under the lock.
- `Unsubscribe`, `UnsubscribeFromQueue` and `UnsubscribeAll` stop and delete
  under the lock (`UnsubscribeSet`).
- `ResetAll` is two steps: `Reset`, then `UnsubscribeAll`.
- `RegistryCall` is `CreateExpectation` or `ResetExpectations`.
- `answered[q]` is a history variable: the subscription the last idempotent
  `Subscribe(q)` returned, from `SubscribeExisting` or from the insert of an
  idempotent call. The call carries its `idem` flag in `ctl[c]` for that
  purpose only. No guard reads either.

**Shutdown.**
- `ShutdownStop` is `Consumer.Run` after `ctx.Done`. It calls `stop()`, which
  closes the channels without deleting the listeners.
- `ShutdownDone` is `wg.Wait` returning.
- `GrpcStop` is `GracefulStop`: no new control-plane calls.

### `DeliverySpec.tla`: the broker's delivery contract

`DeliverySpec` is the at-least-once contract of spec §4.4, with no channels
and no goroutines. A request is in exactly one of three states:
- `ready`: waiting in a queue;
- `unacked`: delivered to a live consumer and not yet acknowledged;
- `done`: acknowledged.

Its actions are `Publish`, `Deliver`, `Ack` and `Requeue`. `Requeue` is a
consumer going away: all it held becomes ready again.

`MockServer` is checked against it through
`Delivery == INSTANCE DeliverySpec WITH ...`:
- `ready <- QueuedCorrs`: the correlation ids in the queues;
- `unacked <- UnackedCorrs`: the ids in `Unacked(s)` of open channels only;
- `done <- acked`.

`ImplementsDeliverySpec == Delivery!Spec` is checked in both server runs.
It fails in either of two cases:
- an ack on a closed channel counts as done (`listener.go:87` only logs the
  failed ack, and the broker has already requeued the delivery);
- a channel close loses or duplicates what it held.

### `Comparators.tla`: the body comparators

- A JSON document is a record: a scalar, an object (a function from keys) or
  an array (a sequence). `InvalidJSON` is a payload `json.Valid` rejects.
- `Diff` (`RECURSIVE`) gives the kinds of the operations of
  `jsondiff.CompareJSON`'s patch:
  - documents of different kinds are replaced;
  - objects are compared key by key, with a remove for a missing key and an
    add for an extra one;
  - arrays are compared index by index, with the surplus removed or added.
- `MatchStrict` is `reflect.DeepEqual`. `MatchSubset` holds when every
  operation is an add.
- A regex is the set of payloads it matches (`Patterns`).
- `NewComparator` is the gRPC `newComparator`: `PARTIAL` stays partial, and
  any other match type is exact.
- `NewProtoRequest` and `NewProtoMatchType` are what `GetExpectation` and
  `GetAssertions` report back.
- `SpecMatch` is the reference of spec §4.1: equality, or every path of the
  expectation body present in the payload with the same kind and scalar.

### `RPCClient.tla`: one `RPCClient.Call`

**State.**
- `cpc` is the call's position, or the error it returned.
- `stream` and `streamOpen` are the deliveries channel.
- `routed` says whether the target exchange exists.
- `sent` counts the server's replies.

**Actions.**
- `Publish` covers `Channel`, `Consume` and `Publish`; each of the first two
  may fail.
- `ServerReply` is the environment: the mock server answers, possibly twice
  after a redelivery.
- `ChannelClosed` is the environment too: the broker closes the channel (404
  on a missing exchange) or the connection is lost. The client library then
  closes the deliveries channel.
- `Receive` is the `<-msgs` case. A different correlation id, including the
  zero delivery of a closed stream, is skipped. A nil body is an error.
  Otherwise the body is returned.
- `Timeout` is the `time.After` case. A timer is created on every iteration,
  so it can fire only when the select blocks: the stream is empty and open.

### Connection loss and startup in `MockServer.tla`

- `ConnectionLost` is an environment step that closes every channel. The
  broker requeues the unacked deliveries and the listeners exit. Nothing else
  reacts, because `Connection.Run` is never started.
- `Init` is the state after `app.Run`: it has subscribed, in order, to every
  queue in `StartupQueues` before serving.

### MC modules

- `MC_ExpectationsService` and `MC_MockServer` give the model-value sets as
  definitions: bodies, comparators, and queue bindings.
- `MC_Comparators` enumerates every JSON request (three proto match types)
  and regex request, and every payload, and makes one `Match` call.
- `MC_SortStability` adds `UnlimitedOnly`. This constraint keeps the 13
  expectations unlimited, so the 13-element sort is reached quickly.
- `MC_MockServer` also defines `NoHistoryView`, which leaves out `answered`
  and the `idem` flag, and `CtlSymmetry`. The fleet run uses both: neither
  the history nor the name of a control-plane call affects a step or a
  property it checks.

## 3. Runs

| Run | Config | Expect | What it shows |
|---|---|---|---|
| registry | `MC_ExpectationsService.cfg` | pass | The registry implements `ExpectationsSpec` (`ImplementsExpectationsSpec`): every `Match` picks what the abstract registry picks and spends one use. No limited expectation is used more often than granted, also across `Reset` (`UsageAccounting`). Every assertion freezes the count after `Use` (`SnapshotReflectsUse`). 2.47M states, about 2.5 min. |
| mockserver | `MC_MockServer.cfg` | pass | One control-plane call, one queue, one startup subscription, and connection loss possible. The fleet map and the open channels agree while running and connected (`FleetTracksChannels`). No delivery is acked before its reply is published (`AckedImpliesReplied`). Every delivery on an open channel is eventually acked or back in its queue (`EveryDeliveryResolved`). The broker and listeners implement the at-least-once contract of `DeliverySpec` (`ImplementsDeliverySpec`). 498K states, about 100 s. |
| fleet | `MC_MockServerFleet.cfg` | pass | `FleetTracksChannels`, `AckedImpliesReplied` and `ImplementsDeliverySpec`, with two concurrent control-plane calls, two queues, and requests via the binding and the default exchange. The type invariant is left to the mockserver run. 1.3M states up to symmetry and the view without history variables, about 2.5 min. |
| comparators | `MC_Comparators.cfg` | pass | Over all documents of depth 2 on two keys and two scalars, the comparator built from a request accepts exactly what spec §4.1 says (`MatchFollowsSpec`). The request reported back rebuilds the same comparator (`ReportedRequestRebuilds`, spec §9). 1.5M states. |
| sort_stability | `MC_SortStability.cfg` | pass | With 13 matching expectations, all of priority 0 as the server creates them, `sort.Slice` leaves insertion sort for pdqsort. Its presorted check keeps creation order, so the registry still implements `ExpectationsSpec` (`ImplementsExpectationsSpec`). |
| inflight | `MC_InFlight.cfg` | violation | `Unsubscribe` closes the channel of a worker that is between `Match` and `Ack`. |
| bad_candidate | `MC_BadCandidate.cfg` | violation | A request sent via the default exchange is neither answered nor acked. |
| shutdown | `MC_Shutdown.cfg` | violation | A `Subscribe` completing after `Consumer.stop` leaves an open listener, and `wg.Wait` never returns. |
| idempotent | `MC_Idempotent.cfg` | violation | Spec §8 says `subscribe(q, true); subscribe(q, true)` returns the same id (`IdempotentSubscribeSameId`). It fails two ways. Two concurrent idempotent calls both find no listener and create two (the trace TLC reports, 7 states). With a single caller (`Ctl = {c1}`), once a plain subscribe has added a second listener, `subs[0]` may be the later one (9 states). |
| assertion_dto | `MC_AssertionDTO.cfg` | violation | A regex expectation matched by a plain-text request is reported by `GetAssertions` as unmatched, with no expectation. |
| rpc_client_hang | `MC_RPCClientHang.cfg` | violation | A call whose request goes to a missing exchange, or whose connection is lost, never returns. The closed stream is spun on, and the timer never fires. |
| connection_loss | `MC_ConnectionLoss.cfg` | violation | After the connection is lost the fleet never shuts down, and the server goes on serving with dead listeners. |

The findings in `PROJECT.json` explain each violation against the spec.

Every property of a passing run has a mutant in `PROJECT.json`. A mutant is a
plausible bug in the mapped code, and TLC finds the property violated with
that bug substituted:
- a non-strict comparator in the sort (breaks the refinement in the registry and sort-stability runs);
- a jsondiff that ignores removed keys;
- `newProtoMatchType` missing its `PARTIAL` case;
- a dropped decrement in `Use`;
- `Use` counting down unlimited expectations too (for `TypeOK`);
- the copy taken before `Use`;
- an unsubscribe that deletes without stopping;
- a publish skipped for "no match";
- an ack skipped for unmatched requests.
- `Consume` with auto-ack on, so nothing is left to requeue on a close
  (`UnackedAutoAck`, which breaks `ImplementsDeliverySpec`).

### Bounds and why they suffice

**Registry run.**
- Bounds: one exchange and one routing key; bodies `b1`, `b2`; comparators
  `{b1}` and `{b1,b2}`; priorities 0 and 1; limited `Times` up to 2; TTL 1;
  two expectations; three matches; two clock ticks.
- This covers the cases that matter:
  - equal and unequal priorities;
  - an accepting and a rejecting comparator;
  - exhaustion of a limited expectation;
  - expiry, including the boundary tick where `now = createdAt + ttl`;
  - `Reset` between matches.

**MockServer runs.**
- Bounds: one request, two subscriptions, one or two control-plane calls.
- With these bounds a request can be delivered, handled, interrupted at
  every step by a close, requeued, and redelivered to a second subscription.
- Two requests took over 9 minutes and add no new interleaving of one
  delivery with the control plane.

**Comparators run.** Depth 2 reaches objects inside objects and arrays
inside objects, with arrays of length 0 to 2. Every case of `Diff` then
occurs: a kind change, a missing key, an extra key, and the surplus of an
array on either side. Two scalars give both equal and different leaves.

**RPC client run.** Three reply bodies, up to four replies, and a route that
may or may not exist. This is enough for duplicate replies, a close before
any reply, and a timeout.

**Sort-stability run.** It needs 13 expectations, because insertion sort is
used up to 12. It is kept to one candidate and one priority, the priority
the gRPC API gives.

### Fairness

`Fairness` assumes weak fairness only for:
- each listener goroutine (`Worker(s)`), which runs whenever its step is
  enabled;
- `ShutdownDone` (`wg.Wait` returning).

Nothing is assumed of callers, the control plane or the broker's pushes.

In `RPCClient`, weak fairness is assumed only for the goroutine running
`Call` (`Publish`, `Receive`, `Timeout`). A Go runtime timer fires once the
select blocks on it. The broker and the server are not assumed to answer.
Deadlock checking is off in the MockServer configurations. Once the bounded
callers are exhausted, the server legitimately idles waiting for input.

## 4. What is not modelled, and the plan

**Not modelled:**
- `GetExpectation`'s unlocked read of a live expectation (a hazard with no
  property). It races with
  `Use`, but a racy read of the 32-bit count yields the old or the new value,
  both of which the expectation held during the call.
- The `GetExpectation(s)` handlers themselves. They are read-only, and
  `newProtoExpectation` is checked through the assertion DTO.
- A failed `Consume` in `startListener` (`listener.go:27`). It returns without
  closing the channel, but it fails when the broker closes the channel (for
  example on a missing queue), so no channel is left open. The model's
  failing `SubscribeStart` opens nothing.
- An error from `amqpListener.stop`. It closes the channel and, unless that
  close reports `ErrClosed`, closes it again. amqp091's `Channel.Close`
  returns nil on an already closed channel. The integration test
  `TestQueuesSubscriptions` relies on this when it deletes a subscription and
  expects success. So `stop` does not fail, and the early returns of
  `UnsubscribeAll` and `UnsubscribeFromQueue` (`consumer.go:103`) are not
  reached. Spec §9 lists the double close as an open question.
- `Connection.Run` and dialing, because `app.Run` never starts them.
- HTTP, config and bootstrap code.
- The AMQP publisher and consumer helpers in `lib/amqp`. Nothing in the
  repository calls them, so nothing fixes which handlers they hold or when
  their context ends.

**Observed but not given a run.** Two questions are settled by reading the
code, without a run of their own:
- `ResetAll` drops expectations and subscriptions but never clears the
  assertion log, although spec §4.3 says reset-all drops assertions. The code
  shows this in one step (`grpc/subscriptions.go:62`).
- `RPCClient`'s correlation filter keeps a closed stream from returning an
  empty response. This was checked while building the module.

**Plan:**
1. An abstract "RPC responder" specification that goes beyond
   `DeliverySpec`: a request is answered by the expectation the registry
   chose.
2. `RPCClient` composed with `MockServer`: the caller's timeout against a
   late or duplicate reply.
