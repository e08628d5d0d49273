----------------------------- MODULE RPCClient -----------------------------
(***************************************************************************)
(* One RPCClient.Call of lib/amqp: open a channel, consume the direct      *)
(* reply-to pseudo-queue with auto-ack, publish the request with a fresh   *)
(* correlation id, then loop on a select between the reply stream and a    *)
(* time.After created anew on every iteration.  The broker side is the     *)
(* environment: it may route the request to the mock server, which may    *)
(* answer it once or, after a redelivery, twice; it closes the channel on  *)
(* a publish to an exchange that does not exist, and it may lose the      *)
(* connection.  A closed stream yields the zero Delivery on every receive. *)
(***************************************************************************)
EXTENDS Naturals, Sequences

CONSTANTS
    ReplyBodies,   \* bodies the mock server may answer with (never nil)
    RouteExists,   \* subset of BOOLEAN: whether the target exchange exists
    MaxReplies,    \* bound: replies the server publishes for one request
    ConnectionLoss, \* whether the client's connection may be lost
    Nil            \* model value: the nil Body and "" CorrelationId

VARIABLES
    cpc,        \* "start", "waiting", "returned" or an error of Call
    routed,     \* the request reached an existing exchange
    stream,     \* replies delivered to the channel, not yet received
    streamOpen, \* the deliveries channel is still open
    sent,       \* replies the server published for this correlation id
    answer      \* the body Call returned

cvars == <<cpc, routed, stream, streamOpen, sent, answer>>

Mine == "corr"   \* uuid.NewString() of this call

ZeroDelivery == [corr |-> Nil, body |-> Nil]

Init ==
    /\ cpc = "start"
    /\ routed = FALSE
    /\ stream = <<>>
    /\ streamOpen = TRUE
    /\ sent = 0
    /\ answer = Nil

\* Channel() and Consume(); either can fail and Call returns the error.
\* Publish is asynchronous: it succeeds whether or not the exchange exists.
Publish ==
    /\ cpc = "start"
    /\ \/ cpc' = "open channel error" /\ UNCHANGED routed
       \/ cpc' = "consume response error" /\ UNCHANGED routed
       \/ cpc' = "waiting" /\ routed' \in RouteExists
    /\ UNCHANGED <<stream, streamOpen, sent, answer>>

\* amqpListener.handleMessage publishes a reply to the reply-to address.
ServerReply ==
    /\ routed /\ streamOpen /\ sent < MaxReplies
    /\ \E b \in ReplyBodies : stream' = Append(stream, [corr |-> Mine, body |-> b])
    /\ sent' = sent + 1
    /\ UNCHANGED <<cpc, routed, streamOpen, answer>>

\* A channel exception (404 on the unknown exchange) or the loss of the
\* connection closes the channel; the client closes the deliveries channel.
ChannelClosed ==
    /\ cpc = "waiting" /\ streamOpen
    /\ ~routed \/ ConnectionLoss
    /\ streamOpen' = FALSE
    /\ stream' = <<>>
    /\ UNCHANGED <<cpc, routed, sent, answer>>

\* case response := <-msgs: skip another correlation id (the zero Delivery
\* of a closed stream included), fail on a nil body, else return it.
Receive ==
    /\ cpc = "waiting"
    /\ stream # <<>> \/ ~streamOpen
    /\ LET r == IF stream # <<>> THEN Head(stream) ELSE ZeroDelivery
       IN /\ stream' = IF stream # <<>> THEN Tail(stream) ELSE stream
          /\ CASE r.corr # Mine -> UNCHANGED <<cpc, answer>>
               [] r.body = Nil  -> cpc' = "empty response received" /\ UNCHANGED answer
               [] OTHER         -> cpc' = "returned" /\ answer' = r.body
    /\ UNCHANGED <<routed, streamOpen, sent>>

\* case <-time.After(timeout): the timer of this iteration fires only if the
\* select blocks, i.e. no delivery is ready and the stream is open.  The
\* deferred channel.Close then drops any later reply.
Timeout ==
    /\ cpc = "waiting"
    /\ stream = <<>> /\ streamOpen
    /\ cpc' = "rpc call timeout"
    /\ streamOpen' = FALSE
    /\ UNCHANGED <<routed, stream, sent, answer>>

Next == Publish \/ ServerReply \/ ChannelClosed \/ Receive \/ Timeout

\* The goroutine running Call is scheduled whenever it can run; the broker
\* and the server are not assumed to do anything.
Spec == Init /\ [][Next]_cvars /\ WF_cvars(Publish \/ Receive \/ Timeout)

-----------------------------------------------------------------------------

\* RPCClientWithTimeout: every call returns, with the reply or with "rpc
\* call timeout", once its request is published.
CallReturns == (cpc = "waiting") ~> (cpc # "waiting")

=============================================================================
