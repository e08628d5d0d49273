--------------------------- MODULE MC_MockServer ---------------------------
(* Model-checking instance of the whole server: one or two queues bound on *)
(* exchange X, one expectation route, two payloads of which one matches.   *)
EXTENDS MockServer, TLC

MCBodies == {"b1", "b2"}
MCComparators == {{"b1"}}
OneQueueBinding == [q \in {"q1"} |-> <<"X", "rk">>]
TwoQueueBinding == [q \in {"q1", "q2"} |-> <<"X", "rk">>]
NoStartupQueues == <<>>
OneStartupQueue == <<"q1">>

\* Control-plane calls are interchangeable: no guard or property names one.
CtlSymmetry == Permutations(Ctl)

\* answered, and the idem flag a Subscribe call carries only to update it,
\* are history: no guard reads them, so runs whose properties do not
\* mention them identify states without them.
CallView == [c \in Ctl |-> [pc |-> ctl[c].pc, q |-> ctl[c].q, sub |-> ctl[c].sub]]

NoHistoryView ==
    <<regVars, brokerVars, workerVars, listeners, CallView, nextSub, phase, serving, conn>>
=============================================================================
