------------------------------ MODULE Delivery ------------------------------
(***************************************************************************)
(* What leaves the service: the orders' announcements, the broker and the  *)
(* webhooks that carry them, and the payment gateway, in one process that  *)
(* can restart.  Orders announce to broker and webhooks in one step; the   *)
(* completion of a charge is announced to nobody but the web sockets.      *)
(***************************************************************************)
EXTENDS Broker, Webhooks, Gateway

vars == <<handlerVars, orderVars, brokerVars, webhookVars, gatewayVars>>

\* Each event is published to the broker and dispatched to the webhooks.
AnnounceToAll(r) ==
    LET n == Len(events) + 1 IN
    /\ Announce(r)
    /\ IF req[r].event.published THEN Publish(n) ELSE UNCHANGED queue
    /\ Dispatch(n)
    /\ UNCHANGED <<link, log, brokerNotes, hook, job, rows, hookNotes, gatewayVars>>

\* The process ends and starts again; the broker and the databases stay.
Restart ==
    /\ Spend("restart")
    /\ req' = [r \in Requests |-> Idle]
    /\ OrderRestart
    /\ BrokerRestart
    /\ WebhookRestart
    /\ GatewayRestart

Init ==
    /\ HandlersInit
    /\ OrderInit
    /\ BrokerInit
    /\ WebhookInit
    /\ GatewayInit

Next ==
    \/ \E r \in Requests : AnnounceToAll(r)
    \/ Restart
    \/ OrderNext /\ UNCHANGED <<brokerVars, webhookVars, gatewayVars>>
    \/ BrokerNext /\ UNCHANGED <<orderVars, webhookVars, gatewayVars>>
    \/ WebhookNext /\ UNCHANGED <<orderVars, brokerVars, gatewayVars>>
    \/ GatewayNext /\ UNCHANGED <<orderVars, brokerVars, webhookVars>>

Spec == Init /\ [][Next]_vars

HandlerStep(r) ==
    \/ (StatusWrite(r) \/ SplitWrite(r))
          /\ UNCHANGED <<brokerVars, webhookVars, gatewayVars>>
    \/ AnnounceToAll(r)
    \/ BrokerStep(r) /\ UNCHANGED <<orderVars, webhookVars, gatewayVars>>
    \/ GatewayStep(r) /\ UNCHANGED <<orderVars, brokerVars, webhookVars>>

Receive(n) == \E r \in Requests : Deliver(r, n)

\* An awaited call returns or throws; a broken connection is noticed by its
\* heartbeat and opened again by the connection manager, and the broker delivers
\* what waits; an attempt is answered or ends with its timeout.  Nothing makes the
\* body of an answer end (Webhooks.ReadBody).
Fairness ==
    /\ \A r \in Requests : WF_vars(HandlerStep(r))
    /\ WF_vars((NoticeLink \/ Connect) /\ UNCHANGED <<orderVars, webhookVars, gatewayVars>>)
    /\ \A n \in 1..MaxEvents :
          /\ WF_vars(Receive(n) /\ UNCHANGED <<orderVars, webhookVars, gatewayVars>>)
          /\ WF_vars(WebhookStep(n) /\ UNCHANGED <<orderVars, brokerVars, gatewayVars>>)

FairSpec == Spec /\ Fairness

-----------------------------------------------------------------------------
(* Properties. *)

TypeOK ==
    /\ \A r \in Requests :
          Free(r) \/ req[r] \in OrderHandler \cup LogHandler \cup GatewayHandler
    /\ OrderTypeOK
    /\ BrokerTypeOK
    /\ WebhookTypeOK
    /\ GatewayTypeOK
=============================================================================
