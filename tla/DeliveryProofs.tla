--------------------------- MODULE DeliveryProofs ----------------------------
(***************************************************************************)
(* Proofs about Delivery, for every number of orders, messages, endpoints, *)
(* charges and concurrent handlers: the gateway implements Charge and      *)
(* announces what it completes, the log of the broker has each event once, *)
(* the log of the webhooks tells what happened, the announcements of an    *)
(* order tell its story, and neither a message the broker has taken nor a  *)
(* delivery an endpoint wants is forgotten.                                *)
(***************************************************************************)
EXTENDS Delivery, TLAPS

GatewaySteps == {"txCreate"} \cup AskSteps

AnyHandler == {Idle} \cup OrderHandler \cup LogHandler \cup GatewayHandler

ReqOK == req \in [Requests -> AnyHandler]

-----------------------------------------------------------------------------
(* The handlers: whatever a step does, a slot holds a handler, and a slot   *)
(* that is not the gateway's stays so unless a charge begins there.         *)

\* A handler of each kind is told by its program counter and keeps its other
\* fields when it moves on (Handlers.Goto).
LEMMA OrderKind ==
    ASSUME NEW h \in AnyHandler, h.pc \in OrderSteps
    PROVE  /\ h \in OrderHandler
           /\ h.event \in Event
           /\ \A p : [h EXCEPT !.pc = p].pc = p /\ [h EXCEPT !.pc = p].event = h.event
           /\ \A p \in OrderSteps : [h EXCEPT !.pc = p] \in OrderHandler
  BY DEF AnyHandler, OrderSteps, OrderHandler, LogHandler, LogSteps, GatewayHandler,
         AskSteps, Idle

LEMMA LogKind ==
    ASSUME NEW h \in AnyHandler, h.pc \in LogSteps
    PROVE  /\ h \in LogHandler
           /\ h.event \in Nat /\ h.row \in Nat /\ h.held \in BOOLEAN
           /\ h = [pc |-> h.pc, event |-> h.event, row |-> h.row, held |-> h.held]
           /\ \A p : /\ [h EXCEPT !.pc = p].pc = p
                     /\ [h EXCEPT !.pc = p].event = h.event
                     /\ [h EXCEPT !.pc = p].row = h.row
           /\ \A p \in LogSteps : [h EXCEPT !.pc = p] \in LogHandler
           /\ [h EXCEPT !.held = FALSE] \in LogHandler
           /\ [h EXCEPT !.held = FALSE].pc = h.pc
           /\ [h EXCEPT !.held = FALSE].event = h.event
           /\ [h EXCEPT !.held = FALSE].row = h.row
           /\ \A p \in LogSteps, k \in Nat :
                 /\ [h EXCEPT !.pc = p, !.row = k] \in LogHandler
                 /\ [h EXCEPT !.pc = p, !.row = k].pc = p
                 /\ [h EXCEPT !.pc = p, !.row = k].row = k
                 /\ [h EXCEPT !.pc = p, !.row = k].event = h.event
<1>1. h \in LogHandler
  BY DEF AnyHandler, OrderHandler, OrderSteps, LogHandler, LogSteps, GatewayHandler,
         AskSteps, Idle
<1>2. /\ h.event \in Nat /\ h.row \in Nat /\ h.held \in BOOLEAN
      /\ h = [pc |-> h.pc, event |-> h.event, row |-> h.row, held |-> h.held]
  BY <1>1 DEF LogHandler
<1>3. ASSUME NEW p
      PROVE  /\ [h EXCEPT !.pc = p].pc = p
             /\ [h EXCEPT !.pc = p].event = h.event
             /\ [h EXCEPT !.pc = p].row = h.row
  BY <1>2
<1>4. ASSUME NEW p \in LogSteps
      PROVE  [h EXCEPT !.pc = p] \in LogHandler
  BY <1>2 DEF LogHandler
<1>5. /\ [h EXCEPT !.held = FALSE] \in LogHandler
      /\ [h EXCEPT !.held = FALSE].pc = h.pc
      /\ [h EXCEPT !.held = FALSE].event = h.event
      /\ [h EXCEPT !.held = FALSE].row = h.row
  BY <1>2 DEF LogHandler
<1>6. ASSUME NEW p \in LogSteps, NEW k \in Nat
      PROVE  /\ [h EXCEPT !.pc = p, !.row = k] \in LogHandler
             /\ [h EXCEPT !.pc = p, !.row = k].pc = p
             /\ [h EXCEPT !.pc = p, !.row = k].row = k
             /\ [h EXCEPT !.pc = p, !.row = k].event = h.event
  BY <1>2 DEF LogHandler
<1>7. QED
  BY <1>1, <1>2, <1>3, <1>4, <1>5, <1>6

LEMMA GatewayKind ==
    ASSUME NEW h \in AnyHandler, h.pc \in GatewaySteps
    PROVE  /\ h \in GatewayHandler
           /\ h.tx \in Transactions
           /\ \A p : [h EXCEPT !.pc = p].pc = p /\ [h EXCEPT !.pc = p].tx = h.tx
           /\ \A p \in GatewaySteps : [h EXCEPT !.pc = p] \in GatewayHandler
  BY DEF AnyHandler, OrderHandler, OrderSteps, LogHandler, LogSteps, GatewayHandler,
         GatewaySteps,
         AskSteps, Idle

LEMMA PcOf ==
    /\ Idle \in AnyHandler
    /\ Idle.pc = "idle"
    /\ OrderHandler \subseteq AnyHandler
    /\ LogHandler \subseteq AnyHandler
    /\ GatewayHandler \subseteq AnyHandler
    /\ \A h \in OrderHandler : h.pc \in OrderSteps
    /\ \A h \in LogHandler : h.pc \in LogSteps
    /\ \A h \in GatewayHandler : h.pc \in GatewaySteps
  BY DEF AnyHandler, OrderHandler, LogHandler, GatewayHandler, GatewaySteps, OrderSteps, Idle

-----------------------------------------------------------------------------
(* Type correctness. *)

\* A handler of the log holds an event that was announced.
LogEvents == \A r \in Busy(LogSteps) : req[r].event \in DOMAIN events

\* What a row may say of a delivery that is over, and what is true of it at each of
\* its stations: until a body of a success has been read it has been received less
\* often than attempted, and the errors show it.
Tells(j) ==
    /\ j.acks = j.broken + (IF j.success THEN 1 ELSE 0)
    /\ ~ j.success /\ j.answer = "ok" => j.broken > 0
    /\ j.copies <= MaxAttempts
    /\ j.success /\ j.copies > 1 => j.error # "none"

JobOK(j) ==
    /\ j.pc = "none" => j = NoJob
    /\ j.pc = "try" => /\ ~ j.success
                       /\ j.acks = j.broken
                       /\ j.answer = "ok" => j.broken > 0
                       /\ j.copies <= j.attempt - 1
                       /\ j.copies > 0 => j.error # "none"
    /\ j.pc = "body" => /\ ~ j.success
                        /\ j.acks = j.broken + (IF j.answer = "ok" THEN 1 ELSE 0)
                        /\ j.copies <= j.attempt
                        /\ j.copies > 1 => j.error # "none"
    /\ j.pc = "save" => Tells(j)

GoodJob == {j \in Job : JobOK(j)}

JobsOK == job \in [0..MaxEvents -> [Endpoints -> GoodJob]]

TInv == /\ ReqOK
        /\ JobsOK
        /\ OrderTypeOK
        /\ BrokerTypeOK
        /\ WebhookTypeOK
        /\ GatewayTypeOK
        /\ LogEvents

LEMMA TInvInit == Init => TInv
<1> SUFFICES ASSUME Init PROVE TInv
  OBVIOUS
<1>1. ReqOK /\ LogEvents
  BY PcOf DEF Init, HandlersInit, ReqOK, LogEvents, Busy, LogSteps
<1>2. OrderTypeOK
  BY DEF Init, OrderInit, OrderTypeOK
<1>3. BrokerTypeOK
  BY DEF Init, BrokerInit, BrokerTypeOK
<1>4. WebhookTypeOK /\ JobsOK
  <2>1. NoJob \in Job /\ NoJob \in GoodJob
    BY WebhooksAssumption DEF NoJob, Job, GoodJob, JobOK
  <2>2. QED
    BY <2>1 DEF Init, WebhookInit, WebhookTypeOK, JobsOK
<1>5. GatewayTypeOK
  BY DEF Init, GatewayInit, GatewayTypeOK
<1>6. QED
  BY <1>1, <1>2, <1>3, <1>4, <1>5 DEF TInv

\* A slot that gets a handler, or gives it back, leaves the others alone.
LEMMA SetSlot ==
    ASSUME ReqOK, NEW r \in Requests, NEW h \in AnyHandler, req' = [req EXCEPT ![r] = h]
    PROVE  /\ ReqOK'
           /\ req'[r] = h
           /\ \A q \in Requests \ {r} : req'[q] = req[q]
  BY DEF ReqOK

\* What a slot had to say about announced events stays true.
LEMMA LogEventsKept ==
    ASSUME LogEvents, ReqOK, DOMAIN events \subseteq DOMAIN events',
           NEW r \in Requests, \A q \in Requests \ {r} : req'[q] = req[q],
           req'[r].pc \in LogSteps => req'[r].event \in DOMAIN events'
    PROVE  LogEvents'
  BY DEF LogEvents, Busy

LEMMA OrderNextTypes ==
    ASSUME TInv, OrderNext, UNCHANGED <<brokerVars, webhookVars, gatewayVars>>
    PROVE  TInv'
<1> USE DEF TInv, JobsOK, OrderTypeOK, BrokerTypeOK, WebhookTypeOK, GatewayTypeOK,
            brokerVars, webhookVars, gatewayVars
<1>e. Idle.pc \notin LogSteps /\ Idle \in AnyHandler
  BY PcOf DEF LogSteps
<1>1. ASSUME NEW r \in Requests, StatusWrite(r)
      PROVE  TInv'
  <2>1. req[r] \in AnyHandler /\ req[r].pc \in OrderSteps
    BY <1>1 DEF StatusWrite, ReqOK, OrderSteps
  <2>2. /\ [req[r] EXCEPT !.pc = "announce"] \in AnyHandler
        /\ [req[r] EXCEPT !.pc = "announce"].pc = "announce"
        /\ req[r].event \in Event
    <3>1. "announce" \in OrderSteps
      BY DEF OrderSteps
    <3>2. QED
      BY <2>1, <3>1, OrderKind, PcOf
  <2>3. ReqOK' /\ req'[r].pc = "announce" /\ \A q \in Requests \ {r} : req'[q] = req[q]
    BY <1>1, <2>2, SetSlot DEF StatusWrite, Goto, Become
  <2>4. LogEvents'
    BY <1>1, <2>3, LogEventsKept DEF StatusWrite, LogSteps
  <2>5. status' \in [Orders -> Statuses \cup {"none"}]
    BY <1>1, <2>2 DEF StatusWrite, Event
  <2>6. QED
    BY <1>1, <2>3, <2>4, <2>5 DEF StatusWrite
<1>9. ASSUME NEW r \in Requests, SplitWrite(r)
      PROVE  TInv'
  <2>1. ReqOK' /\ req'[r] = Idle /\ \A q \in Requests \ {r} : req'[q] = req[q]
    BY <1>9, <1>e, SetSlot DEF SplitWrite, End, Become
  <2>2. LogEvents'
    BY <1>9, <1>e, <2>1, LogEventsKept DEF SplitWrite
  <2>3. PICK parts \in SUBSET Orders :
           /\ status' = [o \in Orders |-> IF o = req[r].event.order THEN req[r].event.to
                                         ELSE IF o \in parts THEN req[r].event.from
                                         ELSE status[o]]
           /\ orderNotes' = [o \in Orders |->
                 IF o \in parts \cup {req[r].event.order}
                 THEN orderNotes[o] \cup {"silent"} ELSE orderNotes[o]]
    BY <1>9 DEF SplitWrite
  <2>4. req[r].event \in Event
    <3>1. req[r] \in AnyHandler /\ req[r].pc \in OrderSteps
      BY <1>9 DEF SplitWrite, ReqOK, OrderSteps
    <3>2. QED
      BY <3>1, OrderKind
  <2>5. status' \in [Orders -> Statuses \cup {"none"}]
    BY <2>3, <2>4 DEF Event
  <2>6. orderNotes' \in [Orders -> SUBSET OrderNotes]
    BY <2>3 DEF OrderNotes
  <2>7. QED
    BY <1>9, <2>1, <2>2, <2>5, <2>6 DEF SplitWrite
<1>2. ASSUME NEW r \in Requests, OrderFault(r)
      PROVE  TInv'
  <2>1. ReqOK' /\ req'[r] = Idle /\ \A q \in Requests \ {r} : req'[q] = req[q]
    BY <1>2, <1>e, SetSlot DEF OrderFault, Throw
  <2>2. LogEvents'
    BY <1>2, <1>e, <2>1, LogEventsKept DEF OrderFault, orderVars
  <2>3. QED
    BY <1>2, <2>1, <2>2 DEF OrderFault, orderVars
<1>3. ASSUME NEW r \in Requests, NEW h \in OrderHandler, req' = [req EXCEPT ![r] = h],
             events' = events
      PROVE  ReqOK' /\ LogEvents'
  <2>1. ReqOK' /\ req'[r] = h /\ \A q \in Requests \ {r} : req'[q] = req[q]
    BY <1>3, PcOf, SetSlot
  <2>2. QED
    BY <1>3, <2>1, PcOf, LogEventsKept DEF OrderSteps, LogSteps
<1>4. ASSUME NEW r \in Requests, NEW o \in Orders, CreateOrder(r, o)
      PROVE  TInv'
  <2>1. [pc |-> "announce", event |-> [order |-> o, from |-> "none", to |-> "PREPARING",
                                       published |-> TRUE]] \in OrderHandler
    BY DEF OrderHandler, OrderSteps, Event, Statuses
  <2>2. ReqOK' /\ LogEvents'
    BY <1>3, <1>4, <2>1 DEF CreateOrder, Begin
  <2>3. QED
    BY <1>4, <2>2 DEF CreateOrder, Statuses
<1>5. ASSUME NEW r \in Requests, NEW o \in Orders, BumpLast(r, o)
      PROVE  TInv'
  <2>1. [pc |-> "statusWrite", event |-> [order |-> o, from |-> "PREPARING",
            to |-> "COMPLETED", published |-> FALSE]] \in OrderHandler
    BY DEF OrderHandler, OrderSteps, Event, Statuses
  <2>2. ReqOK' /\ LogEvents'
    BY <1>3, <1>5, <2>1 DEF BumpLast, Begin
  <2>3. QED
    BY <1>5, <2>2 DEF BumpLast, OrderNotes
<1>6. ASSUME NEW r \in Requests, NEW o \in Orders, NEW to \in Targets, UpdateStatus(r, o, to)
      PROVE  TInv'
  <2>1. [pc |-> "statusWrite", event |-> [order |-> o, from |-> status[o], to |-> to,
                                          published |-> TRUE]] \in OrderHandler
    BY TargetsAssumption DEF OrderHandler, OrderSteps, Event
  <2>2. ReqOK' /\ LogEvents'
    BY <1>3, <1>6, <2>1 DEF UpdateStatus, Begin
  <2>3. QED
    BY <1>6, <2>2 DEF UpdateStatus, NoteOrder, OrderNotes
<1>10. ASSUME NEW r \in Requests, NEW o \in Orders, SplitOrder(r, o)
       PROVE  TInv'
  <2>1. [pc |-> "splitWrite", event |-> [order |-> o, from |-> status[o], to |-> "CANCELLED",
                                         published |-> FALSE]] \in OrderHandler
    BY DEF OrderHandler, OrderSteps, Event, Statuses
  <2>2. ReqOK' /\ LogEvents'
    BY <1>3, <1>10, <2>1 DEF SplitOrder, Begin
  <2>3. QED
    BY <1>10, <2>2 DEF SplitOrder, NoteOrder, OrderNotes
<1>7. ASSUME NEW o \in Orders, CompleteSilently(o)
      PROVE  TInv'
  BY <1>7 DEF CompleteSilently, NoteOrder, OrderNotes, Statuses, ReqOK, LogEvents, Busy
<1>8. QED
  BY <1>1, <1>2, <1>4, <1>5, <1>6, <1>7, <1>9, <1>10 DEF OrderNext

\* A handler of the log after it has inserted its row.
LEMMA LogMarks ==
    ASSUME NEW h \in AnyHandler, h.pc \in LogSteps, NEW k \in Nat
    PROVE  /\ [h EXCEPT !.pc = "logMark", !.row = k] \in LogHandler
           /\ [h EXCEPT !.pc = "logMark", !.row = k].event = h.event
           /\ [h EXCEPT !.pc = "logMark", !.row = k].row = k
           /\ [h EXCEPT !.pc = "logMark", !.row = k].pc = "logMark"
<1>1. /\ h.event \in Nat /\ h.row \in Nat /\ h.held \in BOOLEAN
      /\ h = [pc |-> h.pc, event |-> h.event, row |-> h.row, held |-> h.held]
  BY LogKind
<1> DEFINE e == h.event
           d == h.held
           v == h.row
           p == h.pc
<1>2. h = [pc |-> p, event |-> e, row |-> v, held |-> d] /\ e \in Nat /\ d \in BOOLEAN
  BY <1>1
<1> HIDE DEF e, d, v, p
<1>3. [h EXCEPT !.pc = "logMark", !.row = k]
         = [pc |-> "logMark", event |-> e, row |-> k, held |-> d]
  <2> DEFINE g == [h EXCEPT !.pc = "logMark"]
  <2>1. g = [pc |-> "logMark", event |-> e, row |-> v, held |-> d]
    BY <1>2
  <2>2. [h EXCEPT !.pc = "logMark", !.row = k] = [g EXCEPT !.row = k]
    OBVIOUS
  <2> HIDE DEF g
  <2>3. [g EXCEPT !.row = k] = [pc |-> "logMark", event |-> e, row |-> k, held |-> d]
    BY <2>1
  <2>4. QED
    BY <2>2, <2>3
<1>4. "logMark" \in LogSteps
  BY DEF LogSteps
<1>5. [pc |-> "logMark", event |-> e, row |-> k, held |-> d] \in LogHandler
  BY <1>2, <1>4 DEF LogHandler
<1>6. QED
  BY <1>3, <1>5 DEF e

\* The log grows by a row, or one of its rows gets another status.
LEMMA LogAppends ==
    ASSUME NEW l \in Seq(LogRow), NEW n \in Nat
    PROVE  /\ Append(l, [event |-> n, status |-> "RECEIVED"]) \in Seq(LogRow)
           /\ Len(Append(l, [event |-> n, status |-> "RECEIVED"])) = Len(l) + 1
  BY DEF LogRow

LEMMA LogSets ==
    ASSUME NEW l \in Seq(LogRow), NEW i, NEW s \in {"PROCESSED", "FAILED"}
    PROVE  /\ [l EXCEPT ![i].status = s] \in Seq(LogRow)
           /\ DOMAIN [l EXCEPT ![i].status = s] = DOMAIN l
           /\ \A k \in DOMAIN l :
                 /\ [l EXCEPT ![i].status = s][k].event = l[k].event
                 /\ k # i => [l EXCEPT ![i].status = s][k] = l[k]
                 /\ k = i => [l EXCEPT ![i].status = s][k].status = s
<1> DEFINE m == [l EXCEPT ![i].status = s]
<1>1. \A k \in DOMAIN l : l[k] = [event |-> l[k].event, status |-> l[k].status]
                          /\ l[k].event \in Nat
  <2>1. \A k \in DOMAIN l : l[k] \in LogRow
    OBVIOUS
  <2>2. \A w \in LogRow : w = [event |-> w.event, status |-> w.status] /\ w.event \in Nat
    BY DEF LogRow
  <2>3. QED
    BY <2>1, <2>2
<1>2. DOMAIN m = DOMAIN l /\ \A k \in DOMAIN l :
         m[k] = IF k = i THEN [event |-> l[k].event, status |-> s] ELSE l[k]
  BY <1>1
<1>3. \A k \in DOMAIN l : m[k] \in LogRow
  BY <1>1, <1>2 DEF LogRow
<1>4. m = [k \in 1..Len(l) |-> m[k]] /\ Len(l) \in Nat /\ DOMAIN l = 1..Len(l)
  BY <1>2
<1>5. m \in Seq(LogRow)
  <2> HIDE DEF m
  <2>1. QED
    BY <1>3, <1>4
<1>6. QED
  BY <1>1, <1>2, <1>5

LEMMA BrokerNextTypes ==
    ASSUME TInv, BrokerNext, UNCHANGED <<orderVars, webhookVars, gatewayVars>>
    PROVE  TInv'
<1> USE DEF TInv, JobsOK, OrderTypeOK, BrokerTypeOK, WebhookTypeOK, GatewayTypeOK,
            orderVars, webhookVars, gatewayVars
<1>e. Idle.pc \notin LogSteps /\ Idle \in AnyHandler
  BY PcOf DEF LogSteps
<1>0. DOMAIN events \subseteq Nat /\ DOMAIN events = DOMAIN events'
  OBVIOUS
<1>1. ASSUME BreakLink
      PROVE  TInv'
  <2> DEFINE f(r) == IF req[r].pc \in LogSteps THEN [req[r] EXCEPT !.held = FALSE] ELSE req[r]
  <2>1. \A r \in Requests : /\ f(r) \in AnyHandler
                            /\ f(r).pc = req[r].pc
                            /\ req[r].pc \in LogSteps => f(r).event = req[r].event
    BY LogKind, PcOf DEF ReqOK
  <2>2. req' = [r \in Requests |-> f(r)]
    BY <1>1 DEF BreakLink
  <2> HIDE DEF f
  <2>3. ReqOK' /\ LogEvents'
    BY <2>1, <2>2, <1>0 DEF ReqOK, LogEvents, Busy
  <2>4. Held \subseteq DOMAIN events
    BY DEF Held, LogEvents, Busy
  <2>5. QED
    BY <1>0, <1>1, <2>3, <2>4 DEF BreakLink
<1>2. ASSUME NoticeLink \/ Connect
      PROVE  TInv'
  BY <1>2 DEF NoticeLink, Connect, Spend, ReqOK, LogEvents, Busy
<1>3. ASSUME NEW r \in Requests, NEW n \in queue, Deliver(r, n)
      PROVE  TInv'
  <2> DEFINE h == [pc |-> "logInsert", event |-> n, row |-> 0, held |-> TRUE]
  <2>1. h \in LogHandler
    BY <1>0 DEF LogHandler, LogSteps
  <2>2. req' = [req EXCEPT ![r] = h]
    BY <1>3 DEF Deliver, Become
  <2>3. ReqOK' /\ req'[r] = h /\ \A q \in Requests \ {r} : req'[q] = req[q]
    BY <2>1, <2>2, PcOf, SetSlot
  <2>a. req'[r].event \in DOMAIN events'
    BY <1>0, <2>1, <2>3
  <2>4. LogEvents'
    BY <2>3, <2>a, <1>0, LogEventsKept
  <2>5. QED
    BY <1>0, <1>3, <2>3, <2>4 DEF Deliver
<1>4. ASSUME NEW r \in Requests, LogInsert(r)
      PROVE  TInv'
  <2>1. req[r] \in AnyHandler /\ req[r].pc \in LogSteps
    BY <1>4 DEF LogInsert, ReqOK, LogSteps
  <2> DEFINE h == [req[r] EXCEPT !.pc = "logMark", !.row = Len(log) + 1]
  <2>2. req[r].event \in DOMAIN events
    BY <2>1 DEF LogEvents, Busy
  <2>a. Len(log) + 1 \in Nat /\ "logMark" \in LogSteps
    BY DEF LogSteps
  <2>b. h \in LogHandler /\ h.event = req[r].event
    BY <2>1, <2>a, LogMarks
  <2>c. req' = [req EXCEPT ![r] = Idle] \/ req' = [req EXCEPT ![r] = h]
    BY <1>4 DEF LogInsert, End, Become
  <2>d. h \in AnyHandler
    BY <2>b, PcOf
  <2> HIDE DEF h
  <2>3. /\ ReqOK' /\ \A q \in Requests \ {r} : req'[q] = req[q]
        /\ req'[r].pc \in LogSteps => req'[r].event \in DOMAIN events'
    <3>1. CASE req' = [req EXCEPT ![r] = Idle]
      BY <1>e, <3>1, SetSlot
    <3>2. CASE req' = [req EXCEPT ![r] = h]
      BY <1>0, <2>2, <2>b, <2>d, <3>2, SetSlot
    <3>3. QED
      BY <2>c, <3>1, <3>2
  <2>4. LogEvents'
    BY <1>0, <2>3, LogEventsKept
  <2>5. log' \in Seq(LogRow)
    <3>1. req[r].event \in Nat
      BY <1>0, <2>2
    <3>2. [event |-> req[r].event, status |-> "RECEIVED"] \in LogRow
      BY <3>1 DEF LogRow
    <3>3. log' = log \/ log' = Append(log, [event |-> req[r].event, status |-> "RECEIVED"])
      BY <1>4 DEF LogInsert
    <3>4. log \in Seq(LogRow)
      OBVIOUS
    <3>5. Append(log, [event |-> req[r].event, status |-> "RECEIVED"]) \in Seq(LogRow)
      BY <3>1, <3>4, LogAppends
    <3>6. QED
      BY <3>3, <3>4, <3>5
  <2>6. QED
    BY <1>0, <1>4, <2>3, <2>4, <2>5 DEF LogInsert
<1>5. ASSUME NEW r \in Requests, req' = [req EXCEPT ![r] = Idle]
      PROVE  ReqOK' /\ LogEvents'
  <2>1. ReqOK' /\ req'[r] = Idle /\ \A q \in Requests \ {r} : req'[q] = req[q]
    BY <1>5, <1>e, SetSlot
  <2>2. QED
    BY <1>e, <1>0, <2>1, LogEventsKept
<1>6. ASSUME NEW r \in Requests, LogMark(r) \/ LogFail(r)
      PROVE  TInv'
  <2>1. ReqOK' /\ LogEvents'
    BY <1>5, <1>6 DEF LogMark, LogFail, End, Become
  <2>2. log' \in Seq(LogRow)
    <3>1. PICK s \in {"PROCESSED", "FAILED"} : log' = [log EXCEPT ![req[r].row].status = s]
      BY <1>6 DEF LogMark, LogFail
    <3>2. log \in Seq(LogRow)
      OBVIOUS
    <3>3. [log EXCEPT ![req[r].row].status = s] \in Seq(LogRow)
      BY <3>2, LogSets
    <3>4. QED
      BY <3>1, <3>3
  <2>3. QED
    BY <1>0, <1>6, <2>1, <2>2 DEF LogMark, LogFail
<1>7. ASSUME NEW r \in Requests, LogMarkFails(r)
      PROVE  TInv'
  <2>1. req[r] \in AnyHandler /\ req[r].pc \in LogSteps
    BY <1>7 DEF LogMarkFails, ReqOK, LogSteps
  <2>2. /\ [req[r] EXCEPT !.pc = "logFail"] \in AnyHandler
        /\ [req[r] EXCEPT !.pc = "logFail"].event = req[r].event
        /\ req[r].event \in DOMAIN events
    <3>1. "logFail" \in LogSteps /\ r \in Busy(LogSteps)
      BY <2>1 DEF LogSteps, Busy
    <3>2. req[r].event \in DOMAIN events
      BY <3>1 DEF LogEvents
    <3>3. /\ req[r].event \in Nat /\ req[r].row \in Nat /\ req[r].held \in BOOLEAN
          /\ req[r] = [pc |-> req[r].pc, event |-> req[r].event, row |-> req[r].row,
                       held |-> req[r].held]
      BY <2>1, LogKind
    <3>4. /\ [req[r] EXCEPT !.pc = "logFail"].event = req[r].event
          /\ [req[r] EXCEPT !.pc = "logFail"] \in LogHandler
      BY <3>1, <3>3 DEF LogHandler
    <3>5. QED
      BY <3>2, <3>4, PcOf
  <2>3. req' = [req EXCEPT ![r] = [req[r] EXCEPT !.pc = "logFail"]]
    BY <1>7, <2>1 DEF LogMarkFails
  <2>4. /\ ReqOK' /\ \A q \in Requests \ {r} : req'[q] = req[q]
        /\ req'[r].event \in DOMAIN events'
    BY <1>0, <2>2, <2>3, SetSlot
  <2>5. LogEvents'
    BY <1>0, <2>4, LogEventsKept
  <2>6. QED
    BY <1>0, <1>7, <2>4, <2>5 DEF LogMarkFails, brokerVars
<1>8. ASSUME NEW r \in Requests, LogGivesUp(r)
      PROVE  TInv'
  <2>1. req[r].event \in DOMAIN events
    BY <1>8 DEF LogGivesUp, LogEvents, Busy, LogSteps
  <2>2. ReqOK' /\ LogEvents'
    BY <1>5, <1>8 DEF LogGivesUp, Throw
  <2>3. QED
    BY <1>0, <1>8, <2>1, <2>2 DEF LogGivesUp
<1>9. QED
  BY <1>1, <1>2, <1>3, <1>4, <1>6, <1>7, <1>8 DEF BrokerNext, BrokerStep

LEMMA GatewayNextTypes ==
    ASSUME TInv, GatewayNext, UNCHANGED <<orderVars, brokerVars, webhookVars>>
    PROVE  TInv'
<1> USE DEF TInv, JobsOK, OrderTypeOK, BrokerTypeOK, WebhookTypeOK, GatewayTypeOK,
            orderVars, webhookVars, brokerVars
<1>e. Idle.pc \notin LogSteps /\ Idle \in AnyHandler
  BY PcOf DEF LogSteps
<1>1. ASSUME NEW r \in Requests, NEW h \in AnyHandler, h.pc \notin LogSteps,
             req' = [req EXCEPT ![r] = h]
      PROVE  ReqOK' /\ LogEvents'
  <2>1. ReqOK' /\ req'[r] = h /\ \A q \in Requests \ {r} : req'[q] = req[q]
    BY <1>1, SetSlot
  <2>2. QED
    BY <1>1, <2>1, LogEventsKept
<1>2. ASSUME NEW r \in Requests, NEW p \in GatewaySteps, req[r].pc \in GatewaySteps,
             req' = [req EXCEPT ![r] = [req[r] EXCEPT !.pc = p]]
      PROVE  ReqOK' /\ LogEvents'
  <2>1. req[r] \in AnyHandler
    BY DEF ReqOK
  <2>2. [req[r] EXCEPT !.pc = p] \in AnyHandler /\ [req[r] EXCEPT !.pc = p].pc \notin LogSteps
    BY <1>2, <2>1, GatewayKind, PcOf DEF GatewaySteps, AskSteps, LogSteps
  <2>3. QED
    BY <1>1, <1>2, <2>2
<1>3. ASSUME NEW r \in Requests, NEW t \in Transactions, NEW p \in GatewaySteps,
             req' = [req EXCEPT ![r] = [pc |-> p, tx |-> t]]
      PROVE  ReqOK' /\ LogEvents'
  <2>1. [pc |-> p, tx |-> t] \in AnyHandler
    BY PcOf DEF GatewayHandler, GatewaySteps
  <2>2. p \notin LogSteps
    BY DEF GatewaySteps, AskSteps, LogSteps
  <2>3. QED
    BY <1>1, <1>3, <2>1, <2>2
<1>4. \A r \in Requests : req[r].pc \in GatewaySteps => req[r].tx \in Transactions
  BY GatewayKind DEF ReqOK
<1>5. ASSUME NEW r \in Requests, GatewayStep(r)
      PROVE  TInv'
  <2>1. CASE CreateTx(r)
    BY <1>1, <1>e, <2>1 DEF CreateTx, End, Become
  <2>2. CASE AskProvider(r)
    <3>1. req[r].pc \in GatewaySteps
      BY <2>2 DEF AskProvider, GatewaySteps, AskSteps
    <3>2. ReqOK' /\ LogEvents'
      BY <1>1, <1>2, <1>e, <2>2, <3>1 DEF AskProvider, End, Goto, Become, GatewaySteps, AskSteps
    <3>3. QED
      BY <1>4, <2>2, <3>1, <3>2 DEF AskProvider
  <2>3. CASE SettleTx(r)
    <3>1. req[r].pc \in GatewaySteps
      BY <2>3 DEF SettleTx, GatewaySteps, AskSteps
    <3>2. ReqOK' /\ LogEvents'
      BY <1>2, <2>3, <3>1 DEF SettleTx, Goto, Become, GatewaySteps, AskSteps
    <3>3. QED
      BY <2>3, <3>2 DEF SettleTx
  <2>4. CASE TellTx(r)
    <3>1. ReqOK' /\ LogEvents'
      BY <1>1, <1>e, <2>4 DEF TellTx, End, Become
    <3>2. QED
      <4>1. GatewayTypeOK'
        <5>1. /\ announced \in [Transactions -> Nat]
              /\ announced' = [announced EXCEPT ![req[r].tx] = announced[req[r].tx] + 1]
          BY <2>4 DEF TellTx, Told
        <5>2. announced' \in [Transactions -> Nat]
          <6>1. \A t \in Transactions : announced[t] \in Nat /\ announced[t] + 1 \in Nat
            BY <5>1
          <6>2. QED
            BY <5>1, <6>1
        <5>3. QED
          BY <2>4, <5>2 DEF TellTx
      <4>2. QED
        BY <3>1, <4>1
  <2>5. CASE ForceTx(r)
    <3>1. req[r].pc \in GatewaySteps
      BY <2>5 DEF ForceTx, GatewaySteps, AskSteps
    <3>2. ReqOK' /\ LogEvents'
      BY <1>2, <2>5, <3>1 DEF ForceTx, Goto, Become, GatewaySteps, AskSteps
    <3>3. QED
      BY <1>4, <2>5, <3>1, <3>2 DEF ForceTx
  <2>6. QED
    BY <1>5, <2>1, <2>2, <2>3, <2>4, <2>5 DEF GatewayStep
<1>6. ASSUME NEW r \in Requests, GatewayFault(r)
      PROVE  TInv'
  BY <1>1, <1>e, <1>6 DEF GatewayFault, Throw, gatewayVars
<1>7. ASSUME NEW r \in Requests, NEW t \in Transactions,
             InitiatePayment(r, t) \/ CheckStatus(r, t) \/ Simulate(r, t)
      PROVE  TInv'
  <2>1. PICK p \in GatewaySteps : req' = [req EXCEPT ![r] = [pc |-> p, tx |-> t]]
    BY <1>7 DEF InitiatePayment, CheckStatus, Simulate, Begin, GatewaySteps, AskSteps
  <2>2. ReqOK' /\ LogEvents'
    BY <1>3, <2>1
  <2>3. GatewayTypeOK'
    <3>1. provider' \in [Transactions -> {"unused", "PENDING", "COMPLETED", "lost"}]
      BY <1>7 DEF InitiatePayment, CheckStatus, Simulate
    <3>2. txNotes' \in [Transactions -> SUBSET TxNotes]
      <4>1. txNotes \in [Transactions -> SUBSET TxNotes]
        OBVIOUS
      <4>2. PICK add \in SUBSET TxNotes :
               txNotes' = txNotes \/ txNotes' = [txNotes EXCEPT ![t] = txNotes[t] \cup add]
        <5>1. CASE InitiatePayment(r, t)
          BY <5>1 DEF InitiatePayment
        <5>2. CASE CheckStatus(r, t)
          <6>1. {"overlap"} \in SUBSET TxNotes /\ {} \in SUBSET TxNotes
            BY DEF TxNotes
          <6>2. QED
            BY <4>1, <5>2, <6>1 DEF CheckStatus, NoteTx
        <5>3. CASE Simulate(r, t)
          <6> DEFINE add == {"by hand"} \cup (IF About(t) # {} THEN {"overlap"} ELSE {})
                              \cup (IF tx[t] = "COMPLETED" THEN {"again"} ELSE {})
          <6>1. add \in SUBSET TxNotes
            BY DEF TxNotes
          <6>2. txNotes' = [txNotes EXCEPT ![t] = txNotes[t] \cup add]
            BY <5>3 DEF Simulate
          <6>3. QED
            BY <6>1, <6>2
        <5>4. QED
          BY <1>7, <5>1, <5>2, <5>3
      <4>3. QED
        BY <4>1, <4>2
    <3>3. QED
      BY <1>7, <3>1, <3>2 DEF InitiatePayment, CheckStatus, Simulate
  <2>4. QED
    BY <2>2, <2>3
<1>8. QED
  BY <1>5, <1>6, <1>7 DEF GatewayNext

-----------------------------------------------------------------------------
(* The deliveries to the webhooks. *)

LEMMA JobForms ==
    /\ NoJob \in GoodJob
    /\ NoJob.pc = "none"
    /\ [NoJob EXCEPT !.pc = "try"] \in GoodJob
    /\ [NoJob EXCEPT !.pc = "try"].pc = "try"
    /\ GoodJob \subseteq Job
<1>1. NoJob \in GoodJob /\ NoJob.pc = "none"
  BY WebhooksAssumption DEF NoJob, Job, GoodJob, JobOK
<1>2. NoJob \in Job /\ ~ NoJob.success /\ NoJob.acks = 0 /\ NoJob.copies = 0
      /\ NoJob.attempt = 1 /\ NoJob.broken = 0 /\ NoJob.answer = "none"
  BY WebhooksAssumption DEF NoJob, Job
<1> DEFINE k == [NoJob EXCEPT !.pc = "try"]
<1>3. /\ k \in Job /\ k.pc = "try" /\ ~ k.success /\ k.acks = 0 /\ k.copies = 0
      /\ k.attempt = 1 /\ k.broken = 0 /\ k.answer = "none"
  BY <1>2 DEF Job
<1> HIDE DEF k
<1>4. k \in GoodJob
  BY <1>3 DEF JobOK, GoodJob
<1>5. QED
  BY <1>1, <1>3, <1>4 DEF GoodJob, k

\* A delivery of which only the station changes.
LEMMA JobSteps ==
    ASSUME NEW j \in Job, NEW p \in {"none", "try", "body", "save", "done"}
    PROVE  LET k == [j EXCEPT !.pc = p] IN
           /\ k \in Job
           /\ k.pc = p /\ k.success = j.success /\ k.error = j.error
           /\ k.answer = j.answer /\ k.attempt = j.attempt
           /\ k.copies = j.copies /\ k.acks = j.acks /\ k.broken = j.broken
  BY DEF Job

\* A delivery that ends where it is.
LEMMA JobEnds ==
    ASSUME NEW j \in GoodJob, j.pc # "none"
    PROVE  /\ [j EXCEPT !.pc = "done"] \in GoodJob
           /\ [j EXCEPT !.pc = "done"].pc = "done"
           /\ [j EXCEPT !.pc = "done"].success = j.success
           /\ [j EXCEPT !.pc = "done"].error = j.error
           /\ [j EXCEPT !.pc = "done"].answer = j.answer
           /\ Tells([j EXCEPT !.pc = "done"]) <=> Tells(j)
<1> DEFINE k == [j EXCEPT !.pc = "done"]
<1>1. j \in Job
  BY DEF GoodJob
<1>2. /\ k \in Job
      /\ k.pc = "done" /\ k.success = j.success /\ k.error = j.error
      /\ k.answer = j.answer
      /\ k.copies = j.copies /\ k.acks = j.acks /\ k.broken = j.broken
  BY <1>1, JobSteps
<1> HIDE DEF k
<1>3. JobOK(k)
  BY <1>2 DEF JobOK
<1>4. Tells(k) <=> Tells(j)
  BY <1>2 DEF Tells
<1>5. QED
  BY <1>2, <1>3, <1>4 DEF GoodJob, k

\* What the loop of deliverPayload makes of an attempt that is over.
Over(k) ==
    /\ k.acks = k.broken + (IF k.success THEN 1 ELSE 0)
    /\ ~ k.success /\ k.answer = "ok" => k.broken > 0
    /\ k.copies <= k.attempt
    /\ ~ k.success => k.error # "none"
    /\ k.success /\ k.copies > 1 => k.error # "none"

LEMMA JobGoesOn ==
    ASSUME NEW k \in Job, Over(k)
    PROVE  After(k) \in GoodJob /\ After(k).pc \in {"try", "save"}
<1>1. /\ k.attempt \in 1..MaxAttempts /\ k.copies \in Nat /\ k.acks \in Nat
      /\ k.broken \in Nat /\ k.success \in BOOLEAN
  BY DEF Job
<1>2. CASE k.success \/ k.attempt = MaxAttempts
  <2> DEFINE h == [k EXCEPT !.pc = "save"]
  <2>1. After(k) = h
    BY <1>2 DEF After
  <2>2. /\ h \in Job /\ h.pc = "save" /\ h.success = k.success /\ h.error = k.error
        /\ h.answer = k.answer
        /\ h.copies = k.copies /\ h.acks = k.acks /\ h.broken = k.broken
    BY JobSteps
  <2> HIDE DEF h
  <2>3. Tells(h)
    BY <1>1, <2>2, WebhooksAssumption DEF Over, Tells
  <2>4. JobOK(h)
    BY <2>2, <2>3 DEF JobOK
  <2>5. QED
    BY <2>1, <2>2, <2>4 DEF GoodJob
<1>3. CASE ~ (k.success \/ k.attempt = MaxAttempts)
  <2> DEFINE t == [k EXCEPT !.pc = "try"]
             h == [t EXCEPT !.attempt = @ + 1]
  <2>1. After(k) = h /\ ~ k.success /\ k.attempt + 1 \in 1..MaxAttempts
    <3>1. k.attempt + 1 \in 1..MaxAttempts
      BY <1>1, <1>3, WebhooksAssumption
    <3>2. QED
      BY <1>3, <3>1 DEF After
  <2>2. /\ t \in Job /\ t.pc = "try" /\ t.success = k.success /\ t.error = k.error
        /\ t.answer = k.answer /\ t.attempt = k.attempt
        /\ t.copies = k.copies /\ t.acks = k.acks /\ t.broken = k.broken
    BY JobSteps
  <2> HIDE DEF t
  <2>3. /\ h \in Job /\ h.pc = "try" /\ h.success = k.success /\ h.error = k.error
        /\ h.answer = k.answer /\ h.attempt = k.attempt + 1
        /\ h.copies = k.copies /\ h.acks = k.acks /\ h.broken = k.broken
    BY <2>1, <2>2 DEF Job
  <2> HIDE DEF h
  <2>4. JobOK(h)
    BY <1>1, <2>1, <2>3 DEF JobOK, Over
  <2>5. QED
    BY <2>1, <2>3, <2>4 DEF GoodJob
<1>4. QED
  BY <1>2, <1>3

\* An answer arrives.
LEMMA JobAnswered ==
    ASSUME NEW j \in GoodJob, j.pc = "try", NEW k \in Answers(j)
    PROVE  k \in GoodJob /\ k.pc = "body"
<1>1. j \in Job /\ JobOK(j)
  BY DEF GoodJob
<1>2. /\ ~ j.success /\ j.acks = j.broken /\ j.copies <= j.attempt - 1
      /\ j.copies > 0 => j.error # "none"
      /\ j.copies \in Nat /\ j.acks \in Nat /\ j.attempt \in Nat
  <2>1. j.copies \in Nat /\ j.acks \in Nat /\ j.attempt \in Nat
    BY <1>1 DEF Job
  <2>2. QED
    BY <1>1, <2>1 DEF JobOK
<1> DEFINE p == [j EXCEPT !.pc = "body"]
           sent == [p EXCEPT !.copies = @ + 1]
           ok == [sent EXCEPT !.answer = "ok"]
           ack == [ok EXCEPT !.acks = @ + 1]
           bad == [sent EXCEPT !.answer = "bad"]
           Like(x, m) == /\ x \in Job /\ x.pc = "body" /\ x.success = j.success
                         /\ x.error = j.error /\ x.attempt = j.attempt
                         /\ x.copies = j.copies + 1 /\ x.broken = j.broken /\ x.acks = m
<1>3. /\ p \in Job /\ p.pc = "body" /\ p.success = j.success /\ p.error = j.error
      /\ p.attempt = j.attempt /\ p.copies = j.copies /\ p.acks = j.acks
      /\ p.broken = j.broken
  BY <1>1, JobSteps
<1>4. k \in {ack, bad}
  BY DEF Answers
<1> HIDE DEF p
<1>5. Like(sent, j.acks)
  BY <1>2, <1>3 DEF Job
<1> HIDE DEF sent
<1>6. Like(ok, j.acks) /\ ok.answer = "ok" /\ Like(bad, j.acks) /\ bad.answer = "bad"
  BY <1>5 DEF Job
<1> HIDE DEF ok
<1>7. Like(ack, j.acks + 1) /\ ack.answer = "ok"
  BY <1>2, <1>6 DEF Job
<1> HIDE DEF ack, bad
<1>8. CASE k = ack
  <2>1. JobOK(k)
    BY <1>2, <1>7, <1>8 DEF JobOK
  <2>2. QED
    BY <1>7, <1>8, <2>1 DEF GoodJob
<1>9. CASE k = bad
  <2>1. JobOK(k)
    BY <1>2, <1>6, <1>9 DEF JobOK
  <2>2. QED
    BY <1>6, <1>9, <2>1 DEF GoodJob
<1>10. QED
  BY <1>4, <1>8, <1>9

\* No answer arrives.
LEMMA JobSilent ==
    ASSUME NEW j \in GoodJob, j.pc = "try", NEW k \in Silences(j)
    PROVE  After(k) \in GoodJob /\ After(k).pc \in {"try", "save"}
<1>1. j \in Job /\ JobOK(j)
  BY DEF GoodJob
<1>2. /\ ~ j.success /\ j.acks = j.broken /\ j.copies <= j.attempt - 1
      /\ j.answer = "ok" => j.broken > 0
      /\ j.copies \in Nat /\ j.acks \in Nat /\ j.attempt \in Nat
  <2>1. j.copies \in Nat /\ j.acks \in Nat /\ j.attempt \in Nat
    BY <1>1 DEF Job
  <2>2. QED
    BY <1>1, <2>1 DEF JobOK
<1> DEFINE failed == [j EXCEPT !.error = "network"]
           sent == [failed EXCEPT !.copies = @ + 1]
           Like(x, n) == /\ x \in Job /\ x.success = j.success /\ x.answer = j.answer
                         /\ x.error = "network" /\ x.attempt = j.attempt
                         /\ x.copies = n /\ x.broken = j.broken /\ x.acks = j.acks
<1>3. k \in {failed, sent}
  BY DEF Silences
<1>4. Like(failed, j.copies)
  BY <1>1 DEF Job
<1> HIDE DEF failed
<1>5. Like(sent, j.copies + 1)
  BY <1>2, <1>4 DEF Job
<1> HIDE DEF sent
<1>6. k \in Job /\ Over(k)
  <2>1. CASE k = failed
    BY <1>2, <1>4, <2>1 DEF Over
  <2>2. CASE k = sent
    BY <1>2, <1>5, <2>2 DEF Over
  <2>3. QED
    BY <1>3, <2>1, <2>2
<1>7. QED
  BY <1>6, JobGoesOn

\* A body is read or breaks off.
LEMMA JobRead ==
    ASSUME NEW j \in GoodJob, j.pc = "body", NEW k \in {BodyRead(j), BodyBroken(j)}
    PROVE  After(k) \in GoodJob /\ After(k).pc \in {"try", "save"}
<1>1. j \in Job /\ JobOK(j)
  BY DEF GoodJob
<1>2. /\ ~ j.success /\ j.acks = j.broken + (IF j.answer = "ok" THEN 1 ELSE 0)
      /\ j.copies <= j.attempt /\ (j.copies > 1 => j.error # "none")
      /\ j.copies \in Nat /\ j.acks \in Nat /\ j.broken \in Nat /\ j.attempt \in Nat
  <2>1. j.copies \in Nat /\ j.acks \in Nat /\ j.broken \in Nat /\ j.attempt \in Nat
    BY <1>1 DEF Job
  <2>2. QED
    BY <1>1, <2>1 DEF JobOK
<1> DEFINE Like(x, s, e, b) ==
              /\ x \in Job /\ x.success = s /\ x.answer = j.answer
              /\ x.error = e /\ x.attempt = j.attempt
              /\ x.copies = j.copies /\ x.broken = b /\ x.acks = j.acks
           ok == [j EXCEPT !.success = TRUE]
           bad == [j EXCEPT !.error = "http"]
           cut == [j EXCEPT !.error = "network"]
           lost == [cut EXCEPT !.broken = IF j.answer = "ok" THEN @ + 1 ELSE @]
<1>3. Like(ok, TRUE, j.error, j.broken) /\ Like(bad, j.success, "http", j.broken)
      /\ Like(cut, j.success, "network", j.broken)
  BY <1>1 DEF Job
<1>4. k \in {IF j.answer = "ok" THEN ok ELSE bad, lost}
  <2>1. BodyRead(j) = IF j.answer = "ok" THEN ok ELSE bad
    BY DEF BodyRead
  <2>2. BodyBroken(j) = lost
    BY DEF BodyBroken
  <2>3. QED
    BY <2>1, <2>2
<1> HIDE DEF ok, bad, cut
<1>5. Like(lost, j.success, "network", j.broken + (IF j.answer = "ok" THEN 1 ELSE 0))
  BY <1>2, <1>3 DEF Job
<1> HIDE DEF lost
<1>6. k \in Job /\ Over(k)
  <2>1. CASE j.answer = "ok" /\ k = ok
    BY <1>2, <1>3, <2>1 DEF Over
  <2>2. CASE j.answer # "ok" /\ k = bad
    BY <1>2, <1>3, <2>2 DEF Over
  <2>3. CASE k = lost
    BY <1>2, <1>5, <2>3 DEF Over
  <2>4. QED
    BY <1>4, <2>1, <2>2, <2>3
<1>7. QED
  BY <1>6, JobGoesOn

\* Every step of an attempt.
LEMMA JobAttempted ==
    ASSUME NEW n, NEW w, job[n][w] \in GoodJob, Attempt(n, w) \/ ReadBody(n, w)
    PROVE  /\ job[n][w].pc \in {"try", "body"}
           /\ UNCHANGED <<req, load, hook, dispatching, rows, hookNotes>>
           /\ \E k \in GoodJob : job' = [job EXCEPT ![n][w] = k]
           /\ \E k \in GoodJob : /\ k.pc \in {"try", "body", "save"}
                                 /\ job' = [job EXCEPT ![n][w] = k]
<1>1. CASE Attempt(n, w)
  <2>1. job[n][w].pc = "try"
    BY <1>1 DEF Attempt
  <2>2. PICK k \in Answers(job[n][w]) \cup {After(j) : j \in Silences(job[n][w])} :
           job' = [job EXCEPT ![n][w] = k]
    BY <1>1 DEF Attempt
  <2>3. k \in GoodJob /\ k.pc \in {"try", "body", "save"}
    BY <2>1, JobAnswered, JobSilent
  <2>4. UNCHANGED <<req, load, hook, dispatching, rows, hookNotes>>
    BY <1>1 DEF Attempt
  <2>5. QED
    BY <2>1, <2>2, <2>3, <2>4
<1>2. CASE ReadBody(n, w)
  <2>1. job[n][w].pc = "body"
    BY <1>2 DEF ReadBody
  <2>2. PICK k \in {BodyRead(job[n][w]), BodyBroken(job[n][w])} :
           job' = [job EXCEPT ![n][w] = After(k)]
    BY <1>2 DEF ReadBody
  <2>3. After(k) \in GoodJob /\ After(k).pc \in {"try", "save"}
    BY <2>1, JobRead
  <2>4. UNCHANGED <<req, load, hook, dispatching, rows, hookNotes>>
    BY <1>2 DEF ReadBody
  <2>5. QED
    BY <2>1, <2>2, <2>3, <2>4
<1>3. QED
  BY <1>1, <1>2

\* One delivery moves on.
LEMMA SetJob ==
    ASSUME JobsOK, NEW n \in 0..MaxEvents, NEW w \in Endpoints, NEW k \in GoodJob,
           job' = [job EXCEPT ![n][w] = k]
    PROVE  /\ JobsOK'
           /\ job'[n][w] = k
           /\ \A i \in 0..MaxEvents, x \in Endpoints :
                 (i # n \/ x # w) => job'[i][x] = job[i][x]
  BY DEF JobsOK

LEMMA WebhookNextTypes ==
    ASSUME TInv, WebhookNext, UNCHANGED <<orderVars, brokerVars, gatewayVars>>
    PROVE  TInv'
<1> USE DEF TInv, OrderTypeOK, BrokerTypeOK, GatewayTypeOK, orderVars, brokerVars,
            gatewayVars
<1>0. UNCHANGED req => ReqOK' /\ LogEvents'
  BY DEF ReqOK, LogEvents, Busy
<1>1. JobsOK' => job' \in [0..MaxEvents -> [Endpoints -> Job]]
  BY JobForms DEF JobsOK
<1>2. \A n \in 0..MaxEvents, w \in Endpoints : job[n][w] \in GoodJob
  BY DEF JobsOK
<1>3. ASSUME NEW n \in 0..MaxEvents, FindHooks(n)
      PROVE  TInv'
  <2>1. job' = [job EXCEPT ![n] = [w \in Endpoints |->
                  IF Wanted(w, n) THEN [NoJob EXCEPT !.pc = "try"] ELSE NoJob]]
    BY <1>3 DEF FindHooks
  <2>2. JobsOK'
    BY <2>1, JobForms DEF JobsOK
  <2>3. QED
    BY <1>0, <1>1, <1>3, <2>2 DEF FindHooks, WebhookTypeOK
<1>4. ASSUME NEW n \in 0..MaxEvents, NEW w \in Endpoints, Attempt(n, w) \/ ReadBody(n, w)
      PROVE  TInv'
  <2>1. PICK k \in GoodJob : job' = [job EXCEPT ![n][w] = k]
    BY <1>2, <1>4, JobAttempted
  <2>2. UNCHANGED <<req, load, hook, dispatching, rows, hookNotes>>
    BY <1>2, <1>4, JobAttempted
  <2>3. JobsOK'
    BY <2>1, SetJob
  <2>4. QED
    BY <1>0, <1>1, <2>2, <2>3 DEF WebhookTypeOK
<1>5. ASSUME NEW n \in 0..MaxEvents, NEW w \in Endpoints, job[n][w].pc = "save",
             job' = [job EXCEPT ![n][w].pc = "done"]
      PROVE  JobsOK'
  <2>1. job' = [job EXCEPT ![n][w] = [job[n][w] EXCEPT !.pc = "done"]]
    BY <1>2, <1>5 DEF JobsOK
  <2>2. [job[n][w] EXCEPT !.pc = "done"] \in GoodJob
    BY <1>2, <1>5, JobEnds
  <2>3. QED
    BY <2>1, <2>2, SetJob
<1>6. ASSUME NEW n \in 0..MaxEvents, NEW w \in Endpoints, SaveRow(n, w)
      PROVE  TInv'
  <2>1. JobsOK'
    BY <1>5, <1>6 DEF SaveRow
  <2>2. RowOf(n, w) \in Row
    <3>1. job[n][w] \in Job
      BY <1>2, JobForms
    <3>2. QED
      BY <3>1, WebhooksAssumption DEF RowOf, Row, Job
  <2>3. rows' \subseteq Row
    BY <1>6, <2>2 DEF SaveRow, WebhookTypeOK
  <2>4. QED
    BY <1>0, <1>1, <1>6, <2>1, <2>3 DEF SaveRow, WebhookTypeOK
<1>7. ASSUME NEW n \in 0..MaxEvents, DeliveryFault(n)
      PROVE  TInv'
  <2>1. CASE UNCHANGED job
    BY <1>0, <1>7, <2>1 DEF DeliveryFault, WebhookTypeOK, JobsOK
  <2>2. CASE \E w \in Endpoints : job[n][w].pc = "save"
                                  /\ job' = [job EXCEPT ![n][w].pc = "done"]
    <3>1. JobsOK'
      BY <1>5, <2>2
    <3>2. QED
      BY <1>0, <1>1, <1>7, <3>1 DEF DeliveryFault, WebhookTypeOK
  <2>3. QED
    BY <1>7, <2>1, <2>2 DEF DeliveryFault
<1>8. ASSUME NEW w \in Endpoints, TestWebhook(w)
      PROVE  TInv'
  <2>1. CASE 0 \in 0..MaxEvents
    <3>1. job[0][w] = NoJob
      BY <1>2, <1>8, <2>1 DEF TestWebhook, GoodJob, JobOK
    <3>2. job' = [job EXCEPT ![0][w] = [job[0][w] EXCEPT !.pc = "try"]]
      BY <1>8, <2>1 DEF TestWebhook, JobsOK
    <3>3. JobsOK'
      BY <2>1, <3>1, <3>2, SetJob, JobForms
    <3>4. QED
      BY <1>0, <1>1, <1>8, <3>3 DEF TestWebhook, WebhookTypeOK
  <2>2. CASE 0 \notin 0..MaxEvents
    <3>1. job' = job
      BY <1>8, <2>2 DEF TestWebhook, JobsOK
    <3>2. QED
      BY <1>0, <1>8, <3>1 DEF TestWebhook, WebhookTypeOK, JobsOK
  <2>3. QED
    BY <2>1, <2>2
<1>9. ASSUME NEW w \in Endpoints, NEW active \in {"active", "inactive"}, SetHook(w, active)
      PROVE  TInv'
  BY <1>0, <1>9 DEF SetHook, WebhookTypeOK, JobsOK
<1>10. ASSUME NEW w \in Endpoints, RemoveHook(w)
       PROVE  TInv'
  BY <1>0, <1>10 DEF RemoveHook, WebhookTypeOK, JobsOK
<1>11. QED
  BY <1>3, <1>4, <1>6, <1>7, <1>8, <1>9, <1>10 DEF WebhookNext, WebhookStep

-----------------------------------------------------------------------------
(* The steps of more than one part, and type correctness. *)

LEMMA AnnounceTypes ==
    ASSUME TInv, NEW r \in Requests, AnnounceToAll(r)
    PROVE  TInv'
<1> USE DEF TInv
<1> DEFINE n == Len(events) + 1
<1>1. req[r] \in AnyHandler /\ req[r].pc \in OrderSteps
  BY DEF AnnounceToAll, Announce, ReqOK, OrderSteps
<1>2. req[r].event \in Event
  BY <1>1, OrderKind
<1>3. /\ events' = Append(events, req[r].event)
      /\ events \in Seq(Event)
  BY DEF AnnounceToAll, Announce, OrderTypeOK
<1>4. /\ events' \in Seq(Event)
      /\ DOMAIN events \subseteq DOMAIN events'
      /\ n \in DOMAIN events'
  BY <1>2, <1>3
<1>5. req' = [req EXCEPT ![r] = Idle]
  BY DEF AnnounceToAll, Announce, End, Become
<1>6. ReqOK' /\ req'[r] = Idle /\ \A q \in Requests \ {r} : req'[q] = req[q]
  BY <1>5, PcOf, SetSlot
<1>7. LogEvents'
  BY <1>4, <1>6, PcOf, LogEventsKept DEF LogSteps
<1>8. OrderTypeOK'
  BY <1>4 DEF AnnounceToAll, Announce, OrderTypeOK
<1>9. BrokerTypeOK'
  BY <1>4 DEF AnnounceToAll, Publish, BrokerTypeOK
<1>10. WebhookTypeOK' /\ JobsOK'
  BY <1>4 DEF AnnounceToAll, Dispatch, WebhookTypeOK, JobsOK
<1>11. GatewayTypeOK'
  BY DEF AnnounceToAll, gatewayVars, GatewayTypeOK
<1>12. QED
  BY <1>6, <1>7, <1>8, <1>9, <1>10, <1>11

LEMMA RestartTypes ==
    ASSUME TInv, Restart
    PROVE  TInv'
<1> USE DEF TInv
<1>1. ReqOK' /\ LogEvents'
  BY PcOf DEF Restart, ReqOK, LogEvents, Busy, LogSteps
<1>2. OrderTypeOK'
  BY DEF Restart, OrderRestart, OrderTypeOK, OrderNotes
<1>3. BrokerTypeOK'
  <2>1. Busy({"logMark", "logFail"}) \subseteq Busy(LogSteps)
    BY DEF Busy, LogSteps
  <2>2. /\ Held \subseteq DOMAIN events
        /\ {req[r].event : r \in Busy({"logMark", "logFail"})} \subseteq DOMAIN events
    BY <2>1 DEF Held, LogEvents
  <2>3. QED
    BY <2>2 DEF Restart, OrderRestart, BrokerRestart, BrokerTypeOK
<1>4. JobsOK'
  <2>1. \A n \in 0..MaxEvents, w \in Endpoints :
           job[n][w].pc # "none" => [job[n][w] EXCEPT !.pc = "done"] \in GoodJob
    BY JobEnds DEF JobsOK
  <2>2. QED
    BY <2>1, JobForms DEF Restart, WebhookRestart, JobsOK
<1>5. WebhookTypeOK'
  <2>1. job' \in [0..MaxEvents -> [Endpoints -> Job]]
    BY <1>4, JobForms DEF JobsOK
  <2>2. QED
    BY <2>1 DEF Restart, WebhookRestart, WebhookTypeOK
<1>6. GatewayTypeOK'
  BY DEF Restart, GatewayRestart, GatewayTypeOK, TxNotes
<1>7. QED
  BY <1>1, <1>2, <1>3, <1>4, <1>5, <1>6

LEMMA TInvStep == TInv /\ [Next]_vars => TInv'
<1> SUFFICES ASSUME TInv, [Next]_vars PROVE TInv'
  OBVIOUS
<1>1. CASE UNCHANGED vars
  BY <1>1 DEF vars, handlerVars, orderVars, brokerVars, webhookVars, gatewayVars, TInv,
     ReqOK, JobsOK, OrderTypeOK, BrokerTypeOK, WebhookTypeOK, GatewayTypeOK, LogEvents, Busy
<1>2. CASE Next
  BY <1>2, AnnounceTypes, RestartTypes, OrderNextTypes, BrokerNextTypes, WebhookNextTypes,
     GatewayNextTypes DEF Next
<1>3. QED
  BY <1>1, <1>2

LEMMA Types == Spec => []TInv
  BY TInvInit, TInvStep, PTL DEF Spec

\* Every slot holds a handler of one of the three kinds, no message, note or
\* dispatch is about an event that was never announced, and rows, deliveries and
\* charges have the values of their columns.
THEOREM TypeCorrect == Spec => []TypeOK
<1>1. TInv => TypeOK
  BY DEF TInv, TypeOK, ReqOK, AnyHandler, Free
<1>2. QED
  BY Types, <1>1, PTL

-----------------------------------------------------------------------------
(* The log of the webhooks: a row is written for a delivery that is over and *)
(* says what became of it, and nothing is delivered of an event that is not  *)
(* announced or whose endpoints are still being looked up.                   *)

RowsTold ==
    \A d \in rows :
        /\ job[d.event][d.hook].pc = "done"
        /\ d.success = job[d.event][d.hook].success
        /\ d.error = job[d.event][d.hook].error
        /\ d.answer = job[d.event][d.hook].answer
        /\ Tells(job[d.event][d.hook])

Fresh ==
    \A n \in 0..MaxEvents, w \in Endpoints :
        (n > Len(events) \/ n \in dispatching) => job[n][w].pc = "none"

WInv == RowsTold /\ Fresh

\* A delivery that is under way moves, and nothing new is logged.
LEMMA JobMoves ==
    ASSUME TInv, WInv, NEW n \in 0..MaxEvents, NEW w \in Endpoints, NEW k \in GoodJob,
           job[n][w].pc \notin {"none", "done"}, job' = [job EXCEPT ![n][w] = k],
           UNCHANGED events, dispatching' \subseteq dispatching, rows' \subseteq rows
    PROVE  WInv'
<1>0. JobsOK
  BY DEF TInv
<1>1. /\ job'[n][w] = k
      /\ \A i \in 0..MaxEvents, x \in Endpoints :
            (i # n \/ x # w) => job'[i][x] = job[i][x]
  BY <1>0 DEF JobsOK
<1>2. \A d \in rows : d.event \in 0..MaxEvents /\ d.hook \in Endpoints
  BY DEF TInv, WebhookTypeOK, Row
<1>3. RowsTold'
  BY <1>1, <1>2 DEF WInv, RowsTold
<1>4. Fresh'
  BY <1>1 DEF WInv, Fresh
<1>5. QED
  BY <1>3, <1>4 DEF WInv

LEMMA WebhookNextRows ==
    ASSUME TInv, WInv, WebhookNext, UNCHANGED orderVars
    PROVE  WInv'
<1>0. /\ events' = events /\ Len(events) \in Nat /\ dispatching \subseteq 1..Len(events)
      /\ \A n \in 0..MaxEvents, w \in Endpoints : job[n][w] \in GoodJob
      /\ \A d \in rows : d.event \in 0..MaxEvents /\ d.hook \in Endpoints
  <2>1. DOMAIN events = 1..Len(events) /\ Len(events) \in Nat
    BY DEF TInv, OrderTypeOK
  <2>2. \A d \in Row : d.event \in 0..MaxEvents /\ d.hook \in Endpoints
    BY DEF Row
  <2>3. QED
    BY <2>1, <2>2 DEF TInv, WebhookTypeOK, JobsOK, orderVars
<1>1. ASSUME NEW n \in 0..MaxEvents, FindHooks(n)
      PROVE  WInv'
  <2>1. /\ job' = [job EXCEPT ![n] = [w \in Endpoints |->
                     IF Wanted(w, n) THEN [NoJob EXCEPT !.pc = "try"] ELSE NoJob]]
        /\ n \in dispatching /\ dispatching' = dispatching \ {n} /\ rows' = rows
    BY <1>1 DEF FindHooks
  <2>2. \A i \in 0..MaxEvents : i # n => job'[i] = job[i]
    BY <2>1 DEF TInv, JobsOK
  <2>3. \A d \in rows : d.event # n
    BY <1>0, <2>1 DEF WInv, Fresh, RowsTold
  <2>4. RowsTold'
    BY <1>0, <2>1, <2>2, <2>3 DEF WInv, RowsTold
  <2>5. Fresh'
    BY <1>0, <2>1, <2>2 DEF WInv, Fresh
  <2>6. QED
    BY <2>4, <2>5 DEF WInv
<1>2. ASSUME NEW n \in 0..MaxEvents, NEW w \in Endpoints, Attempt(n, w) \/ ReadBody(n, w)
      PROVE  WInv'
  <2>1. PICK k \in GoodJob : job' = [job EXCEPT ![n][w] = k]
    BY <1>0, <1>2, JobAttempted
  <2>2. /\ job[n][w].pc \in {"try", "body"}
        /\ UNCHANGED <<req, load, hook, dispatching, rows, hookNotes>>
    BY <1>0, <1>2, JobAttempted
  <2>3. QED
    BY <1>0, <2>1, <2>2, JobMoves
<1>3. ASSUME NEW n \in 0..MaxEvents, NEW w \in Endpoints, job[n][w].pc = "save",
             job' = [job EXCEPT ![n][w].pc = "done"]
      PROVE  /\ job' = [job EXCEPT ![n][w] = [job[n][w] EXCEPT !.pc = "done"]]
             /\ [job[n][w] EXCEPT !.pc = "done"] \in GoodJob
             /\ [job[n][w] EXCEPT !.pc = "done"].pc = "done"
             /\ [job[n][w] EXCEPT !.pc = "done"].success = job[n][w].success
             /\ [job[n][w] EXCEPT !.pc = "done"].error = job[n][w].error
             /\ [job[n][w] EXCEPT !.pc = "done"].answer = job[n][w].answer
             /\ Tells([job[n][w] EXCEPT !.pc = "done"])
  <2>1. job' = [job EXCEPT ![n][w] = [job[n][w] EXCEPT !.pc = "done"]]
    BY <1>3 DEF TInv, JobsOK
  <2>2. Tells(job[n][w])
    BY <1>0, <1>3 DEF GoodJob, JobOK
  <2>3. QED
    BY <1>0, <1>3, <2>1, <2>2, JobEnds
<1>4. ASSUME NEW n \in 0..MaxEvents, NEW w \in Endpoints, SaveRow(n, w)
      PROVE  WInv'
  <2> DEFINE k == [job[n][w] EXCEPT !.pc = "done"]
             d0 == RowOf(n, w)
  <2>1. /\ job' = [job EXCEPT ![n][w] = k] /\ k \in GoodJob /\ k.pc = "done"
        /\ k.success = job[n][w].success /\ k.error = job[n][w].error
        /\ k.answer = job[n][w].answer /\ Tells(k)
    BY <1>3, <1>4 DEF SaveRow
  <2> HIDE DEF k
  <2>2. /\ d0.event = n /\ d0.hook = w
        /\ d0.success = job[n][w].success /\ d0.error = job[n][w].error
        /\ d0.answer = job[n][w].answer
    BY DEF RowOf
  <2> HIDE DEF d0
  <2>3. /\ job'[n][w] = k
        /\ \A i \in 0..MaxEvents, x \in Endpoints :
              (i # n \/ x # w) => job'[i][x] = job[i][x]
    <3>1. JobsOK
      BY DEF TInv
    <3>2. QED
      BY <2>1, <3>1 DEF JobsOK
  <2>4. /\ rows' \subseteq rows \cup {d0} /\ dispatching' = dispatching
        /\ job[n][w].pc = "save"
    BY <1>4 DEF SaveRow, d0
  <2>5. RowsTold'
    BY <1>0, <2>1, <2>2, <2>3, <2>4 DEF WInv, RowsTold
  <2>6. Fresh'
    BY <1>0, <2>3, <2>4 DEF WInv, Fresh
  <2>7. QED
    BY <2>5, <2>6 DEF WInv
<1>5. ASSUME NEW n \in 0..MaxEvents, DeliveryFault(n)
      PROVE  WInv'
  <2>1. CASE UNCHANGED job
    BY <1>0, <1>5, <2>1 DEF DeliveryFault, WInv, RowsTold, Fresh
  <2>2. ASSUME NEW w \in Endpoints, job[n][w].pc = "save",
               job' = [job EXCEPT ![n][w].pc = "done"], UNCHANGED dispatching
        PROVE  WInv'
    BY <1>0, <1>3, <1>5, <2>2, JobMoves DEF DeliveryFault
  <2>3. QED
    BY <1>5, <2>1, <2>2 DEF DeliveryFault
<1>6. ASSUME NEW w \in Endpoints, TestWebhook(w)
      PROVE  WInv'
  <2>1. /\ events' = events /\ rows' = rows /\ dispatching' = dispatching
        /\ job[0][w].pc = "none"
    BY <1>0, <1>6 DEF TestWebhook
  <2>2. CASE 0 \in 0..MaxEvents
    <3>1. job' = [job EXCEPT ![0][w] = [job[0][w] EXCEPT !.pc = "try"]]
      BY <1>6, <2>2 DEF TestWebhook, TInv, JobsOK
    <3>2. \A i \in 0..MaxEvents, x \in Endpoints :
            (i # 0 \/ x # w) => job'[i][x] = job[i][x]
      BY <2>2, <3>1 DEF TInv, JobsOK
    <3>3. \A d \in rows : d.event # 0 \/ d.hook # w
      BY <2>1 DEF WInv, RowsTold
    <3>4. RowsTold'
      BY <1>0, <2>1, <3>2, <3>3 DEF WInv, RowsTold
    <3>5. Fresh'
      BY <1>0, <2>1, <3>2 DEF WInv, Fresh
    <3>6. QED
      BY <3>4, <3>5 DEF WInv
  <2>3. CASE 0 \notin 0..MaxEvents
    <3>1. job' = job
      BY <1>6, <2>3 DEF TestWebhook, TInv, JobsOK
    <3>2. QED
      BY <2>1, <3>1 DEF WInv, RowsTold, Fresh
  <2>4. QED
    BY <2>2, <2>3
<1>7. ASSUME NEW w \in Endpoints, NEW active \in {"active", "inactive"}, SetHook(w, active)
      PROVE  WInv'
  BY <1>0, <1>7 DEF SetHook, WInv, RowsTold, Fresh
<1>8. ASSUME NEW w \in Endpoints, RemoveHook(w)
      PROVE  WInv'
  BY <1>0, <1>8 DEF RemoveHook, WInv, RowsTold, Fresh
<1>9. QED
  BY <1>1, <1>2, <1>4, <1>5, <1>6, <1>7, <1>8 DEF WebhookNext, WebhookStep

\* Only announcements change events, and they do nothing else here but start a
\* dispatch.
LEMMA EventsKept ==
    ASSUME OrderNext
    PROVE  UNCHANGED events
  BY DEF OrderNext, StatusWrite, OrderFault, orderVars, CreateOrder, BumpLast, UpdateStatus,
         SplitOrder, SplitWrite, CompleteSilently

LEMMA WInvStep == TInv /\ WInv /\ [Next]_vars => WInv'
<1> SUFFICES ASSUME TInv, WInv, [Next]_vars PROVE WInv'
  OBVIOUS
<1>1. CASE UNCHANGED <<events, dispatching, job, rows>>
  BY <1>1 DEF WInv, RowsTold, Fresh
<1>2. ASSUME NEW r \in Requests, AnnounceToAll(r)
      PROVE  WInv'
  <2>1. /\ events' = Append(events, req[r].event) /\ events \in Seq(Event)
        /\ dispatching' = dispatching \cup {Len(events) + 1}
        /\ job' = job /\ rows' = rows
    BY <1>2 DEF AnnounceToAll, Announce, Dispatch, TInv, OrderTypeOK
  <2>2. Len(events') = Len(events) + 1 /\ Len(events) \in Nat
    BY <2>1
  <2>3. QED
    BY <2>1, <2>2 DEF WInv, RowsTold, Fresh
<1>3. CASE Restart
  <2>1. /\ events' = events /\ dispatching' = {} /\ rows' = rows
        /\ job' = [n \in 0..MaxEvents |-> [w \in Endpoints |->
                     IF job[n][w].pc = "none" THEN NoJob
                     ELSE [job[n][w] EXCEPT !.pc = "done"]]]
    BY <1>3 DEF Restart, OrderRestart, WebhookRestart
  <2>2. \A n \in 0..MaxEvents, w \in Endpoints : job[n][w] \in GoodJob
    BY DEF TInv, JobsOK
  <2>3. \A n \in 0..MaxEvents, w \in Endpoints :
           /\ job[n][w].pc = "none" => job'[n][w].pc = "none"
           /\ job[n][w].pc = "done" => /\ job'[n][w].pc = "done"
                                       /\ job'[n][w].success = job[n][w].success
                                       /\ job'[n][w].error = job[n][w].error
                                       /\ job'[n][w].answer = job[n][w].answer
                                       /\ Tells(job'[n][w]) <=> Tells(job[n][w])
    BY <2>1, <2>2, JobEnds, JobForms
  <2>4. \A d \in rows : d.event \in 0..MaxEvents /\ d.hook \in Endpoints
    BY DEF TInv, WebhookTypeOK, Row
  <2>5. RowsTold'
    <3>1. RowsTold
      BY DEF WInv
    <3>2. SUFFICES ASSUME NEW d \in rows'
                   PROVE  /\ job'[d.event][d.hook].pc = "done"
                          /\ d.success = job'[d.event][d.hook].success
                          /\ d.error = job'[d.event][d.hook].error
                          /\ d.answer = job'[d.event][d.hook].answer
                          /\ Tells(job'[d.event][d.hook])
      BY DEF RowsTold
    <3>3. d \in rows
      BY <2>1
    <3>4. QED
      BY <2>3, <2>4, <3>1, <3>3 DEF RowsTold
  <2>6. Fresh'
    BY <2>1, <2>3 DEF WInv, Fresh
  <2>7. QED
    BY <2>5, <2>6 DEF WInv
<1>4. CASE WebhookNext /\ UNCHANGED <<orderVars, brokerVars, gatewayVars>>
  BY <1>4, WebhookNextRows
<1>5. CASE OrderNext /\ UNCHANGED <<brokerVars, webhookVars, gatewayVars>>
  BY <1>1, <1>5, EventsKept DEF webhookVars
<1>6. CASE UNCHANGED <<orderVars, webhookVars>>
  BY <1>1, <1>6 DEF webhookVars, orderVars
<1>7. QED
  BY <1>2, <1>3, <1>4, <1>5, <1>6 DEF Next, vars

\* What the log of deliveries says, whatever fails, is removed or restarts on the way:
\* deliverPayload logs a success exactly when an attempt was acknowledged and its
\* answer read, and stops there; other acknowledgements, in a success or a failure,
\* broke off, and a failure with the code of a success is one of these; the column
\* error of a success tells that an earlier attempt had failed.
THEOREM RowsTell == Spec => []RowTellsTheOutcome
<1>1. Init => WInv
  BY JobForms DEF Init, OrderInit, WebhookInit, WInv, RowsTold, Fresh
<1>2. Spec => []WInv
  BY Types, <1>1, WInvStep, PTL DEF Spec
<1>3. TInv /\ WInv => RowTellsTheOutcome
  <2> SUFFICES ASSUME TInv, WInv, NEW d \in rows
               PROVE  LET j == job[d.event][d.hook] IN
                      /\ j.acks = j.broken + (IF d.success THEN 1 ELSE 0)
                      /\ ~ d.success /\ d.answer = "ok" => j.broken > 0
                      /\ j.copies <= MaxAttempts
                      /\ d.success /\ j.copies > 1 => d.error # "none"
    BY DEF RowTellsTheOutcome
  <2>1. QED
    BY DEF WInv, RowsTold, Tells
<1>4. QED
  BY Types, <1>2, <1>3, PTL

-----------------------------------------------------------------------------
(* Each part moves its own handlers only. *)

Moves(pcs) ==
    \A q \in Requests : \/ req'[q] = req[q]
                        \/ /\ req[q].pc \in pcs \cup {"idle"}
                           /\ req'[q].pc \in pcs \cup {"idle"}

LEMMA OneMoves ==
    ASSUME ReqOK, NEW pcs, NEW r \in Requests, NEW h \in AnyHandler,
           req[r].pc \in pcs \cup {"idle"}, h.pc \in pcs \cup {"idle"},
           req' = [req EXCEPT ![r] = h]
    PROVE  Moves(pcs)
  BY DEF ReqOK, Moves

LEMMA OrderSlots ==
    ASSUME TInv, OrderNext \/ \E r \in Requests : AnnounceToAll(r)
    PROVE  Moves(OrderSteps)
<1>0. /\ ReqOK /\ Idle \in AnyHandler /\ Idle.pc = "idle"
      /\ "statusWrite" \in OrderSteps /\ "announce" \in OrderSteps
      /\ "splitWrite" \in OrderSteps
      /\ \A r \in Requests : Free(r) => req[r].pc = "idle"
  BY PcOf DEF TInv, OrderSteps, Free
<1>1. ASSUME NEW r \in Requests, StatusWrite(r)
      PROVE  Moves(OrderSteps)
  <2>1. req[r] \in AnyHandler /\ req[r].pc \in OrderSteps
    BY <1>0, <1>1 DEF StatusWrite, ReqOK
  <2>2. /\ [req[r] EXCEPT !.pc = "announce"] \in AnyHandler
        /\ [req[r] EXCEPT !.pc = "announce"].pc = "announce"
    BY <1>0, <2>1, OrderKind, PcOf
  <2>3. req' = [req EXCEPT ![r] = [req[r] EXCEPT !.pc = "announce"]]
    BY <1>1 DEF StatusWrite, Goto, Become
  <2>4. QED
    BY <1>0, <2>1, <2>2, <2>3, OneMoves
<1>2. ASSUME NEW r \in Requests, OrderFault(r) \/ SplitWrite(r) \/ AnnounceToAll(r)
      PROVE  Moves(OrderSteps)
  <2>1. req' = [req EXCEPT ![r] = Idle] /\ req[r].pc \in OrderSteps
    BY <1>0, <1>2 DEF OrderFault, Throw, SplitWrite, AnnounceToAll, Announce, End, Become
  <2>2. QED
    BY <1>0, <2>1, OneMoves
<1>3. ASSUME NEW r \in Requests, NEW o \in Orders,
             \/ CreateOrder(r, o) \/ BumpLast(r, o) \/ SplitOrder(r, o)
             \/ \E to \in Targets : UpdateStatus(r, o, to)
      PROVE  Moves(OrderSteps)
  <2>1. PICK p \in OrderSteps, e \in Event : req' = [req EXCEPT ![r] = [pc |-> p, event |-> e]]
    <3>1. CASE CreateOrder(r, o)
      <4>1. [order |-> o, from |-> "none", to |-> "PREPARING", published |-> TRUE] \in Event
        BY DEF Event, Statuses
      <4>2. QED
        BY <1>0, <3>1, <4>1 DEF CreateOrder, Begin
    <3>2. CASE BumpLast(r, o)
      <4>1. [order |-> o, from |-> "PREPARING", to |-> "COMPLETED", published |-> FALSE] \in Event
        BY DEF Event, Statuses
      <4>2. QED
        BY <1>0, <3>2, <4>1 DEF BumpLast, Begin
    <3>3. ASSUME NEW to \in Targets, UpdateStatus(r, o, to)
          PROVE  \E p \in OrderSteps, e \in Event :
                    req' = [req EXCEPT ![r] = [pc |-> p, event |-> e]]
      <4>1. [order |-> o, from |-> status[o], to |-> to, published |-> TRUE] \in Event
        BY <3>3, TargetsAssumption DEF Event, TInv, OrderTypeOK
      <4>2. QED
        BY <1>0, <3>3, <4>1 DEF UpdateStatus, Begin
    <3>4. CASE SplitOrder(r, o)
      <4>1. [order |-> o, from |-> status[o], to |-> "CANCELLED", published |-> FALSE] \in Event
        BY DEF Event, TInv, OrderTypeOK, Statuses
      <4>2. QED
        BY <1>0, <3>4, <4>1 DEF SplitOrder, Begin
    <3>5. QED
      BY <1>3, <3>1, <3>2, <3>3, <3>4
  <2>2. Free(r)
    BY <1>3 DEF CreateOrder, BumpLast, UpdateStatus, SplitOrder, Begin
  <2>3. [pc |-> p, event |-> e] \in AnyHandler
    BY PcOf DEF OrderHandler, OrderSteps
  <2>4. QED
    BY <1>0, <2>1, <2>2, <2>3, OneMoves
<1>4. ASSUME NEW o \in Orders, CompleteSilently(o)
      PROVE  Moves(OrderSteps)
  BY <1>4 DEF CompleteSilently, Moves
<1>5. QED
  BY <1>1, <1>2, <1>3, <1>4 DEF OrderNext

LEMMA GatewaySlots ==
    ASSUME TInv, GatewayNext
    PROVE  Moves(GatewaySteps)
<1>0. /\ ReqOK /\ Idle \in AnyHandler /\ Idle.pc = "idle"
      /\ {"txCreate", "txAsk", "txForce", "txSettle", "txTell"} = GatewaySteps
      /\ \A r \in Requests : Free(r) => req[r].pc = "idle"
  BY PcOf DEF TInv, GatewaySteps, AskSteps, Free
<1>1. ASSUME NEW r \in Requests, GatewayStep(r) \/ GatewayFault(r)
      PROVE  Moves(GatewaySteps)
  <2>1. req[r].pc \in GatewaySteps /\ req[r] \in AnyHandler
    BY <1>0, <1>1 DEF GatewayStep, GatewayFault, CreateTx, AskProvider, SettleTx, TellTx,
                      ForceTx, ReqOK
  <2>2. \/ req' = [req EXCEPT ![r] = Idle]
        \/ \E p \in GatewaySteps : req' = [req EXCEPT ![r] = [req[r] EXCEPT !.pc = p]]
    BY <1>0, <1>1 DEF GatewayStep, GatewayFault, CreateTx, AskProvider, SettleTx, TellTx,
                      ForceTx, Goto, End, Become, Throw
  <2>3. CASE req' = [req EXCEPT ![r] = Idle]
    BY <1>0, <2>1, <2>3, OneMoves
  <2>4. ASSUME NEW p \in GatewaySteps, req' = [req EXCEPT ![r] = [req[r] EXCEPT !.pc = p]]
        PROVE  Moves(GatewaySteps)
    <3>1. [req[r] EXCEPT !.pc = p] \in AnyHandler /\ [req[r] EXCEPT !.pc = p].pc = p
      BY <2>1, GatewayKind, PcOf
    <3>2. QED
      BY <1>0, <2>1, <2>4, <3>1, OneMoves
  <2>5. QED
    BY <2>2, <2>3, <2>4
<1>2. ASSUME NEW r \in Requests, NEW t \in Transactions,
             InitiatePayment(r, t) \/ CheckStatus(r, t) \/ Simulate(r, t)
      PROVE  Moves(GatewaySteps)
  <2>1. PICK p \in GatewaySteps : req' = [req EXCEPT ![r] = [pc |-> p, tx |-> t]]
    BY <1>0, <1>2 DEF InitiatePayment, CheckStatus, Simulate, Begin
  <2>2. Free(r)
    BY <1>2 DEF InitiatePayment, CheckStatus, Simulate, Begin
  <2>3. [pc |-> p, tx |-> t] \in AnyHandler
    BY PcOf DEF GatewayHandler, GatewaySteps
  <2>4. QED
    BY <1>0, <2>1, <2>2, <2>3, OneMoves
<1>3. QED
  BY <1>1, <1>2 DEF GatewayNext

LEMMA LogSlots ==
    ASSUME TInv, BrokerNext
    PROVE  Moves(LogSteps)
<1>0. /\ ReqOK /\ Idle \in AnyHandler /\ Idle.pc = "idle"
      /\ {"logInsert", "logMark", "logFail"} = LogSteps
      /\ \A r \in Requests : Free(r) => req[r].pc = "idle"
  BY PcOf DEF TInv, LogSteps, Free
<1>1. CASE BreakLink
  <2> DEFINE f(r) == IF req[r].pc \in LogSteps THEN [req[r] EXCEPT !.held = FALSE] ELSE req[r]
  <2>1. req' = [r \in Requests |-> f(r)]
    BY <1>1 DEF BreakLink
  <2>2. \A r \in Requests : req[r].pc \in LogSteps => f(r).pc = req[r].pc
    BY <1>0, LogKind DEF ReqOK
  <2>3. \A r \in Requests : req[r].pc \notin LogSteps => f(r) = req[r]
    OBVIOUS
  <2> HIDE DEF f
  <2>4. QED
    BY <2>1, <2>2, <2>3 DEF Moves
<1>2. CASE NoticeLink \/ Connect
  BY <1>2 DEF NoticeLink, Connect, Moves
<1>3. ASSUME NEW r \in Requests, NEW n \in queue, Deliver(r, n)
      PROVE  Moves(LogSteps)
  <2> DEFINE h == [pc |-> "logInsert", event |-> n, row |-> 0, held |-> TRUE]
  <2>1. req' = [req EXCEPT ![r] = h] /\ Free(r)
    BY <1>3 DEF Deliver, Become
  <2>2. n \in Nat
    BY DEF TInv, BrokerTypeOK, OrderTypeOK
  <2>3. h \in LogHandler
    BY <1>0, <2>2 DEF LogHandler
  <2>4. QED
    BY <1>0, <2>1, <2>3, PcOf, OneMoves
<1>4. ASSUME NEW r \in Requests, req[r].pc \in LogSteps, req' = [req EXCEPT ![r] = Idle]
      PROVE  Moves(LogSteps)
  BY <1>0, <1>4, OneMoves
<1>5. ASSUME NEW r \in Requests, LogInsert(r)
      PROVE  Moves(LogSteps)
  <2> DEFINE h == [req[r] EXCEPT !.pc = "logMark", !.row = Len(log) + 1]
  <2>1. req[r] \in AnyHandler /\ req[r].pc \in LogSteps
    BY <1>0, <1>5 DEF LogInsert, ReqOK
  <2>2. Len(log) + 1 \in Nat
    BY DEF TInv, BrokerTypeOK
  <2>3. h \in LogHandler
    BY <2>1, <2>2, LogMarks
  <2>4. req' = [req EXCEPT ![r] = Idle] \/ req' = [req EXCEPT ![r] = h]
    BY <1>5 DEF LogInsert, End, Become
  <2> HIDE DEF h
  <2>5. CASE req' = [req EXCEPT ![r] = h]
    BY <1>0, <2>1, <2>3, <2>5, PcOf, OneMoves
  <2>6. QED
    BY <1>4, <2>1, <2>4, <2>5
<1>6. ASSUME NEW r \in Requests, LogMarkFails(r)
      PROVE  Moves(LogSteps)
  <2>1. req[r] \in AnyHandler /\ req[r].pc \in LogSteps
    BY <1>0, <1>6 DEF LogMarkFails, ReqOK
  <2>2. req' = [req EXCEPT ![r] = [req[r] EXCEPT !.pc = "logFail"]]
    BY <1>6, <2>1 DEF LogMarkFails
  <2>3. [req[r] EXCEPT !.pc = "logFail"].pc = "logFail"
    BY <2>1, LogKind
  <2>4. QED
    BY <1>0, <2>1, <2>2, <2>3 DEF Moves, ReqOK
<1>7. ASSUME NEW r \in Requests, LogMark(r) \/ LogFail(r) \/ LogGivesUp(r)
      PROVE  Moves(LogSteps)
  BY <1>0, <1>4, <1>7 DEF LogMark, LogFail, LogGivesUp, Throw, End, Become
<1>8. QED
  BY <1>1, <1>2, <1>3, <1>5, <1>6, <1>7 DEF BrokerNext, BrokerStep

-----------------------------------------------------------------------------
(* The log of the broker: each event has one row, and a handler that has     *)
(* inserted its row still knows which it is.                                 *)

Owners == Busy({"logMark", "logFail"})

OneRowEach == \A j, k \in DOMAIN log : log[j].event = log[k].event => j = k

OwnersKnow == \A r \in Owners : /\ req[r].row \in DOMAIN log
                                /\ log[req[r].row].event = req[r].event

OpenRowsOwned ==
    \A j \in DOMAIN log : log[j].status = "RECEIVED" =>
        log[j].event \in brokerNotes \/ \E r \in Owners : req[r].row = j

BInv == OneRowEach /\ OwnersKnow /\ OpenRowsOwned

\* A step that leaves the log and its owners alone.
LEMMA OwnersKept ==
    ASSUME BInv, UNCHANGED log, brokerNotes \subseteq brokerNotes',
           \A q \in Requests :
              /\ q \in Owners <=> q \in Owners'
              /\ q \in Owners => req'[q].row = req[q].row /\ req'[q].event = req[q].event
    PROVE  BInv'
<1>0. Owners \subseteq Requests /\ Owners' \subseteq Requests
  BY DEF Owners, Busy
<1>1. OneRowEach' /\ OwnersKnow'
  BY <1>0 DEF BInv, OneRowEach, OwnersKnow
<1>2. OpenRowsOwned'
  BY <1>0 DEF BInv, OpenRowsOwned
<1>3. QED
  BY <1>1, <1>2 DEF BInv

LEMMA BrokerNextRows ==
    ASSUME TInv, BInv, BrokerNext
    PROVE  BInv'
<1>0. /\ ReqOK /\ log \in Seq(LogRow) /\ Idle.pc = "idle" /\ Idle \in AnyHandler
      /\ {"logInsert", "logMark", "logFail"} = LogSteps
      /\ \A r \in Requests : Free(r) => req[r].pc = "idle"
      /\ \A r \in Requests : r \in Owners <=> req[r].pc \in {"logMark", "logFail"}
      /\ \A r \in Requests : r \in Owners' <=> req'[r].pc \in {"logMark", "logFail"}
  BY PcOf DEF TInv, BrokerTypeOK, LogSteps, Free, Owners, Busy
<1>1. CASE BreakLink
  <2> DEFINE f(r) == IF req[r].pc \in LogSteps THEN [req[r] EXCEPT !.held = FALSE] ELSE req[r]
  <2>1. req' = [r \in Requests |-> f(r)]
    BY <1>1 DEF BreakLink
  <2>2. \A r \in Requests : req[r].pc \in LogSteps =>
           f(r).pc = req[r].pc /\ f(r).row = req[r].row /\ f(r).event = req[r].event
    BY <1>0, LogKind DEF ReqOK
  <2>3. \A r \in Requests : req[r].pc \notin LogSteps => f(r) = req[r]
    OBVIOUS
  <2> HIDE DEF f
  <2>4. \A r \in Requests : /\ r \in Owners <=> r \in Owners'
                            /\ r \in Owners => /\ req'[r].row = req[r].row
                                               /\ req'[r].event = req[r].event
    BY <1>0, <2>1, <2>2, <2>3
  <2>5. QED
    BY <1>1, <2>4, OwnersKept DEF BreakLink
<1>2. CASE NoticeLink \/ Connect
  BY <1>0, <1>2, OwnersKept DEF NoticeLink, Connect
<1>3. ASSUME NEW r \in Requests, NEW h, h.pc \notin {"logMark", "logFail"}, r \notin Owners,
             req' = [req EXCEPT ![r] = h], UNCHANGED log, brokerNotes \subseteq brokerNotes'
      PROVE  BInv'
  <2>1. req'[r] = h /\ \A q \in Requests \ {r} : req'[q] = req[q]
    BY <1>0, <1>3 DEF ReqOK
  <2>2. QED
    BY <1>0, <1>3, <2>1, OwnersKept
<1>4. ASSUME NEW r \in Requests, NEW n \in queue, Deliver(r, n)
      PROVE  BInv'
  BY <1>0, <1>3, <1>4 DEF Deliver, Become
<1>5. ASSUME NEW r \in Requests, LogInsert(r)
      PROVE  BInv'
  <2>1. r \notin Owners
    BY <1>0, <1>5 DEF LogInsert
  <2>2. CASE Logged(req[r].event)
    BY <1>0, <1>3, <1>5, <2>1, <2>2 DEF LogInsert, End, Become
  <2>3. CASE ~ Logged(req[r].event)
    <3> DEFINE h == [req[r] EXCEPT !.pc = "logMark", !.row = Len(log) + 1]
               n == req[r].event
    <3>1. /\ log' = Append(log, [event |-> n, status |-> "RECEIVED"])
          /\ req' = [req EXCEPT ![r] = h] /\ brokerNotes' = brokerNotes
      BY <1>5, <2>3 DEF LogInsert, Become
    <3>2. req[r] \in AnyHandler /\ req[r].pc \in LogSteps /\ Len(log) + 1 \in Nat
      BY <1>0, <1>5 DEF LogInsert, ReqOK
    <3>3. h.event = n /\ h.row = Len(log) + 1 /\ h.pc = "logMark"
      BY <3>2, LogMarks
    <3> HIDE DEF h
    <3>4. req'[r] = h /\ \A q \in Requests \ {r} : req'[q] = req[q]
      BY <1>0, <3>1 DEF ReqOK
    <3>5. /\ Len(log) \in Nat /\ DOMAIN log = 1..Len(log)
          /\ DOMAIN log' = 1..(Len(log) + 1)
          /\ \A j \in DOMAIN log : log'[j] = log[j]
          /\ log'[Len(log) + 1] = [event |-> n, status |-> "RECEIVED"]
      BY <1>0, <3>1
    <3> DEFINE L == Len(log)
    <3>6. /\ L \in Nat /\ DOMAIN log = 1..L /\ DOMAIN log' = 1..(L + 1)
          /\ \A j \in 1..L : log'[j] = log[j] /\ log[j].event # n
          /\ log'[L + 1].event = n
      BY <2>3, <3>5 DEF Logged
    <3>7. r \in Owners' /\ req'[r].row = L + 1 /\ req'[r].event = n
          /\ \A q \in Requests \ {r} : /\ req'[q] = req[q]
                                        /\ q \in Owners <=> q \in Owners'
      BY <1>0, <3>3, <3>4
    <3> HIDE DEF L, n
    <3>8. OneRowEach'
      BY <3>6 DEF BInv, OneRowEach
    <3>9. OwnersKnow'
      <4>1. ASSUME NEW q \in Owners'
            PROVE  req'[q].row \in DOMAIN log' /\ log'[req'[q].row].event = req'[q].event
        <5>1. q \in Requests
          BY DEF Owners, Busy
        <5>2. CASE q = r
          BY <3>6, <3>7, <5>2
        <5>3. CASE q # r
          BY <3>6, <3>7, <4>1, <5>1, <5>3 DEF BInv, OwnersKnow
        <5>4. QED
          BY <5>2, <5>3
      <4>2. QED
        BY <4>1 DEF OwnersKnow
    <3>10. OpenRowsOwned'
      <4>1. ASSUME NEW j \in DOMAIN log', log'[j].status = "RECEIVED"
            PROVE  log'[j].event \in brokerNotes' \/ \E q \in Owners' : req'[q].row = j
        <5>1. CASE j = L + 1
          BY <3>7, <5>1
        <5>2. CASE j # L + 1
          <6>1. j \in DOMAIN log /\ log'[j] = log[j]
            BY <3>6, <5>2
          <6>2. log[j].event \in brokerNotes \/ \E q \in Owners : req[q].row = j
            BY <4>1, <6>1 DEF BInv, OpenRowsOwned
          <6>3. \A q \in Owners : q \in Requests \ {r}
            BY <2>1 DEF Owners, Busy
          <6>4. QED
            BY <3>1, <3>7, <6>1, <6>2, <6>3
        <5>3. QED
          BY <5>1, <5>2
      <4>2. QED
        BY <4>1 DEF OpenRowsOwned
    <3>11. QED
      BY <3>8, <3>9, <3>10 DEF BInv
  <2>4. QED
    BY <2>2, <2>3
<1>6. ASSUME NEW r \in Requests, LogMark(r) \/ LogFail(r)
      PROVE  BInv'
  <2> DEFINE i == req[r].row
  <2>1. PICK s \in {"PROCESSED", "FAILED"} : log' = [log EXCEPT ![i].status = s]
    BY <1>6 DEF LogMark, LogFail
  <2>2. /\ DOMAIN log' = DOMAIN log
        /\ \A k \in DOMAIN log : /\ log'[k].event = log[k].event
                                 /\ k # i => log'[k] = log[k]
                                 /\ k = i => log'[k].status = s
    BY <1>0, <2>1, LogSets
  <2>3. req' = [req EXCEPT ![r] = Idle] /\ brokerNotes' = brokerNotes
    BY <1>6 DEF LogMark, LogFail, End, Become
  <2>4. req'[r] = Idle /\ \A q \in Requests \ {r} : req'[q] = req[q]
    BY <1>0, <2>3 DEF ReqOK
  <2>5. \A q \in Requests : q \in Owners' <=> q \in Owners /\ q # r
    BY <1>0, <2>4
  <2> HIDE DEF i
  <2>6. OneRowEach'
    BY <2>2 DEF BInv, OneRowEach
  <2>7. OwnersKnow'
    <3>1. Owners' \subseteq Requests
      BY DEF Owners, Busy
    <3>2. QED
      BY <2>2, <2>4, <2>5, <3>1 DEF BInv, OwnersKnow
  <2>8. OpenRowsOwned'
    <3>1. Owners \subseteq Requests
      BY DEF Owners, Busy
    <3>2. ASSUME NEW j \in DOMAIN log', log'[j].status = "RECEIVED"
          PROVE  log'[j].event \in brokerNotes' \/ \E q \in Owners' : req'[q].row = j
      <4>1. j # i /\ j \in DOMAIN log /\ log'[j] = log[j]
        BY <2>2, <3>2
      <4>2. log[j].event \in brokerNotes \/ \E q \in Owners : req[q].row = j
        BY <3>2, <4>1 DEF BInv, OpenRowsOwned
      <4>3. \A q \in Owners : req[q].row = j => q # r
        BY <4>1 DEF i
      <4>4. QED
        BY <2>3, <2>4, <2>5, <3>1, <4>1, <4>2, <4>3
    <3>3. QED
      BY <3>2 DEF OpenRowsOwned
  <2>9. QED
    BY <2>6, <2>7, <2>8 DEF BInv
<1>7. ASSUME NEW r \in Requests, LogMarkFails(r)
      PROVE  BInv'
  <2>1. req[r] \in AnyHandler /\ req[r].pc = "logMark" /\ req[r].pc \in LogSteps
    BY <1>0, <1>7 DEF LogMarkFails, ReqOK
  <2>2. req' = [req EXCEPT ![r] = [req[r] EXCEPT !.pc = "logFail"]]
    BY <1>7, <2>1 DEF LogMarkFails
  <2>3. /\ [req[r] EXCEPT !.pc = "logFail"].pc = "logFail"
        /\ [req[r] EXCEPT !.pc = "logFail"].row = req[r].row
        /\ [req[r] EXCEPT !.pc = "logFail"].event = req[r].event
    BY <2>1, LogKind
  <2>4. /\ req'[r].pc = "logFail" /\ req'[r].row = req[r].row
        /\ req'[r].event = req[r].event
        /\ \A q \in Requests \ {r} : req'[q] = req[q]
    BY <1>0, <2>2, <2>3 DEF ReqOK
  <2>5. QED
    BY <1>0, <1>7, <2>1, <2>4, OwnersKept DEF LogMarkFails, brokerVars
<1>8. ASSUME NEW r \in Requests, LogGivesUp(r)
      PROVE  BInv'
  <2>1. /\ req' = [req EXCEPT ![r] = Idle] /\ log' = log
        /\ brokerNotes' = brokerNotes \cup {req[r].event}
    BY <1>8 DEF LogGivesUp, Throw
  <2>2. CASE r \notin Owners
    BY <1>0, <1>3, <2>1, <2>2
  <2>3. CASE r \in Owners
    <3>1. req'[r] = Idle /\ \A q \in Requests \ {r} : req'[q] = req[q]
      BY <1>0, <2>1 DEF ReqOK
    <3>2. \A q \in Requests : q \in Owners' <=> q \in Owners /\ q # r
      BY <1>0, <3>1
    <3>3. Owners \subseteq Requests /\ Owners' \subseteq Requests
      BY DEF Owners, Busy
    <3>4. OneRowEach' /\ OwnersKnow'
      BY <2>1, <3>1, <3>2, <3>3 DEF BInv, OneRowEach, OwnersKnow
    <3>5. OpenRowsOwned'
      <4>1. ASSUME NEW j \in DOMAIN log, log[j].status = "RECEIVED"
            PROVE  log[j].event \in brokerNotes' \/ \E q \in Owners' : req'[q].row = j
        <5>1. log[j].event \in brokerNotes \/ \E q \in Owners : req[q].row = j
          BY <4>1 DEF BInv, OpenRowsOwned
        <5>2. CASE req[r].row = j
          BY <2>1, <2>3, <5>2 DEF BInv, OwnersKnow
        <5>3. CASE req[r].row # j
          BY <2>1, <3>1, <3>2, <3>3, <5>1, <5>3
        <5>4. QED
          BY <5>2, <5>3
      <4>2. QED
        BY <2>1, <4>1 DEF OpenRowsOwned
    <3>6. QED
      BY <3>4, <3>5 DEF BInv
  <2>4. QED
    BY <2>2, <2>3
<1>9. QED
  BY <1>1, <1>2, <1>4, <1>5, <1>6, <1>7, <1>8 DEF BrokerNext, BrokerStep

LEMMA BInvStep == TInv /\ BInv /\ [Next]_vars => BInv'
<1> SUFFICES ASSUME TInv, BInv, [Next]_vars PROVE BInv'
  OBVIOUS
<1>1. ASSUME Moves(OrderSteps) \/ Moves(GatewaySteps), UNCHANGED <<log, brokerNotes>>
      PROVE  BInv'
  <2>1. /\ "logMark" \notin OrderSteps \cup GatewaySteps \cup {"idle"}
        /\ "logFail" \notin OrderSteps \cup GatewaySteps \cup {"idle"}
    BY DEF OrderSteps, GatewaySteps, AskSteps
  <2>2. \A q \in Requests :
           /\ q \in Owners <=> q \in Owners'
           /\ q \in Owners => req'[q].row = req[q].row /\ req'[q].event = req[q].event
    BY <1>1, <2>1 DEF Moves, Owners, Busy
  <2>3. QED
    BY <1>1, <2>2, OwnersKept
<1>2. CASE UNCHANGED <<req, log, brokerNotes>>
  BY <1>2 DEF BInv, OneRowEach, OwnersKnow, OpenRowsOwned, Owners, Busy
<1>3. ASSUME NEW r \in Requests, AnnounceToAll(r)
      PROVE  BInv'
  BY <1>1, <1>3, OrderSlots DEF AnnounceToAll
<1>4. CASE OrderNext /\ UNCHANGED <<brokerVars, webhookVars, gatewayVars>>
  BY <1>1, <1>4, OrderSlots DEF brokerVars
<1>5. CASE GatewayNext /\ UNCHANGED <<orderVars, brokerVars, webhookVars>>
  BY <1>1, <1>5, GatewaySlots DEF brokerVars
<1>6. CASE BrokerNext
  BY <1>6, BrokerNextRows
<1>7. CASE WebhookNext /\ UNCHANGED <<orderVars, brokerVars, gatewayVars>>
  <2>1. UNCHANGED req
    BY <1>7 DEF WebhookNext, WebhookStep, FindHooks, Attempt, ReadBody, SaveRow, DeliveryFault,
                TestWebhook, SetHook, RemoveHook
  <2>2. QED
    BY <1>2, <1>7, <2>1 DEF brokerVars
<1>8. CASE Restart
  <2>1. /\ log' = log /\ req' = [r \in Requests |-> Idle]
        /\ brokerNotes' = brokerNotes \cup {req[r].event : r \in Owners}
    BY <1>8 DEF Restart, BrokerRestart, Owners
  <2>2. Owners' = {}
    BY <2>1, PcOf DEF Owners, Busy
  <2>3. OneRowEach' /\ OwnersKnow'
    BY <2>1, <2>2 DEF BInv, OneRowEach, OwnersKnow
  <2>4. OpenRowsOwned'
    BY <2>1 DEF BInv, OwnersKnow, OpenRowsOwned
  <2>5. QED
    BY <2>3, <2>4 DEF BInv
<1>9. CASE UNCHANGED vars
  BY <1>2, <1>9 DEF vars, handlerVars, brokerVars
<1>10. QED
  BY <1>3, <1>4, <1>5, <1>6, <1>7, <1>8, <1>9 DEF Next

\* However often the broker delivers a message again, across broken connections and
\* restarts, its event is in the log once, and a row that nobody will settle any
\* more belongs to a handler of RabbitMQConsumer that failed or died.
THEOREM LoggedOnce == Spec => []EventLoggedOnce
<1>1. Init => BInv
  BY PcOf DEF Init, HandlersInit, BrokerInit, BInv, OneRowEach, OwnersKnow, OpenRowsOwned,
              Owners, Busy
<1>2. Spec => []BInv
  BY Types, <1>1, BInvStep, PTL DEF Spec
<1>3. BInv => EventLoggedOnce
  BY DEF BInv, OneRowEach, OpenRowsOwned, Owners, EventLoggedOnce
<1>4. QED
  BY <1>2, <1>3, PTL

-----------------------------------------------------------------------------
(* The gateway.  What each of its steps does to the slot it runs in. *)

\* The handler in slot r goes from pc to pc and keeps its charge, or ends.
Goes(r, from, to) ==
    /\ req[r].pc = from
    /\ req[r].tx \in Transactions
    /\ req'[r].pc = to
    /\ to # "idle" => req'[r].tx = req[r].tx
    /\ \A q \in Requests \ {r} : req'[q] = req[q]

Starts(r, to, t) ==
    /\ req[r].pc = "idle"
    /\ req'[r].pc = to
    /\ req'[r].tx = t
    /\ \A q \in Requests \ {r} : req'[q] = req[q]

LEMMA GatewaySlot ==
    ASSUME TInv, NEW r \in Requests
    PROVE  /\ CreateTx(r) => Goes(r, "txCreate", "idle")
           /\ AskProvider(r) => Goes(r, "txAsk", "txSettle") \/ Goes(r, "txAsk", "idle")
           /\ AskProvider(r) /\ req'[r].pc = "txSettle" => Known(req[r].tx)
           /\ SettleTx(r) => Goes(r, "txSettle", "txTell")
           /\ TellTx(r) => Goes(r, "txTell", "idle")
           /\ ForceTx(r) => Goes(r, "txForce", "txSettle")
           /\ GatewayFault(r) => Goes(r, "txCreate", "idle") \/ Goes(r, "txSettle", "idle")
           /\ \A t \in Transactions :
                 /\ InitiatePayment(r, t) => Starts(r, "txCreate", t)
                 /\ CheckStatus(r, t) => Starts(r, "txAsk", t)
                 /\ Simulate(r, t) => Starts(r, "txForce", t)
<1>0. /\ req \in [Requests -> AnyHandler] /\ req[r] \in AnyHandler
      /\ Idle.pc = "idle" /\ {"txCreate", "txAsk", "txForce", "txSettle", "txTell"} = GatewaySteps
  BY PcOf DEF TInv, ReqOK, GatewaySteps, AskSteps
<1>1. ASSUME NEW from \in GatewaySteps, req[r].pc = from, req' = [req EXCEPT ![r] = Idle]
      PROVE  Goes(r, from, "idle")
  BY <1>0, <1>1, GatewayKind DEF Goes
<1>2. ASSUME NEW from \in GatewaySteps, NEW to \in GatewaySteps, req[r].pc = from,
             req' = [req EXCEPT ![r] = [req[r] EXCEPT !.pc = to]]
      PROVE  Goes(r, from, to)
  <2>1. /\ req[r].tx \in Transactions
        /\ [req[r] EXCEPT !.pc = to].pc = to /\ [req[r] EXCEPT !.pc = to].tx = req[r].tx
    BY <1>0, <1>2, GatewayKind
  <2>2. QED
    BY <1>0, <1>2, <2>1 DEF Goes
<1>3. ASSUME NEW t \in Transactions, NEW to \in GatewaySteps, Free(r),
             req' = [req EXCEPT ![r] = [pc |-> to, tx |-> t]]
      PROVE  Starts(r, to, t)
  BY <1>0, <1>3 DEF Starts, Free
<1>4. CreateTx(r) => Goes(r, "txCreate", "idle")
  BY <1>0, <1>1 DEF CreateTx, End, Become
<1>5. AskProvider(r) => /\ Goes(r, "txAsk", "txSettle") \/ Goes(r, "txAsk", "idle")
                        /\ req'[r].pc = "txSettle" => Known(req[r].tx)
  <2>1. CASE AskProvider(r) /\ req' = [req EXCEPT ![r] = Idle]
    BY <1>0, <1>1, <2>1 DEF AskProvider, Goes
  <2>2. CASE AskProvider(r) /\ Goto(r, "txSettle") /\ Known(req[r].tx)
    BY <1>0, <1>2, <2>2 DEF AskProvider, Goto, Become
  <2>3. QED
    BY <2>1, <2>2 DEF AskProvider, End, Become
<1>6. SettleTx(r) => Goes(r, "txSettle", "txTell")
  BY <1>0, <1>2 DEF SettleTx, Goto, Become
<1>7. TellTx(r) => Goes(r, "txTell", "idle")
  BY <1>0, <1>1 DEF TellTx, End, Become
<1>8. ForceTx(r) => Goes(r, "txForce", "txSettle")
  BY <1>0, <1>2 DEF ForceTx, Goto, Become
<1>9. GatewayFault(r) => Goes(r, "txCreate", "idle") \/ Goes(r, "txSettle", "idle")
  BY <1>0, <1>1 DEF GatewayFault, Throw
<1>10. ASSUME NEW t \in Transactions
       PROVE  /\ InitiatePayment(r, t) => Starts(r, "txCreate", t)
              /\ CheckStatus(r, t) => Starts(r, "txAsk", t)
              /\ Simulate(r, t) => Starts(r, "txForce", t)
  BY <1>0, <1>3 DEF InitiatePayment, CheckStatus, Simulate, Begin
<1>11. QED
  BY <1>4, <1>5, <1>6, <1>7, <1>8, <1>9, <1>10

\* The parts that are not the gateway leave its state and its handlers alone.
GatewayRests ==
    /\ UNCHANGED gatewayVars
    /\ \A q \in Requests : \/ req'[q] = req[q]
                           \/ req[q].pc \notin GatewaySteps /\ req'[q].pc \notin GatewaySteps

LEMMA GatewayAlone ==
    ASSUME TInv, [Next]_vars
    PROVE  \/ GatewayNext
           \/ Restart
           \/ GatewayRests
<1>1. GatewaySteps \cap (OrderSteps \cup {"idle"}) = {}
      /\ GatewaySteps \cap (LogSteps \cup {"idle"}) = {}
  BY DEF GatewaySteps, AskSteps, OrderSteps, LogSteps
<1>2. ASSUME Moves(OrderSteps) \/ Moves(LogSteps), UNCHANGED gatewayVars
      PROVE  GatewayRests
  BY <1>1, <1>2 DEF Moves, GatewayRests
<1>3. ASSUME NEW r \in Requests, AnnounceToAll(r)
      PROVE  GatewayRests
  BY <1>2, <1>3, OrderSlots DEF AnnounceToAll
<1>4. CASE OrderNext /\ UNCHANGED <<brokerVars, webhookVars, gatewayVars>>
  BY <1>2, <1>4, OrderSlots
<1>5. CASE BrokerNext /\ UNCHANGED <<orderVars, webhookVars, gatewayVars>>
  BY <1>2, <1>5, LogSlots
<1>6. CASE WebhookNext /\ UNCHANGED <<orderVars, brokerVars, gatewayVars>>
  <2>1. UNCHANGED req
    BY <1>6 DEF WebhookNext, WebhookStep, FindHooks, Attempt, ReadBody, SaveRow, DeliveryFault,
                TestWebhook, SetHook, RemoveHook
  <2>2. QED
    BY <1>6, <2>1 DEF GatewayRests
<1>7. CASE UNCHANGED vars
  BY <1>7 DEF vars, handlerVars, GatewayRests
<1>8. QED
  BY <1>3, <1>4, <1>5, <1>6, <1>7 DEF Next

-----------------------------------------------------------------------------
(* The books of the gateway, and what each of its handlers relies on. *)

BooksOK ==
    \A t \in Transactions :
        /\ tx[t] # "none" => provider[t] # "unused"
        /\ tx[t] = "COMPLETED" => t \in settled
        /\ announced[t] > 0 => tx[t] = "COMPLETED"

Relies(r) ==
    LET t == req[r].tx IN
    /\ provider[t] # "unused"
    /\ req[r].pc = "txCreate" =>
          /\ tx[t] = "none"
          /\ \A q \in Requests : req[q].pc = "txCreate" /\ req[q].tx = t => q = r
    /\ req[r].pc \in AskSteps => tx[t] # "none"
    /\ req[r].pc = "txSettle" => t \in settled
    /\ req[r].pc = "txTell" => tx[t] = "COMPLETED"

GInv == BooksOK /\ \A r \in Requests : req[r].pc \in GatewaySteps => Relies(r)

LEMMA GInvStep == TInv /\ GInv /\ [Next]_vars => GInv'
<1> SUFFICES ASSUME TInv, GInv, [Next]_vars PROVE GInv'
  OBVIOUS
<1>0. /\ {"txCreate", "txAsk", "txForce", "txSettle", "txTell"} = GatewaySteps
      /\ {"txAsk", "txForce", "txSettle", "txTell"} = AskSteps
      /\ "idle" \notin GatewaySteps
      /\ \A q \in Requests : req[q].pc \in GatewaySteps => req[q].tx \in Transactions
      /\ provider \in [Transactions -> {"unused", "PENDING", "COMPLETED", "lost"}]
      /\ tx \in [Transactions -> {"none", "PENDING", "COMPLETED"}]
      /\ announced \in [Transactions -> Nat]
  BY GatewayKind DEF TInv, ReqOK, GatewayTypeOK, GatewaySteps, AskSteps
<1>1. CASE GatewayRests
  <2>1. BooksOK'
    BY <1>1 DEF GatewayRests, gatewayVars, GInv, BooksOK
  <2>2. ASSUME NEW r \in Requests, req'[r].pc \in GatewaySteps
        PROVE  Relies(r)'
    <3>1. req'[r] = req[r] /\ Relies(r)
      BY <1>1, <2>2 DEF GatewayRests, GInv
    <3>2. \A q \in Requests : req'[q].pc = "txCreate" => req'[q] = req[q]
      BY <1>0, <1>1 DEF GatewayRests
    <3>3. QED
      BY <1>1, <3>1, <3>2 DEF GatewayRests, gatewayVars, Relies
  <2>3. QED
    BY <2>1, <2>2 DEF GInv
<1>2. CASE Restart
  <2>1. /\ \A r \in Requests : req'[r].pc = "idle"
        /\ \A t \in Transactions : provider[t] # "unused" => provider'[t] # "unused"
        /\ UNCHANGED <<tx, settled, announced>>
    BY <1>2, PcOf DEF Restart, GatewayRestart
  <2>2. QED
    BY <1>0, <2>1 DEF GInv, BooksOK
<1>3. ASSUME NEW r \in Requests, CreateTx(r)
      PROVE  GInv'
  <2> DEFINE t == req[r].tx
  <2>1. Goes(r, "txCreate", "idle")
    BY <1>3, GatewaySlot
  <2>2. /\ t \in Transactions /\ tx' = [tx EXCEPT ![t] = "PENDING"]
        /\ UNCHANGED <<provider, settled, announced, txNotes>>
    BY <1>3, <2>1 DEF CreateTx, Goes
  <2>3. Relies(r)
    BY <1>0, <2>1 DEF Goes, GInv
  <2>4. tx[t] = "none" /\ provider[t] # "unused"
        /\ \A q \in Requests : req[q].pc = "txCreate" /\ req[q].tx = t => q = r
    BY <2>1, <2>3 DEF Relies, Goes
  <2> HIDE DEF t
  <2>5. BooksOK'
    BY <1>0, <2>2, <2>4 DEF GInv, BooksOK
  <2>6. ASSUME NEW q \in Requests, req'[q].pc \in GatewaySteps
        PROVE  Relies(q)'
    <3>1. q # r /\ req'[q] = req[q] /\ Relies(q) /\ req[q].tx \in Transactions
      BY <1>0, <2>1, <2>6 DEF Goes, GInv
    <3>2. \A p \in Requests : req'[p].pc = "txCreate" => req'[p] = req[p]
      BY <1>0, <2>1 DEF Goes
    <3>3. req[q].pc # "txCreate" \/ req[q].tx # t
      BY <2>4, <3>1
    <3>4. req[q].tx = t => req[q].pc \notin AskSteps
      BY <2>4, <3>1 DEF Relies
    <3>5. req[q].tx # t
      BY <1>0, <2>6, <3>1, <3>3, <3>4
    <3>6. tx'[req[q].tx] = tx[req[q].tx]
      BY <1>0, <2>2, <3>1, <3>5
    <3>7. QED
      BY <2>2, <3>1, <3>2, <3>6 DEF Relies
  <2>7. QED
    BY <2>5, <2>6 DEF GInv
<1>4. ASSUME NEW r \in Requests, AskProvider(r) \/ ForceTx(r), req'[r].pc = "txSettle"
      PROVE  GInv'
  <2> DEFINE t == req[r].tx
  <2>1. Goes(r, "txAsk", "txSettle") \/ Goes(r, "txForce", "txSettle")
    BY <1>0, <1>4, GatewaySlot DEF Goes
  <2>2. /\ t \in Transactions /\ settled' = settled \cup {t}
        /\ provider' = [provider EXCEPT ![t] = IF @ = "PENDING" THEN "COMPLETED" ELSE @]
        /\ UNCHANGED <<tx, announced, txNotes>>
    BY <1>0, <1>4, <2>1, PcOf DEF AskProvider, ForceTx, Goes, End, Become, TInv, ReqOK
  <2>3. /\ req[r].pc \in AskSteps /\ req'[r].pc = "txSettle" /\ req'[r].tx = t
        /\ \A q \in Requests \ {r} : req'[q] = req[q]
    BY <1>0, <2>1 DEF Goes
  <2>4. tx[t] # "none" /\ provider[t] # "unused"
    BY <1>0, <2>3 DEF GInv, Relies
  <2> HIDE DEF t
  <2>5. \A x \in Transactions : provider[x] # "unused" => provider'[x] # "unused"
    BY <1>0, <2>2
  <2>6. BooksOK'
    BY <1>0, <2>2, <2>5 DEF GInv, BooksOK
  <2>7. ASSUME NEW q \in Requests, req'[q].pc \in GatewaySteps
        PROVE  Relies(q)'
    <3>1. CASE q = r
      BY <1>0, <2>2, <2>3, <2>4, <2>5, <3>1 DEF Relies
    <3>2. CASE q # r
      <4>1. req'[q] = req[q] /\ Relies(q) /\ req[q].tx \in Transactions
        BY <1>0, <2>3, <2>7, <3>2 DEF GInv
      <4>2. \A p \in Requests : req'[p].pc = "txCreate" => req'[p] = req[p]
        BY <2>3
      <4>3. QED
        BY <2>2, <2>5, <4>1, <4>2 DEF Relies
    <3>3. QED
      BY <3>1, <3>2
  <2>8. QED
    BY <2>6, <2>7 DEF GInv
<1>5. ASSUME NEW r \in Requests, SettleTx(r)
      PROVE  GInv'
  <2> DEFINE t == req[r].tx
  <2>1. Goes(r, "txSettle", "txTell")
    BY <1>5, GatewaySlot
  <2>2. /\ t \in Transactions /\ tx' = [tx EXCEPT ![t] = "COMPLETED"]
        /\ UNCHANGED <<provider, settled, announced, txNotes>>
    BY <1>5, <2>1 DEF SettleTx, Goes
  <2>3. /\ req'[r].pc = "txTell" /\ req'[r].tx = t
        /\ \A q \in Requests \ {r} : req'[q] = req[q]
    BY <2>1 DEF Goes
  <2>4. tx[t] # "none" /\ provider[t] # "unused" /\ t \in settled
    BY <1>0, <2>1 DEF GInv, Relies, Goes
  <2> HIDE DEF t
  <2>5. BooksOK'
    BY <1>0, <2>2, <2>4 DEF GInv, BooksOK
  <2>6. ASSUME NEW q \in Requests, req'[q].pc \in GatewaySteps
        PROVE  Relies(q)'
    <3>1. CASE q = r
      BY <1>0, <2>2, <2>3, <2>4, <3>1 DEF Relies
    <3>2. CASE q # r
      <4>1. req'[q] = req[q] /\ Relies(q) /\ req[q].tx \in Transactions
        BY <1>0, <2>3, <2>6, <3>2 DEF GInv
      <4>2. \A p \in Requests : req'[p].pc = "txCreate" => req'[p] = req[p]
        BY <2>3
      <4>3. req[q].pc = "txCreate" => req[q].tx # t
        BY <2>4, <4>1 DEF Relies
      <4>4. /\ req[q].tx # t => tx'[req[q].tx] = tx[req[q].tx]
            /\ req[q].tx = t => tx'[req[q].tx] = "COMPLETED"
        BY <1>0, <2>2, <4>1
      <4>5. QED
        BY <1>0, <2>2, <4>1, <4>2, <4>3, <4>4 DEF Relies
    <3>3. QED
      BY <3>1, <3>2
  <2>7. QED
    BY <2>5, <2>6 DEF GInv
<1>6. ASSUME NEW r \in Requests, req'[r].pc = "idle", UNCHANGED <<provider, tx, settled>>,
             \A q \in Requests \ {r} : req'[q] = req[q], BooksOK'
      PROVE  GInv'
  BY <1>0, <1>6 DEF GInv, Relies
<1>7. ASSUME NEW r \in Requests, TellTx(r)
      PROVE  GInv'
  <2>1. Goes(r, "txTell", "idle") /\ Relies(r)
    BY <1>0, <1>7, GatewaySlot DEF Goes, GInv
  <2>2. /\ announced' = [announced EXCEPT ![req[r].tx] = announced[req[r].tx] + 1]
        /\ UNCHANGED <<provider, tx, settled>>
    BY <1>7 DEF TellTx, Told
  <2>3. tx[req[r].tx] = "COMPLETED"
    BY <2>1 DEF Goes, Relies
  <2>4. BooksOK'
    BY <1>0, <2>2, <2>3 DEF GInv, BooksOK
  <2>5. QED
    BY <1>6, <2>1, <2>2, <2>4 DEF Goes
<1>8. ASSUME NEW r \in Requests, GatewayFault(r) \/ (AskProvider(r) /\ req'[r].pc # "txSettle")
      PROVE  GInv'
  <2>1. Goes(r, "txCreate", "idle") \/ Goes(r, "txSettle", "idle") \/ Goes(r, "txAsk", "idle")
    BY <1>8, GatewaySlot DEF Goes
  <2>2. UNCHANGED <<provider, tx, settled, announced>>
    <3>1. CASE GatewayFault(r)
      BY <3>1 DEF GatewayFault, gatewayVars
    <3>2. CASE AskProvider(r) /\ req'[r].pc # "txSettle"
      <4>1. req[r] \in AnyHandler /\ req[r].pc \in GatewaySteps
        BY <1>0, <3>2 DEF AskProvider, TInv, ReqOK
      <4>2. ~ Goto(r, "txSettle")
        <5>1. [req[r] EXCEPT !.pc = "txSettle"].pc = "txSettle"
          BY <4>1, GatewayKind
        <5>2. Goto(r, "txSettle") => req'[r] = [req[r] EXCEPT !.pc = "txSettle"]
          BY DEF Goto, Become, TInv, ReqOK
        <5>3. QED
          BY <3>2, <5>1, <5>2
      <4>3. QED
        BY <3>2, <4>2 DEF AskProvider
    <3>3. QED
      BY <1>8, <3>1, <3>2
  <2>3. BooksOK'
    BY <2>2 DEF GInv, BooksOK
  <2>4. QED
    BY <1>6, <2>1, <2>2, <2>3 DEF Goes
<1>9. ASSUME NEW r \in Requests, NEW t \in Transactions, InitiatePayment(r, t)
      PROVE  GInv'
  <2>1. Starts(r, "txCreate", t)
    BY <1>9, GatewaySlot
  <2>2. /\ provider[t] = "unused" /\ provider' = [provider EXCEPT ![t] = "PENDING"]
        /\ UNCHANGED <<tx, settled, announced>>
    BY <1>9 DEF InitiatePayment
  <2>3. tx[t] = "none"
    BY <1>0, <2>2 DEF GInv, BooksOK
  <2>4. BooksOK'
    BY <1>0, <2>2 DEF GInv, BooksOK
  <2>5. \A q \in Requests : req[q].pc \in GatewaySteps => req[q].tx # t
    BY <2>2 DEF GInv, Relies
  <2>6. ASSUME NEW q \in Requests, req'[q].pc \in GatewaySteps
        PROVE  Relies(q)'
    <3>1. CASE q = r
      BY <1>0, <2>1, <2>2, <2>3, <2>5, <3>1 DEF Relies, Starts
    <3>2. CASE q # r
      <4>1. req'[q] = req[q] /\ Relies(q) /\ req[q].tx \in Transactions /\ req[q].tx # t
        BY <1>0, <2>1, <2>5, <2>6, <3>2 DEF GInv, Starts
      <4>2. provider'[req[q].tx] = provider[req[q].tx]
        BY <1>0, <2>2, <4>1
      <4>3. QED
        BY <2>1, <2>2, <4>1, <4>2 DEF Relies, Starts
    <3>3. QED
      BY <3>1, <3>2
  <2>7. QED
    BY <2>4, <2>6 DEF GInv
<1>10. ASSUME NEW r \in Requests, NEW t \in Transactions, CheckStatus(r, t) \/ Simulate(r, t)
       PROVE  GInv'
  <2>1. Starts(r, "txAsk", t) \/ Starts(r, "txForce", t)
    BY <1>10, GatewaySlot
  <2>2. tx[t] # "none" /\ UNCHANGED <<provider, tx, settled, announced>>
    BY <1>10 DEF CheckStatus, Simulate
  <2>3. BooksOK'
    BY <2>2 DEF GInv, BooksOK
  <2>4. provider[t] # "unused"
    BY <2>2 DEF GInv, BooksOK
  <2>5. ASSUME NEW q \in Requests, req'[q].pc \in GatewaySteps
        PROVE  Relies(q)'
    <3>1. CASE q = r
      BY <1>0, <2>1, <2>2, <2>4, <3>1 DEF Relies, Starts
    <3>2. CASE q # r
      <4>1. req'[q] = req[q] /\ Relies(q)
        BY <1>0, <2>1, <2>5, <3>2 DEF GInv, Starts
      <4>2. QED
        BY <2>1, <2>2, <4>1 DEF Relies, Starts
    <3>3. QED
      BY <3>1, <3>2
  <2>6. QED
    BY <2>3, <2>5 DEF GInv
<1>11. ASSUME NEW r \in Requests, ForceTx(r)
       PROVE  req'[r].pc = "txSettle"
  BY <1>11, GatewaySlot DEF Goes
<1>12. QED
  BY <1>1, <1>2, <1>3, <1>4, <1>5, <1>7, <1>8, <1>9, <1>10, <1>11, GatewayAlone
     DEF GatewayNext, GatewayStep

LEMMA Books == Spec => []GInv
<1>1. Init => GInv
  BY PcOf DEF Init, HandlersInit, GatewayInit, GInv, BooksOK, GatewaySteps, AskSteps
<1>2. QED
  BY Types, <1>1, GInvStep, PTL DEF Spec

\* The gateway implements Charge: initiatePayment and the row it writes open a
\* charge, a poll that finds it paid or a completion by hand settles it, the write
\* of the row books it and the event announces it; a fault, a restart and every
\* step of the other parts changes nothing of it.
THEOREM GatewayImplementsCharge == Spec => GatewayIsCharge
<1> DEFINE opened == {t \in Transactions : tx[t] # "none"}
           booked == {t \in Transactions : tx[t] = "COMPLETED"}
           told == {t \in Transactions : announced[t] > 0}
<1>1. Init => C!Init
  BY DEF Init, GatewayInit, C!Init
<1>2. TInv /\ GInv /\ [Next]_vars => [C!Next]_(C!chargeVars)
  <2> SUFFICES ASSUME TInv, GInv, [Next]_vars
               PROVE  \/ \E t \in Transactions :
                            C!Open(t) \/ C!Settle(t) \/ C!Book(t) \/ C!Tell(t)
                      \/ opened' = opened /\ settled' = settled /\ booked' = booked
                         /\ told' = told
    BY DEF C!Next, C!chargeVars
  <2>0. /\ {"txCreate", "txAsk", "txForce", "txSettle", "txTell"} = GatewaySteps
        /\ {"txAsk", "txForce", "txSettle", "txTell"} = AskSteps
        /\ \A q \in Requests : req[q].pc \in GatewaySteps => Relies(q)
        /\ tx \in [Transactions -> {"none", "PENDING", "COMPLETED"}]
        /\ announced \in [Transactions -> Nat]
    BY DEF TInv, GatewayTypeOK, GInv, GatewaySteps, AskSteps
  <2>1. CASE UNCHANGED <<tx, settled, announced>>
    BY <2>1
  <2>2. ASSUME NEW r \in Requests, CreateTx(r)
        PROVE  \E t \in Transactions : C!Open(t)
    <3>1. Goes(r, "txCreate", "idle")
      BY <2>2, GatewaySlot
    <3>2. req[r].tx \in Transactions /\ tx[req[r].tx] = "none"
      BY <2>0, <3>1 DEF Goes, Relies
    <3>3. tx' = [tx EXCEPT ![req[r].tx] = "PENDING"] /\ UNCHANGED <<settled, announced>>
      BY <2>2 DEF CreateTx
    <3>4. opened' = opened \cup {req[r].tx} /\ booked' = booked
      BY <2>0, <3>2, <3>3
    <3>5. PICK t \in Transactions : t = req[r].tx
      BY <3>2
    <3>6. C!Open(t)
      BY <3>2, <3>3, <3>4, <3>5 DEF C!Open
    <3>7. QED
      BY <3>6
  <2>3. ASSUME NEW r \in Requests, AskProvider(r) \/ ForceTx(r), ~ UNCHANGED settled
        PROVE  \E t \in Transactions : C!Settle(t)
    <3>1. req[r].pc \in AskSteps /\ req[r].tx \in Transactions
      BY <2>0, <2>3, GatewaySlot DEF Goes
    <3>2. tx[req[r].tx] # "none"
      BY <2>0, <3>1 DEF Relies
    <3>3. settled' = settled \cup {req[r].tx} /\ UNCHANGED <<tx, announced>>
      BY <2>3 DEF AskProvider, ForceTx
    <3>4. PICK t \in Transactions : t = req[r].tx
      BY <3>1
    <3>5. C!Settle(t)
      BY <3>1, <3>2, <3>3, <3>4 DEF C!Settle
    <3>6. QED
      BY <3>5
  <2>4. ASSUME NEW r \in Requests, SettleTx(r)
        PROVE  \E t \in Transactions : C!Book(t)
    <3>1. Goes(r, "txSettle", "txTell")
      BY <2>4, GatewaySlot
    <3>2. req[r].tx \in Transactions /\ req[r].tx \in settled /\ tx[req[r].tx] # "none"
      BY <2>0, <3>1 DEF Goes, Relies
    <3>3. tx' = [tx EXCEPT ![req[r].tx] = "COMPLETED"] /\ UNCHANGED <<settled, announced>>
      BY <2>4 DEF SettleTx
    <3>4. booked' = booked \cup {req[r].tx} /\ opened' = opened
      BY <2>0, <3>2, <3>3
    <3>5. PICK t \in Transactions : t = req[r].tx
      BY <3>2
    <3>6. C!Book(t)
      BY <3>2, <3>3, <3>4, <3>5 DEF C!Book
    <3>7. QED
      BY <3>6
  <2>5. ASSUME NEW r \in Requests, TellTx(r)
        PROVE  \E t \in Transactions : C!Tell(t)
    <3>1. Goes(r, "txTell", "idle")
      BY <2>5, GatewaySlot
    <3>2. req[r].tx \in Transactions /\ tx[req[r].tx] = "COMPLETED"
      BY <2>0, <3>1 DEF Goes, Relies
    <3>3. /\ announced' = [announced EXCEPT ![req[r].tx] = announced[req[r].tx] + 1]
          /\ UNCHANGED <<tx, settled>>
      BY <2>5 DEF TellTx, Told
    <3>4. told' = told \cup {req[r].tx}
      BY <2>0, <3>2, <3>3
    <3>5. PICK t \in Transactions : t = req[r].tx
      BY <3>2
    <3>6. C!Tell(t)
      BY <3>2, <3>3, <3>4, <3>5 DEF C!Tell
    <3>7. QED
      BY <3>6
  <2>6. ASSUME NEW r \in Requests, GatewayStep(r)
        PROVE  \/ \E t \in Transactions :
                     C!Open(t) \/ C!Settle(t) \/ C!Book(t) \/ C!Tell(t)
               \/ UNCHANGED <<tx, settled, announced>>
    <3>1. AskProvider(r) \/ ForceTx(r) => UNCHANGED <<tx, announced>>
      BY DEF AskProvider, ForceTx
    <3>2. CASE AskProvider(r) \/ ForceTx(r)
      <4>1. CASE settled' = settled
        BY <3>1, <3>2, <4>1
      <4>2. CASE settled' # settled
        BY <2>3, <3>2, <4>2
      <4>3. QED
        BY <4>1, <4>2
    <3>3. CASE CreateTx(r)
      BY <2>2, <3>3
    <3>4. CASE SettleTx(r)
      BY <2>4, <3>4
    <3>5. CASE TellTx(r)
      BY <2>5, <3>5
    <3>6. QED
      BY <2>6, <3>2, <3>3, <3>4, <3>5 DEF GatewayStep
  <2>7. ASSUME NEW r \in Requests, GatewayFault(r)
        PROVE  UNCHANGED <<tx, settled, announced>>
    BY <2>7 DEF GatewayFault, gatewayVars
  <2>8. ASSUME NEW r \in Requests, NEW t \in Transactions,
               InitiatePayment(r, t) \/ CheckStatus(r, t) \/ Simulate(r, t)
        PROVE  UNCHANGED <<tx, settled, announced>>
    BY <2>8 DEF InitiatePayment, CheckStatus, Simulate
  <2>9. CASE Restart
    BY <2>1, <2>9 DEF Restart, GatewayRestart
  <2>10. CASE GatewayRests
    BY <2>1, <2>10 DEF GatewayRests, gatewayVars
  <2>11. QED
    BY <2>1, <2>6, <2>7, <2>8, <2>9, <2>10, GatewayAlone DEF GatewayNext
<1>3. QED
  BY Types, Books, <1>1, <1>2, PTL DEF Spec, GatewayIsCharge, C!Spec

-----------------------------------------------------------------------------
(* How often a completion is announced. *)

LEMMA AboutIs == \A t, r : r \in About(t) <=> /\ r \in Requests
                                             /\ req[r].pc \in AskSteps
                                             /\ req[r].tx = t
  BY DEF About, Busy

\* The handlers at work on a charge, when one of the gateway's moves.
LEMMA AboutMoves ==
    ASSUME NEW r \in Requests, NEW t, NEW from, NEW to
    PROVE  /\ Goes(r, from, to) /\ from \in AskSteps /\ to \in AskSteps => About(t)' = About(t)
           /\ Goes(r, from, "idle") /\ req[r].tx = t => About(t)' = About(t) \ {r}
           /\ Goes(r, from, "idle") /\ req[r].tx # t => About(t)' = About(t)
           /\ Starts(r, "txCreate", from) => About(t)' = About(t)
           /\ Starts(r, to, from) /\ from # t => About(t)' = About(t)
           /\ Starts(r, to, t) => About(t)' \subseteq About(t) \cup {r}
<1>0. "idle" \notin AskSteps /\ "txCreate" \notin AskSteps
  BY DEF AskSteps
<1>1. QED
  BY <1>0 DEF About, Busy, Goes, Starts

\* A completion is announced, will be, or died with the process; and without a
\* reason to be announced twice it has one handler at a time, and none after.
Telling(t) ==
    tx[t] = "COMPLETED" /\ announced[t] = 0 =>
        "crash" \in txNotes[t] \/ \E r \in About(t) : req[r].pc = "txTell"

Single(t) ==
    {"overlap", "again"} \cap txNotes[t] = {} =>
        /\ \A q, r \in About(t) : q = r
        /\ announced[t] <= 1
        /\ announced[t] = 1 => About(t) = {}

CInv == \A t \in Transactions : Telling(t) /\ Single(t)

LEMMA CInvStep == TInv /\ GInv /\ CInv /\ [Next]_vars => CInv'
<1> SUFFICES ASSUME TInv, GInv, CInv, [Next]_vars, NEW t \in Transactions
             PROVE  Telling(t)' /\ Single(t)'
  BY DEF CInv
<1>0. /\ {"txAsk", "txForce", "txSettle", "txTell"} = AskSteps
      /\ \A q \in About(t) : q \in Requests /\ req[q].pc \in AskSteps /\ req[q].tx = t
      /\ tx \in [Transactions -> {"none", "PENDING", "COMPLETED"}]
      /\ announced \in [Transactions -> Nat]
      /\ txNotes \in [Transactions -> SUBSET TxNotes]
      /\ Telling(t) /\ Single(t)
      /\ announced[t] > 0 => tx[t] = "COMPLETED"
  BY AboutIs DEF TInv, GatewayTypeOK, AskSteps, CInv, GInv, BooksOK
<1>1. ASSUME tx'[t] = tx[t] \/ tx'[t] # "COMPLETED", announced'[t] = announced[t],
             txNotes'[t] = txNotes[t], About(t)' \subseteq About(t),
             \A q \in About(t) : req[q].pc = "txTell" => q \in About(t)' /\ req'[q].pc = "txTell"
      PROVE  Telling(t)' /\ Single(t)'
  BY <1>0, <1>1 DEF Telling, Single
<1>2. CASE GatewayRests
  <2>1. About(t)' = About(t) /\ \A q \in About(t) : req'[q] = req[q]
    BY <1>2 DEF GatewayRests, About, Busy, GatewaySteps
  <2>2. QED
    BY <1>1, <1>2, <2>1 DEF GatewayRests, gatewayVars
<1>3. CASE Restart
  <2>1. /\ \A q \in Requests : req'[q].pc = "idle"
        /\ UNCHANGED <<tx, announced>>
        /\ txNotes'[t] = IF \E r \in About(t) : req[r].pc = "txTell"
                         THEN txNotes[t] \cup {"crash"} ELSE txNotes[t]
    BY <1>3, PcOf DEF Restart, GatewayRestart
  <2>2. About(t)' = {}
    BY <1>0, <2>1 DEF About, Busy
  <2>3. Telling(t)'
    BY <1>0, <2>1 DEF Telling
  <2>4. Single(t)'
    BY <1>0, <2>1, <2>2 DEF Single
  <2>5. QED
    BY <2>3, <2>4
<1>4. ASSUME NEW r \in Requests, NEW from \in {"txCreate", "txAsk", "txSettle"},
             Goes(r, from, "idle"), UNCHANGED <<announced, txNotes>>,
             tx'[t] = tx[t] \/ tx'[t] # "COMPLETED"
      PROVE  Telling(t)' /\ Single(t)'
  <2>1. About(t)' = About(t) \/ About(t)' = About(t) \ {r}
    BY <1>4, AboutMoves
  <2>2. \A q \in About(t) : req[q].pc = "txTell" => q # r /\ req'[q] = req[q]
    BY <1>0, <1>4 DEF Goes
  <2>3. QED
    BY <1>1, <1>4, <2>1, <2>2
<1>5. ASSUME NEW r \in Requests, CreateTx(r)
      PROVE  Telling(t)' /\ Single(t)'
  <2>1. tx'[t] = tx[t] \/ tx'[t] # "COMPLETED"
    BY <1>0, <1>5 DEF CreateTx
  <2>2. QED
    BY <1>4, <1>5, <2>1, GatewaySlot DEF CreateTx
<1>6. ASSUME NEW r \in Requests, AskProvider(r) \/ ForceTx(r)
      PROVE  Telling(t)' /\ Single(t)'
  <2>1. UNCHANGED <<tx, announced, txNotes>>
    BY <1>6 DEF AskProvider, ForceTx
  <2>2. CASE Goes(r, "txAsk", "idle")
    BY <1>4, <2>1, <2>2
  <2>3. CASE Goes(r, "txAsk", "txSettle") \/ Goes(r, "txForce", "txSettle")
    <3>1. About(t)' = About(t)
      BY <1>0, <2>3, AboutMoves
    <3>2. \A q \in About(t) : req[q].pc = "txTell" => req'[q] = req[q]
      BY <1>0, <2>3 DEF Goes
    <3>3. QED
      BY <1>1, <2>1, <3>1, <3>2
  <2>4. QED
    BY <1>6, <2>2, <2>3, GatewaySlot
<1>7. ASSUME NEW r \in Requests, SettleTx(r)
      PROVE  Telling(t)' /\ Single(t)'
  <2>1. Goes(r, "txSettle", "txTell")
    BY <1>7, GatewaySlot
  <2>2. tx' = [tx EXCEPT ![req[r].tx] = "COMPLETED"] /\ UNCHANGED <<announced, txNotes>>
    BY <1>7 DEF SettleTx
  <2>3. About(t)' = About(t)
    BY <1>0, <2>1, AboutMoves
  <2>4. Single(t)'
    BY <1>0, <2>2, <2>3 DEF Single
  <2>5. CASE req[r].tx = t
    <3>1. r \in About(t) /\ req'[r].pc = "txTell"
      BY <1>0, <2>1, <2>5, AboutIs DEF Goes
    <3>2. QED
      BY <2>3, <2>4, <3>1 DEF Telling
  <2>6. CASE req[r].tx # t
    <3>1. tx'[t] = tx[t]
      BY <1>0, <2>2, <2>6
    <3>2. \A q \in About(t) : req'[q] = req[q]
      BY <1>0, <2>1, <2>6 DEF Goes
    <3>3. QED
      BY <1>1, <2>2, <2>3, <3>1, <3>2
  <2>7. QED
    BY <2>5, <2>6
<1>8. ASSUME NEW r \in Requests, TellTx(r)
      PROVE  Telling(t)' /\ Single(t)'
  <2>1. Goes(r, "txTell", "idle")
    BY <1>8, GatewaySlot
  <2>2. /\ announced' = [announced EXCEPT ![req[r].tx] = announced[req[r].tx] + 1]
        /\ UNCHANGED <<tx, txNotes>>
    BY <1>8 DEF TellTx, Told
  <2>3. CASE req[r].tx = t
    <3>1. announced'[t] = announced[t] + 1 /\ announced[t] \in Nat
      BY <1>0, <2>2, <2>3
    <3>2. About(t)' = About(t) \ {r} /\ r \in About(t)
      BY <1>0, <2>1, <2>3, AboutMoves, AboutIs DEF Goes
    <3>3. Telling(t)'
      BY <3>1 DEF Telling
    <3>4. Single(t)'
      BY <1>0, <2>2, <3>1, <3>2 DEF Single
    <3>5. QED
      BY <3>3, <3>4
  <2>4. CASE req[r].tx # t
    <3>1. announced'[t] = announced[t]
      BY <1>0, <2>2, <2>4
    <3>2. About(t)' = About(t)
      BY <2>1, <2>4, AboutMoves
    <3>3. \A q \in About(t) : req'[q] = req[q]
      BY <1>0, <2>1, <2>4 DEF Goes
    <3>4. QED
      BY <1>1, <2>2, <3>1, <3>2, <3>3
  <2>5. QED
    BY <2>3, <2>4
<1>9. ASSUME NEW r \in Requests, GatewayFault(r)
      PROVE  Telling(t)' /\ Single(t)'
  BY <1>4, <1>9, GatewaySlot DEF GatewayFault, gatewayVars
<1>10. ASSUME NEW r \in Requests, NEW x \in Transactions, InitiatePayment(r, x)
       PROVE  Telling(t)' /\ Single(t)'
  <2>1. Starts(r, "txCreate", x) /\ UNCHANGED <<tx, announced, txNotes>>
    BY <1>10, GatewaySlot DEF InitiatePayment
  <2>2. About(t)' = About(t) /\ \A q \in About(t) : req'[q] = req[q]
    <3>1. About(t)' = About(t)
      BY <2>1, AboutMoves
    <3>2. "idle" \notin AskSteps
      BY <1>0
    <3>3. QED
      BY <1>0, <2>1, <3>1, <3>2 DEF Starts
  <2>3. QED
    BY <1>1, <2>1, <2>2
<1>11. ASSUME NEW r \in Requests, NEW x \in Transactions, CheckStatus(r, x) \/ Simulate(r, x)
       PROVE  Telling(t)' /\ Single(t)'
  <2>1. /\ Starts(r, "txAsk", x) \/ Starts(r, "txForce", x)
        /\ UNCHANGED <<tx, announced>>
    BY <1>11, GatewaySlot DEF CheckStatus, Simulate
  <2>2. \A q \in About(t) : req'[q] = req[q]
    <3>1. "idle" \notin AskSteps
      BY <1>0
    <3>2. QED
      BY <1>0, <2>1, <3>1 DEF Starts
  <2>3. CASE x # t
    <3>1. About(t)' = About(t)
      BY <2>1, <2>3, AboutMoves
    <3>2. txNotes'[t] = txNotes[t]
      BY <1>0, <1>11, <2>3 DEF CheckStatus, Simulate, NoteTx
    <3>3. QED
      BY <1>1, <2>1, <2>2, <3>1, <3>2
  <2>4. CASE x = t
    <3>1. /\ txNotes[t] \subseteq txNotes'[t]
          /\ About(t) # {} => "overlap" \in txNotes'[t]
          /\ tx[t] = "COMPLETED" => "again" \in txNotes'[t]
      <4>1. CASE CheckStatus(r, x)
        BY <1>0, <2>4, <4>1 DEF CheckStatus, NoteTx
      <4>2. CASE Simulate(r, x)
        BY <1>0, <2>4, <4>2 DEF Simulate
      <4>3. QED
        BY <1>11, <4>1, <4>2
    <3>2. About(t)' \subseteq About(t) \cup {r}
      BY <2>1, <2>4, AboutMoves
    <3>3. Single(t)'
      <4>1. SUFFICES ASSUME {"overlap", "again"} \cap txNotes'[t] = {}
                     PROVE  /\ \A q, p \in About(t)' : q = p
                            /\ announced'[t] = 0
        BY DEF Single
      <4>2. About(t) = {} /\ tx[t] # "COMPLETED"
        BY <3>1, <4>1
      <4>3. QED
        BY <1>0, <2>1, <3>2, <4>2
    <3>4. Telling(t)'
      <4>1. \A q \in About(t) : q \in About(t)'
        BY <1>0, <2>2, AboutIs DEF About, Busy
      <4>2. QED
        BY <1>0, <2>1, <2>2, <3>1, <4>1 DEF Telling
    <3>5. QED
      BY <3>3, <3>4
  <2>5. QED
    BY <2>3, <2>4
<1>12. QED
  BY <1>2, <1>3, <1>5, <1>6, <1>7, <1>8, <1>9, <1>10, <1>11, GatewayAlone
     DEF GatewayNext, GatewayStep

\* However many polls find a charge paid, checkStatus and simulateComplete announce
\* its completion once, unless two handlers of one charge overlapped, it was
\* completed again by hand, or the process died before the announcement.
THEOREM AnnouncedOnce == Spec => []CompletionAnnounced
<1>1. Init => CInv
  <2>1. Init => \A t \in Transactions : About(t) = {}
    BY PcOf DEF Init, HandlersInit, About, Busy, AskSteps
  <2>2. QED
    BY <2>1 DEF Init, GatewayInit, CInv, Telling, Single
<1>2. Spec => []CInv
  BY Types, Books, <1>1, CInvStep, PTL DEF Spec
<1>3. TInv /\ CInv => CompletionAnnounced
  <2> SUFFICES ASSUME TInv, CInv, NEW t \in Transactions, About(t) = {}, tx[t] = "COMPLETED"
               PROVE  /\ announced[t] = 0 => "crash" \in txNotes[t]
                      /\ announced[t] > 1 => {"overlap", "again"} \cap txNotes[t] # {}
    BY DEF CompletionAnnounced
  <2>1. announced[t] \in Nat /\ Telling(t) /\ Single(t)
    BY DEF TInv, GatewayTypeOK, CInv
  <2>2. QED
    BY <2>1 DEF Telling, Single
<1>4. QED
  BY Types, <1>2, <1>3, PTL

-----------------------------------------------------------------------------
(* What the provider has forgotten. *)

\* A handler that declares a charge paid was started by hand; one that books a
\* charge has asked a provider that knew it, since the last restart, or was too.
ByHand(r) ==
    LET t == req[r].tx IN
    /\ req[r].pc = "txForce" => "by hand" \in txNotes[t]
    /\ req[r].pc = "txSettle" /\ provider[t] = "lost" => "by hand" \in txNotes[t]

FInv == \A r \in Requests : req[r].pc \in GatewaySteps => ByHand(r)

LEMMA FInvStep == TInv /\ GInv /\ FInv /\ [Next]_vars => FInv'
<1> SUFFICES ASSUME TInv, GInv, FInv, [Next]_vars PROVE FInv'
  OBVIOUS
<1>0. /\ {"txCreate", "txAsk", "txForce", "txSettle", "txTell"} = GatewaySteps
      /\ "idle" \notin GatewaySteps
      /\ \A q \in Requests : req[q].pc \in GatewaySteps =>
            req[q].tx \in Transactions /\ ByHand(q) /\ Relies(q)
      /\ provider \in [Transactions -> {"unused", "PENDING", "COMPLETED", "lost"}]
      /\ txNotes \in [Transactions -> SUBSET TxNotes]
  BY GatewayKind DEF TInv, ReqOK, GatewayTypeOK, GatewaySteps, AskSteps, FInv, GInv
\* A slot that is left alone, when no charge is forgotten meanwhile.
<1>1. ASSUME NEW q \in Requests, req'[q] = req[q], req[q].pc \in GatewaySteps,
             txNotes[req[q].tx] \subseteq txNotes'[req[q].tx],
             provider'[req[q].tx] = "lost" => provider[req[q].tx] = "lost"
      PROVE  ByHand(q)'
  BY <1>0, <1>1 DEF ByHand
<1>2. CASE GatewayRests
  <2>1. ASSUME NEW q \in Requests, req'[q].pc \in GatewaySteps
        PROVE  ByHand(q)'
    BY <1>1, <1>2, <2>1 DEF GatewayRests, gatewayVars
  <2>2. QED
    BY <2>1 DEF FInv
<1>3. CASE Restart
  <2>1. \A q \in Requests : req'[q].pc = "idle"
    BY <1>3, PcOf DEF Restart
  <2>2. QED
    BY <1>0, <2>1 DEF FInv
<1>4. ASSUME GatewayNext
      PROVE  \A t \in Transactions : /\ txNotes[t] \subseteq txNotes'[t]
                                     /\ provider'[t] = "lost" => provider[t] = "lost"
  <2>1. CASE UNCHANGED gatewayVars
    BY <2>1 DEF gatewayVars
  <2>2. ASSUME NEW r \in Requests, GatewayStep(r)
        PROVE  \A t \in Transactions : /\ txNotes[t] \subseteq txNotes'[t]
                                       /\ provider'[t] = "lost" => provider[t] = "lost"
    BY <1>0, <2>2 DEF GatewayStep, CreateTx, AskProvider, SettleTx, TellTx, ForceTx
  <2>3. ASSUME NEW r \in Requests, NEW x \in Transactions,
               InitiatePayment(r, x) \/ CheckStatus(r, x) \/ Simulate(r, x)
        PROVE  \A t \in Transactions : /\ txNotes[t] \subseteq txNotes'[t]
                                       /\ provider'[t] = "lost" => provider[t] = "lost"
    <3>1. CASE InitiatePayment(r, x)
      BY <1>0, <3>1 DEF InitiatePayment
    <3>2. CASE CheckStatus(r, x)
      BY <1>0, <3>2 DEF CheckStatus, NoteTx
    <3>3. CASE Simulate(r, x)
      BY <1>0, <3>3 DEF Simulate
    <3>4. QED
      BY <2>3, <3>1, <3>2, <3>3
  <2>4. ASSUME NEW r \in Requests, GatewayFault(r)
        PROVE  UNCHANGED gatewayVars
    BY <2>4 DEF GatewayFault
  <2>5. QED
    BY <1>4, <2>1, <2>2, <2>3, <2>4 DEF GatewayNext
<1>5. ASSUME GatewayNext, NEW r \in Requests, \A q \in Requests \ {r} : req'[q] = req[q],
             req'[r].pc \in GatewaySteps => ByHand(r)'
      PROVE  FInv'
  <2>1. ASSUME NEW q \in Requests, req'[q].pc \in GatewaySteps
        PROVE  ByHand(q)'
    <3>1. CASE q = r
      BY <1>5, <2>1, <3>1
    <3>2. CASE q # r
      <4>1. req'[q] = req[q] /\ req[q].pc \in GatewaySteps /\ req[q].tx \in Transactions
        BY <1>0, <1>5, <2>1, <3>2
      <4>2. QED
        BY <1>1, <1>4, <1>5, <4>1
    <3>3. QED
      BY <3>1, <3>2
  <2>2. QED
    BY <2>1 DEF FInv
<1>6. ASSUME GatewayNext, NEW r \in Requests, GatewayStep(r) \/ GatewayFault(r)
      PROVE  FInv'
  <2>1. CASE \E from \in GatewaySteps : Goes(r, from, "idle")
    BY <1>0, <1>5, <1>6, <2>1 DEF Goes
  <2>2. CASE SettleTx(r)
    <3>1. Goes(r, "txSettle", "txTell")
      BY <2>2, GatewaySlot
    <3>2. QED
      BY <1>5, <1>6, <3>1 DEF Goes, ByHand
  <2>3. CASE ForceTx(r)
    <3>1. Goes(r, "txForce", "txSettle") /\ txNotes' = txNotes
      BY <2>3, GatewaySlot DEF ForceTx
    <3>2. ByHand(r)
      BY <1>0, <3>1 DEF Goes
    <3>3. QED
      BY <1>5, <1>6, <3>1, <3>2 DEF Goes, ByHand
  <2>4. CASE AskProvider(r) /\ Goes(r, "txAsk", "txSettle")
    <3>1. Known(req[r].tx) /\ req[r].tx \in Transactions
      BY <2>4, GatewaySlot DEF Goes
    <3>2. provider[req[r].tx] # "lost"
      BY <3>1 DEF Known
    <3>3. provider'[req[r].tx] # "lost"
      BY <1>4, <1>6, <3>1, <3>2
    <3>4. QED
      BY <1>5, <1>6, <2>4, <3>3 DEF Goes, ByHand
  <2>5. QED
    BY <1>0, <1>6, <2>1, <2>2, <2>3, <2>4, GatewaySlot DEF GatewayStep
<1>7. ASSUME GatewayNext, NEW r \in Requests, NEW x \in Transactions,
             InitiatePayment(r, x) \/ CheckStatus(r, x) \/ Simulate(r, x)
      PROVE  FInv'
  <2>1. CASE Starts(r, "txCreate", x) \/ Starts(r, "txAsk", x)
    BY <1>5, <1>7, <2>1 DEF Starts, ByHand
  <2>2. CASE Simulate(r, x)
    <3>1. Starts(r, "txForce", x)
      BY <2>2, GatewaySlot
    <3>2. "by hand" \in txNotes'[x]
      BY <1>0, <2>2 DEF Simulate
    <3>3. QED
      BY <1>5, <1>7, <3>1, <3>2 DEF Starts, ByHand
  <2>3. QED
    BY <1>7, <2>1, <2>2, GatewaySlot
<1>8. QED
  BY <1>2, <1>3, <1>6, <1>7, GatewayAlone DEF GatewayNext

\* After a restart MockPaymentProvider no longer knows a pending charge, and
\* checkStatus never completes it, whatever polls, faults and restarts follow:
\* only simulateComplete does.
THEOREM ForgottenPends == Spec => ForgottenStaysPending
<1>1. Init => FInv
  BY PcOf DEF Init, HandlersInit, FInv, GatewaySteps, AskSteps
<1>2. Spec => []FInv
  BY Types, Books, <1>1, FInvStep, PTL DEF Spec
<1>3. TInv /\ GInv /\ FInv /\ [Next]_vars =>
         [\A t \in Transactions :
            (provider[t] = "lost" /\ tx[t] = "PENDING" /\ tx'[t] = "COMPLETED")
                => "by hand" \in txNotes[t]]_gatewayVars
  <2> SUFFICES ASSUME TInv, GInv, FInv, [Next]_vars, NEW t \in Transactions,
                      provider[t] = "lost", tx[t] = "PENDING", tx'[t] = "COMPLETED"
               PROVE  "by hand" \in txNotes[t]
    OBVIOUS
  <2>0. tx \in [Transactions -> {"none", "PENDING", "COMPLETED"}]
    BY DEF TInv, GatewayTypeOK
  <2>1. ASSUME NEW r \in Requests, SettleTx(r)
        PROVE  "by hand" \in txNotes[t]
    <3>1. Goes(r, "txSettle", "txTell") /\ tx' = [tx EXCEPT ![req[r].tx] = "COMPLETED"]
      BY <2>1, GatewaySlot DEF SettleTx
    <3>2. req[r].tx = t
      BY <2>0, <3>1
    <3>3. req[r].pc \in GatewaySteps /\ req[r].pc = "txSettle"
      BY <3>1 DEF Goes, GatewaySteps, AskSteps
    <3>4. QED
      BY <3>2, <3>3 DEF FInv, ByHand
  <2>2. ASSUME NEW r \in Requests, GatewayStep(r), ~ SettleTx(r)
        PROVE  FALSE
    BY <2>0, <2>2 DEF GatewayStep, CreateTx, AskProvider, TellTx, ForceTx
  <2>3. ASSUME GatewayNext, \A r \in Requests : ~ GatewayStep(r)
        PROVE  tx' = tx
    BY <2>3 DEF GatewayNext, GatewayFault, gatewayVars, InitiatePayment, CheckStatus, Simulate
  <2>4. Restart \/ GatewayRests => tx' = tx
    BY DEF Restart, GatewayRestart, GatewayRests, gatewayVars
  <2>5. QED
    BY <2>1, <2>2, <2>3, <2>4, GatewayAlone
<1>4. QED
  BY Types, Books, <1>2, <1>3, PTL DEF Spec, ForgottenStaysPending

-----------------------------------------------------------------------------
(* The story that the announcements tell of an order: unless its writers      *)
(* overlap, the handler at work has read what was announced last and will     *)
(* announce next, and has written it when it is about to.                     *)

Before(o, k) == {j \in ToldOf(o) : j < k}

ChainOf(o) == \A k \in ToldOf(o) : Left(Before(o, k), events[k].from)

HandlersInTurn(o) ==
    /\ \A r, s \in Handling(o) : r = s
    /\ \A r \in Handling(o) :
          /\ Left(ToldOf(o), req[r].event.from)
          /\ req[r].pc # "announce" => status[o] = req[r].event.from
          /\ req[r].pc = "announce" => status[o] = req[r].event.to

InTurn(o) ==
    {"overlap", "silent"} \cap orderNotes[o] = {} =>
        /\ ChainOf(o)
        /\ HandlersInTurn(o)
        /\ Handling(o) = {} => Left(ToldOf(o), status[o])

\* Nobody works on an order that is not there yet.
NotYet(o) == status[o] = "none" => Handling(o) = {}

\* Only the kitchen keeps a status from the broker; a split keeps it from everybody.
Tellable(h) == h.pc = "splitWrite" \/ h.event.published

AllPublished(o) ==
    "kitchen" \notin orderNotes[o] =>
        /\ \A k \in ToldOf(o) : events[k].published
        /\ \A r \in Handling(o) : Tellable(req[r])

StoryOf(o) == InTurn(o) /\ NotYet(o) /\ AllPublished(o)

StoryInv == \A o \in Orders : StoryOf(o)

\* What was told stays as it was told.
LEMMA LeftKept ==
    ASSUME NEW P, NEW s, \A k \in P : events'[k] = events[k]
    PROVE  Left(P, s)' <=> Left(P, s)
  BY DEF Left

TellsAsBefore(o) ==
    /\ ToldOf(o)' = ToldOf(o)
    /\ \A k \in ToldOf(o) : events'[k] = events[k]

WorkedAsBefore(o) ==
    /\ Handling(o)' = Handling(o)
    /\ \A r \in Handling(o) : req'[r].pc = req[r].pc /\ req'[r].event = req[r].event

WorkedOn(o, r) ==
    /\ Handling(o)' = Handling(o)
    /\ req'[r].pc = "announce" /\ req'[r].event = req[r].event
    /\ \A q \in Handling(o) \ {r} : req'[q] = req[q]

LEMMA SameEventsTell ==
    ASSUME events' = events, NEW o \in Orders
    PROVE  TellsAsBefore(o)
  BY DEF TellsAsBefore, ToldOf

LEMMA ToldLeft ==
    ASSUME NEW o \in Orders, TellsAsBefore(o)
    PROVE  \A s : /\ Left(ToldOf(o), s)' <=> Left(ToldOf(o), s)
                  /\ \A k : Left(Before(o, k), s)' <=> Left(Before(o, k), s)
<1>1. ASSUME NEW P, P \subseteq ToldOf(o), NEW s
      PROVE  Left(P, s)' <=> Left(P, s)
  BY <1>1, LeftKept DEF TellsAsBefore
<1>2. ASSUME NEW s
      PROVE  Left(ToldOf(o), s)' <=> Left(ToldOf(o), s)
  <2>1. PICK P : P = ToldOf(o)
    OBVIOUS
  <2>2. P = ToldOf(o)'
    BY <2>1 DEF TellsAsBefore
  <2>3. Left(P, s)' <=> Left(P, s)
    BY <1>1, <2>1
  <2>4. Left(ToldOf(o), s)' <=> Left(P, s)'
    BY <2>2 DEF Left
  <2>5. QED
    BY <2>1, <2>3, <2>4
<1>3. ASSUME NEW s, NEW k
      PROVE  Left(Before(o, k), s)' <=> Left(Before(o, k), s)
  <2>1. PICK P : P = Before(o, k)
    OBVIOUS
  <2>2. P = Before(o, k)'
    BY <2>1 DEF TellsAsBefore, Before
  <2>3. Left(P, s)' <=> Left(P, s)
    BY <1>1, <2>1 DEF Before
  <2>4. Left(Before(o, k), s)' <=> Left(P, s)'
    BY <2>2 DEF Left
  <2>5. QED
    BY <2>1, <2>3, <2>4
<1>4. QED
  BY <1>2, <1>3

LEMMA ChainKept ==
    ASSUME NEW o \in Orders, TellsAsBefore(o), ChainOf(o)
    PROVE  ChainOf(o)'
<1> SUFFICES ASSUME NEW k \in ToldOf(o)'
             PROVE  Left(Before(o, k), events[k].from)'
  BY DEF ChainOf
<1>1. k \in ToldOf(o) /\ events'[k] = events[k]
  BY DEF TellsAsBefore
<1>2. PICK s : s = events[k].from
  OBVIOUS
<1>3. Left(Before(o, k), s)
  BY <1>1, <1>2 DEF ChainOf
<1>4. Left(Before(o, k), s)'
  BY <1>3, ToldLeft
<1>5. s = (events[k].from)'
  BY <1>1, <1>2
<1>6. QED
  BY <1>4, <1>5 DEF Left

LEMMA StoryKept ==
    ASSUME NEW o \in Orders, StoryOf(o), TellsAsBefore(o), WorkedAsBefore(o),
           status'[o] = status[o], orderNotes'[o] = orderNotes[o]
    PROVE  StoryOf(o)'
<1>1. InTurn(o)'
  <2> SUFFICES ASSUME {"overlap", "silent"} \cap orderNotes[o] = {}
               PROVE  /\ ChainOf(o)'
                      /\ HandlersInTurn(o)'
                      /\ (Handling(o) = {} => Left(ToldOf(o), status[o]))'
    BY DEF InTurn
  <2>1. ChainOf(o) /\ HandlersInTurn(o) /\ (Handling(o) = {} => Left(ToldOf(o), status[o]))
    BY DEF StoryOf, InTurn
  <2>2. ChainOf(o)'
    BY <2>1, ChainKept
  <2>3. \A s : Left(ToldOf(o), s)' <=> Left(ToldOf(o), s)
    BY ToldLeft
  <2>4. HandlersInTurn(o)'
    <3>1. ASSUME NEW r \in Handling(o)'
          PROVE  /\ Left(ToldOf(o), req[r].event.from)'
                 /\ req'[r].pc # "announce" => status'[o] = req'[r].event.from
                 /\ req'[r].pc = "announce" => status'[o] = req'[r].event.to
      <4>1. r \in Handling(o) /\ req'[r].pc = req[r].pc /\ req'[r].event = req[r].event
        BY DEF WorkedAsBefore
      <4>2. PICK s : s = req[r].event.from
        OBVIOUS
      <4>3. Left(ToldOf(o), s)'
        BY <2>1, <2>3, <4>1, <4>2 DEF HandlersInTurn
      <4>4. s = (req[r].event.from)'
        BY <4>1, <4>2
      <4>5. Left(ToldOf(o), req[r].event.from)'
        BY <4>3, <4>4 DEF Left
      <4>6. QED
        BY <2>1, <4>1, <4>5 DEF HandlersInTurn
    <3>2. QED
      BY <2>1, <3>1 DEF HandlersInTurn, WorkedAsBefore
  <2>5. (Handling(o) = {} => Left(ToldOf(o), status[o]))'
    <3>1. PICK s : s = status[o]
      OBVIOUS
    <3>2. Handling(o)' = {} => Left(ToldOf(o), s)'
      BY <2>1, <2>3, <3>1 DEF WorkedAsBefore
    <3>3. s = status[o]'
      BY <3>1
    <3>4. QED
      BY <3>2, <3>3 DEF Left
  <2>6. QED
    BY <2>2, <2>4, <2>5
<1>2. NotYet(o)' /\ AllPublished(o)'
  BY DEF StoryOf, NotYet, AllPublished, Tellable, TellsAsBefore, WorkedAsBefore
<1>3. QED
  BY <1>1, <1>2 DEF StoryOf

-----------------------------------------------------------------------------
(* Which orders a step leaves alone. *)

\* A handler of orders in a slot that had none, and its end.
LEMMA HandlingBegins ==
    ASSUME ReqOK, NEW r \in Requests, req[r].pc = "idle", NEW h \in OrderHandler,
           req' = [req EXCEPT ![r] = h], NEW o
    PROVE  /\ req'[r] = h
           /\ r \notin Handling(o)
           /\ Handling(o)' = IF o = h.event.order THEN Handling(o) \cup {r} ELSE Handling(o)
           /\ \A q \in Handling(o) : req'[q] = req[q]
<1>1. h.pc \in OrderSteps /\ h \in AnyHandler
  BY PcOf
<1>2. req'[r] = h /\ \A q \in Requests \ {r} : req'[q] = req[q]
  BY <1>1, SetSlot
<1>3. QED
  BY <1>1, <1>2 DEF Handling, Busy, OrderSteps

LEMMA HandlingEnds ==
    ASSUME ReqOK, NEW r \in Requests, req' = [req EXCEPT ![r] = Idle], NEW o
    PROVE  /\ Handling(o)' = Handling(o) \ {r}
           /\ \A q \in Handling(o) \ {r} : req'[q] = req[q]
<1>1. Idle \in AnyHandler /\ Idle.pc = "idle"
  BY PcOf
<1>2. req'[r] = Idle /\ \A q \in Requests \ {r} : req'[q] = req[q]
  BY <1>1, SetSlot
<1>3. QED
  BY <1>1, <1>2 DEF Handling, Busy, OrderSteps

LEMMA OneBeginsElsewhere ==
    ASSUME ReqOK, NEW r \in Requests, req[r].pc = "idle", NEW h \in OrderHandler,
           req' = [req EXCEPT ![r] = h], NEW o \in Orders, h.event.order # o
    PROVE  WorkedAsBefore(o)
<1>1. h.pc \in OrderSteps /\ h \in AnyHandler
  BY PcOf
<1>2. req'[r] = h /\ \A q \in Requests \ {r} : req'[q] = req[q]
  BY <1>1, SetSlot
<1>3. r \notin Handling(o) /\ r \notin Handling(o)'
  BY <1>2 DEF Handling, Busy, OrderSteps
<1>4. Handling(o)' = Handling(o)
  BY <1>2, <1>3 DEF Handling, Busy, OrderSteps
<1>5. \A q \in Handling(o) : req'[q] = req[q]
  BY <1>2, <1>3 DEF Handling, Busy, OrderSteps
<1>6. QED
  BY <1>4, <1>5 DEF WorkedAsBefore

LEMMA OneEndsElsewhere ==
    ASSUME ReqOK, NEW r \in Requests, req' = [req EXCEPT ![r] = Idle],
           NEW o \in Orders, r \notin Handling(o)
    PROVE  WorkedAsBefore(o)
<1>1. /\ Handling(o)' = Handling(o) \ {r}
      /\ \A q \in Handling(o) \ {r} : req'[q] = req[q]
  BY HandlingEnds
<1>2. Handling(o) \ {r} = Handling(o)
  OBVIOUS
<1>3. QED
  BY <1>1, <1>2 DEF WorkedAsBefore

\* The steps of the other parts.
LEMMA OthersWorkOn ==
    ASSUME Moves(LogSteps) \/ Moves(GatewaySteps), NEW o \in Orders
    PROVE  WorkedAsBefore(o)
<1>1. \A p \in OrderSteps : p \notin LogSteps \cup GatewaySteps \cup {"idle"}
  BY DEF OrderSteps, LogSteps, GatewaySteps, AskSteps
<1>2. \A q \in Requests : \/ req'[q] = req[q]
                          \/ req[q].pc \notin OrderSteps /\ req'[q].pc \notin OrderSteps
  BY <1>1 DEF Moves
<1>3. QED
  BY <1>2 DEF WorkedAsBefore, Handling, Busy, OrderSteps

\* What one handler alone says of its order, and nobody.
LEMMA OneInTurn ==
    ASSUME NEW o, NEW r, Handling(o)' = {r},
           Left(ToldOf(o), req[r].event.from)',
           req'[r].pc # "announce" => status'[o] = req'[r].event.from,
           req'[r].pc = "announce" => status'[o] = req'[r].event.to
    PROVE  HandlersInTurn(o)'
<1>1. \A q \in Handling(o)' : q = r
  OBVIOUS
<1>2. \A q \in Handling(o)' : Left(ToldOf(o), req[q].event.from)'
  BY <1>1
<1>3. QED
  BY <1>1, <1>2 DEF HandlersInTurn

LEMMA NoneInTurn ==
    ASSUME NEW o, Handling(o)' = {}
    PROVE  HandlersInTurn(o)'
  BY DEF HandlersInTurn

-----------------------------------------------------------------------------
(* The order that a step is about. *)

\* A handler begins on an order on which nobody is at work, or is noted.
LEMMA StoryBegins ==
    ASSUME ReqOK, NEW o \in Orders, StoryOf(o), NEW r \in Requests, req[r].pc = "idle",
           NEW h \in OrderHandler, req' = [req EXCEPT ![r] = h], h.event.order = o,
           events' = events, status'[o] # "none",
           Handling(o) = {} \/ "overlap" \in orderNotes'[o],
           orderNotes[o] \subseteq orderNotes'[o],
           h.event.from = status[o],
           h.pc # "announce" => status'[o] = h.event.from,
           h.pc = "announce" => status'[o] = h.event.to,
           Tellable(h) \/ "kitchen" \in orderNotes'[o]
    PROVE  StoryOf(o)'
<1>1. /\ Handling(o)' = Handling(o) \cup {r}
      /\ req'[r] = h /\ r \notin Handling(o)
      /\ \A q \in Handling(o) : req'[q] = req[q]
  BY HandlingBegins
<1>2. TellsAsBefore(o)
  BY SameEventsTell
<1>3. InTurn(o)'
  <2> SUFFICES ASSUME {"overlap", "silent"} \cap orderNotes'[o] = {}
               PROVE  /\ ChainOf(o)'
                      /\ HandlersInTurn(o)'
                      /\ (Handling(o) = {} => Left(ToldOf(o), status[o]))'
    BY DEF InTurn
  <2>1. Handling(o) = {} /\ {"overlap", "silent"} \cap orderNotes[o] = {}
    OBVIOUS
  <2>2. ChainOf(o) /\ Left(ToldOf(o), status[o])
    BY <2>1 DEF StoryOf, InTurn
  <2>3. ChainOf(o)'
    BY <1>2, <2>2, ChainKept
  <2>4. Handling(o)' = {r}
    BY <1>1, <2>1
  <2>5. PICK s : s = h.event.from
    OBVIOUS
  <2>6. Left(ToldOf(o), s)'
    BY <1>2, <2>2, <2>5, ToldLeft
  <2>7. s = (req[r].event.from)'
    BY <1>1, <2>5
  <2>8. Left(ToldOf(o), req[r].event.from)'
    BY <2>6, <2>7 DEF Left
  <2>9. HandlersInTurn(o)'
    BY <1>1, <2>4, <2>8, OneInTurn
  <2>10. QED
    BY <2>3, <2>4, <2>9
<1>4. NotYet(o)'
  BY DEF NotYet
<1>5. AllPublished(o)'
  BY <1>1, <1>2 DEF StoryOf, AllPublished, Tellable, TellsAsBefore
<1>6. QED
  BY <1>3, <1>4, <1>5 DEF StoryOf

\* A handler fails before it has written.
LEMMA StoryFails ==
    ASSUME ReqOK, NEW o \in Orders, StoryOf(o), NEW r \in Handling(o),
           req[r].pc # "announce", req' = [req EXCEPT ![r] = Idle],
           UNCHANGED orderVars
    PROVE  StoryOf(o)'
<1>0. r \in Requests
  BY DEF Handling, Busy, OrderSteps
<1>1. /\ Handling(o)' = Handling(o) \ {r}
      /\ \A q \in Handling(o) \ {r} : req'[q] = req[q]
  BY <1>0, HandlingEnds
<1>2. TellsAsBefore(o)
  BY SameEventsTell DEF orderVars
<1>3. InTurn(o)'
  <2> SUFFICES ASSUME {"overlap", "silent"} \cap orderNotes'[o] = {}
               PROVE  /\ ChainOf(o)'
                      /\ HandlersInTurn(o)'
                      /\ (Handling(o) = {} => Left(ToldOf(o), status[o]))'
    BY DEF InTurn
  <2>1. ChainOf(o) /\ HandlersInTurn(o)
    BY DEF StoryOf, InTurn, orderVars
  <2>2. ChainOf(o)'
    BY <1>2, <2>1, ChainKept
  <2>3. Handling(o)' = {}
    BY <1>1, <2>1 DEF HandlersInTurn
  <2>4. HandlersInTurn(o)'
    BY <2>3, NoneInTurn
  <2>5. PICK s : s = status[o]
    OBVIOUS
  <2>6. Left(ToldOf(o), s)
    BY <2>1, <2>5 DEF HandlersInTurn
  <2>7. Left(ToldOf(o), s)' /\ s = status[o]'
    BY <1>2, <2>5, <2>6, ToldLeft DEF orderVars
  <2>8. Left(ToldOf(o), status[o])'
    BY <2>7 DEF Left
  <2>9. QED
    BY <2>2, <2>4, <2>8
<1>4. NotYet(o)'
  BY <1>1 DEF StoryOf, NotYet, orderVars
<1>5. AllPublished(o)'
  BY <1>1, <1>2 DEF StoryOf, AllPublished, Tellable, TellsAsBefore, orderVars
<1>6. QED
  BY <1>3, <1>4, <1>5 DEF StoryOf

\* A handler writes the status that it will announce.
LEMMA StoryWrites ==
    ASSUME ReqOK, NEW o \in Orders, StoryOf(o), NEW r \in Handling(o),
           req[r].pc = "statusWrite", WorkedOn(o, r), events' = events,
           orderNotes' = orderNotes, status'[o] = req[r].event.to, status'[o] # "none"
    PROVE  StoryOf(o)'
<1>1. /\ Handling(o)' = Handling(o)
      /\ req'[r].pc = "announce" /\ req'[r].event = req[r].event
      /\ \A q \in Handling(o) \ {r} : req'[q] = req[q]
  BY DEF WorkedOn
<1>2. TellsAsBefore(o)
  BY SameEventsTell
<1>3. InTurn(o)'
  <2> SUFFICES ASSUME {"overlap", "silent"} \cap orderNotes'[o] = {}
               PROVE  /\ ChainOf(o)'
                      /\ HandlersInTurn(o)'
                      /\ (Handling(o) = {} => Left(ToldOf(o), status[o]))'
    BY DEF InTurn
  <2>1. ChainOf(o) /\ HandlersInTurn(o)
    BY DEF StoryOf, InTurn
  <2>2. ChainOf(o)'
    BY <1>2, <2>1, ChainKept
  <2>3. Handling(o)' = {r}
    BY <1>1, <2>1 DEF HandlersInTurn
  <2>4. PICK s : s = req[r].event.from
    OBVIOUS
  <2>5. Left(ToldOf(o), s)
    BY <2>1, <2>4 DEF HandlersInTurn
  <2>6. Left(ToldOf(o), s)' /\ s = (req[r].event.from)'
    BY <1>1, <1>2, <2>4, <2>5, ToldLeft
  <2>7. Left(ToldOf(o), req[r].event.from)'
    BY <2>6 DEF Left
  <2>8. HandlersInTurn(o)'
    BY <1>1, <2>3, <2>7, OneInTurn
  <2>9. QED
    BY <2>2, <2>3, <2>8
<1>4. NotYet(o)'
  BY DEF NotYet
<1>5. AllPublished(o)'
  BY <1>1, <1>2 DEF StoryOf, AllPublished, Tellable, TellsAsBefore
<1>6. QED
  BY <1>3, <1>4, <1>5 DEF StoryOf

\* A handler announces what it wrote.
LEMMA StoryAnnounced ==
    ASSUME TInv, NEW o \in Orders, StoryOf(o), NEW r \in Handling(o),
           req[r].pc = "announce", req' = [req EXCEPT ![r] = Idle],
           events' = Append(events, req[r].event), UNCHANGED <<status, orderNotes>>
    PROVE  StoryOf(o)'
<1> DEFINE n == Len(events) + 1
<1>0. r \in Requests /\ ReqOK
  BY DEF Handling, Busy, OrderSteps, TInv
<1>1. /\ Handling(o)' = Handling(o) \ {r}
      /\ \A q \in Handling(o) \ {r} : req'[q] = req[q]
  BY <1>0, HandlingEnds
<1>2. PICK e : e = req[r].event
  OBVIOUS
<1>3. e \in Event /\ e.order = o
  <2>1. req[r] \in AnyHandler /\ req[r].pc \in OrderSteps
    BY <1>0 DEF ReqOK, OrderSteps
  <2>2. QED
    BY <1>2, <2>1, OrderKind DEF Handling
<1>4. events \in Seq(Event)
  BY DEF TInv, OrderTypeOK
<1>5. /\ n \in Nat /\ DOMAIN events = 1..(n - 1) /\ DOMAIN events' = 1..n
      /\ events'[n] = e
      /\ \A k \in 1..(n - 1) : events'[k] = events[k]
  BY <1>2, <1>3, <1>4
<1> HIDE DEF n
<1>6. /\ ToldOf(o)' = ToldOf(o) \cup {n}
      /\ ToldOf(o) \subseteq 1..(n - 1)
      /\ \A k \in ToldOf(o) : events'[k] = events[k]
  <2>1. \A k : k \in 1..n <=> k \in 1..(n - 1) \/ k = n
    BY <1>5
  <2>2. ASSUME NEW k
        PROVE  k \in ToldOf(o)' <=> k \in ToldOf(o) \cup {n}
    <3>1. k \in ToldOf(o)' <=> k \in 1..n /\ events'[k].order = o
      BY <1>5 DEF ToldOf
    <3>2. k \in ToldOf(o) <=> k \in 1..(n - 1) /\ events[k].order = o
      BY <1>5 DEF ToldOf
    <3>3. QED
      BY <1>3, <1>5, <2>1, <3>1, <3>2
  <2>3. ToldOf(o)' = ToldOf(o) \cup {n}
    BY <2>2
  <2>4. ToldOf(o) \subseteq 1..(n - 1)
    BY <1>5 DEF ToldOf
  <2>5. QED
    BY <1>5, <2>3, <2>4
<1>7. ASSUME NEW P, P \subseteq ToldOf(o), NEW s
      PROVE  Left(P, s)' <=> Left(P, s)
  BY <1>6, <1>7, LeftKept
<1>8. InTurn(o)'
  <2> SUFFICES ASSUME {"overlap", "silent"} \cap orderNotes'[o] = {}
               PROVE  /\ ChainOf(o)'
                      /\ HandlersInTurn(o)'
                      /\ (Handling(o) = {} => Left(ToldOf(o), status[o]))'
    BY DEF InTurn
  <2>1. ChainOf(o) /\ HandlersInTurn(o)
    BY DEF StoryOf, InTurn
  <2>2. Left(ToldOf(o), e.from) /\ status[o] = e.to
    BY <1>2, <2>1 DEF HandlersInTurn
  <2>3. ASSUME NEW k \in ToldOf(o)'
        PROVE  Left(Before(o, k), events[k].from)'
    <3>1. CASE k = n
      <4>1. PICK P : P = ToldOf(o)
        OBVIOUS
      <4>2. P = Before(o, k)'
        BY <1>5, <1>6, <3>1, <4>1 DEF Before
      <4>3. PICK s : s = e.from
        OBVIOUS
      <4>4. Left(P, s)'
        BY <1>7, <2>2, <4>1, <4>3
      <4>5. s = (events[k].from)'
        BY <1>5, <3>1, <4>3
      <4>6. QED
        BY <4>2, <4>4, <4>5 DEF Left
    <3>2. CASE k # n
      <4>1. k \in ToldOf(o) /\ events'[k] = events[k]
        BY <1>6, <3>2
      <4>2. PICK P : P = Before(o, k)
        OBVIOUS
      <4>3. P = Before(o, k)'
        BY <1>5, <1>6, <4>1, <4>2 DEF Before
      <4>4. PICK s : s = events[k].from
        OBVIOUS
      <4>5. P \subseteq ToldOf(o)
        BY <4>2 DEF Before
      <4>6. Left(P, s)'
        BY <1>7, <2>1, <4>1, <4>2, <4>4, <4>5 DEF ChainOf
      <4>7. s = (events[k].from)'
        BY <4>1, <4>4
      <4>8. QED
        BY <4>3, <4>6, <4>7 DEF Left
    <3>3. QED
      BY <3>1, <3>2
  <2>4. ChainOf(o)'
    BY <2>3 DEF ChainOf
  <2>5. Handling(o)' = {}
    BY <1>1, <2>1 DEF HandlersInTurn
  <2>6. HandlersInTurn(o)'
    BY <2>5, NoneInTurn
  <2>7. Left(ToldOf(o), status[o])'
    <3>1. n \in ToldOf(o)' /\ \A j \in ToldOf(o)' : j <= n
      BY <1>5, <1>6
    <3>2. events'[n].to = status'[o]
      BY <1>5, <2>2
    <3>3. QED
      BY <3>1, <3>2 DEF Left
  <2>8. QED
    BY <2>4, <2>6, <2>7
<1>9. NotYet(o)'
  BY <1>1 DEF StoryOf, NotYet
<1>10. AllPublished(o)'
  <2> SUFFICES ASSUME "kitchen" \notin orderNotes'[o]
               PROVE  /\ \A k \in ToldOf(o)' : events'[k].published
                      /\ \A q \in Handling(o)' : Tellable(req'[q])
    BY DEF AllPublished, Tellable
  <2>1. /\ \A k \in ToldOf(o) : events[k].published
        /\ \A q \in Handling(o) : Tellable(req[q])
    BY DEF StoryOf, AllPublished, Tellable
  <2>2. e.published
    BY <1>2, <2>1 DEF Tellable
  <2>3. QED
    BY <1>1, <1>5, <1>6, <2>1, <2>2
<1>11. QED
  BY <1>8, <1>9, <1>10 DEF StoryOf

\* The other orders.
LEMMA NotToldOf ==
    ASSUME TInv, NEW e \in Event, events' = Append(events, e), NEW o \in Orders,
           e.order # o
    PROVE  TellsAsBefore(o)
<1>1. events \in Seq(Event)
  BY DEF TInv, OrderTypeOK
<1> DEFINE n == Len(events) + 1
<1>2. /\ n \in Nat /\ DOMAIN events = 1..(n - 1) /\ DOMAIN events' = 1..n
      /\ events'[n] = e
      /\ \A k \in 1..(n - 1) : events'[k] = events[k]
  BY <1>1
<1> HIDE DEF n
<1>3. DOMAIN events' = DOMAIN events \cup {n} /\ \A k \in DOMAIN events : events'[k] = events[k]
  BY <1>2
<1>4. ASSUME NEW k
      PROVE  k \in ToldOf(o)' <=> k \in ToldOf(o)
  <2>1. k \in ToldOf(o)' <=> k \in DOMAIN events' /\ events'[k].order = o
    BY DEF ToldOf
  <2>2. k \in ToldOf(o) <=> k \in DOMAIN events /\ events[k].order = o
    BY DEF ToldOf
  <2>3. QED
    BY <1>2, <1>3, <2>1, <2>2
<1>5. ToldOf(o)' = ToldOf(o)
  BY <1>4
<1>6. \A k \in ToldOf(o) : events'[k] = events[k]
  BY <1>3 DEF ToldOf
<1>7. QED
  BY <1>5, <1>6 DEF TellsAsBefore

\* A status that nobody is told of.
LEMMA StorySilent ==
    ASSUME NEW o \in Orders, StoryOf(o), UNCHANGED <<req, events>>,
           status'[o] # "none", "silent" \in orderNotes'[o],
           orderNotes[o] \subseteq orderNotes'[o]
    PROVE  StoryOf(o)'
<1>1. TellsAsBefore(o) /\ WorkedAsBefore(o)
  BY SameEventsTell DEF WorkedAsBefore, Handling, Busy, OrderSteps
<1>2. InTurn(o)' /\ NotYet(o)'
  BY DEF InTurn, NotYet
<1>3. AllPublished(o)'
  BY <1>1 DEF StoryOf, AllPublished, Tellable, TellsAsBefore, WorkedAsBefore
<1>4. QED
  BY <1>2, <1>3 DEF StoryOf

\* The orders that a split writes, nobody is told of.
LEMMA StorySplit ==
    ASSUME ReqOK, NEW o \in Orders, StoryOf(o), NEW r \in Requests,
           req' = [req EXCEPT ![r] = Idle], events' = events,
           status'[o] # "none" \/ status[o] = "none",
           "silent" \in orderNotes'[o], orderNotes[o] \subseteq orderNotes'[o]
    PROVE  StoryOf(o)'
<1>1. /\ Handling(o)' = Handling(o) \ {r}
      /\ \A q \in Handling(o) \ {r} : req'[q] = req[q]
  BY HandlingEnds
<1>2. TellsAsBefore(o)
  BY SameEventsTell
<1>3. InTurn(o)'
  BY DEF InTurn
<1>4. NotYet(o)'
  BY <1>1 DEF StoryOf, NotYet
<1>5. AllPublished(o)'
  BY <1>1, <1>2 DEF StoryOf, AllPublished, TellsAsBefore
<1>6. QED
  BY <1>3, <1>4, <1>5 DEF StoryOf

\* A restart forgets the handlers, and is noted when one had written.
LEMMA StoryRestarts ==
    ASSUME TInv, NEW o \in Orders, StoryOf(o), req' = [r \in Requests |-> Idle],
           OrderRestart
    PROVE  StoryOf(o)'
<1>1. Handling(o)' = {}
  BY PcOf DEF Handling, Busy, OrderSteps
<1>2. TellsAsBefore(o) /\ status'[o] = status[o]
  BY SameEventsTell DEF OrderRestart
<1>3. orderNotes'[o] = IF \E r \in Handling(o) : req[r].pc = "announce"
                       THEN orderNotes[o] \cup {"silent"} ELSE orderNotes[o]
  BY DEF OrderRestart
<1>4. InTurn(o)'
  <2> SUFFICES ASSUME {"overlap", "silent"} \cap orderNotes'[o] = {}
               PROVE  /\ ChainOf(o)'
                      /\ HandlersInTurn(o)'
                      /\ (Handling(o) = {} => Left(ToldOf(o), status[o]))'
    BY DEF InTurn
  <2>1. /\ {"overlap", "silent"} \cap orderNotes[o] = {}
        /\ ~ \E r \in Handling(o) : req[r].pc = "announce"
    BY <1>3
  <2>2. /\ ChainOf(o) /\ HandlersInTurn(o)
        /\ Handling(o) = {} => Left(ToldOf(o), status[o])
    BY <2>1 DEF StoryOf, InTurn
  <2>3. Left(ToldOf(o), status[o])
    <3>1. CASE Handling(o) = {}
      BY <2>2, <3>1
    <3>2. CASE Handling(o) # {}
      <4>1. PICK r \in Handling(o) : TRUE
        BY <3>2
      <4>2. req[r].pc # "announce"
        BY <2>1, <4>1 DEF Handling, Busy, OrderSteps
      <4>3. QED
        BY <2>2, <4>1, <4>2 DEF HandlersInTurn
    <3>3. QED
      BY <3>1, <3>2
  <2>4. PICK s : s = status[o]
    OBVIOUS
  <2>5. Left(ToldOf(o), s)' /\ s = status[o]'
    BY <1>2, <2>3, <2>4, ToldLeft
  <2>6. ChainOf(o)'
    BY <1>2, <2>2, ChainKept
  <2>7. HandlersInTurn(o)'
    BY <1>1, NoneInTurn
  <2>8. Left(ToldOf(o), status[o])'
    BY <2>5 DEF Left
  <2>9. QED
    BY <2>6, <2>7, <2>8
<1>5. NotYet(o)' /\ AllPublished(o)'
  BY <1>1, <1>2, <1>3 DEF StoryOf, NotYet, AllPublished, Tellable, TellsAsBefore
<1>6. QED
  BY <1>4, <1>5 DEF StoryOf

-----------------------------------------------------------------------------
(* Every step. *)

LEMMA OrderNextStories ==
    ASSUME TInv, StoryInv, OrderNext, NEW o \in Orders
    PROVE  StoryOf(o)'
<1>0. StoryOf(o) /\ ReqOK /\ OrderTypeOK /\ \A r \in Requests : Free(r) => req[r].pc = "idle"
  BY PcOf DEF StoryInv, TInv, Free
<1>1. ASSUME NEW r \in Requests, StatusWrite(r)
      PROVE  StoryOf(o)'
  <2> DEFINE h == [req[r] EXCEPT !.pc = "announce"]
             p == req[r].event.order
  <2>1. req[r] \in AnyHandler /\ req[r].pc \in OrderSteps /\ req[r].pc = "statusWrite"
    BY <1>0, <1>1 DEF StatusWrite, ReqOK, OrderSteps
  <2>2. /\ h \in AnyHandler /\ h.pc = "announce" /\ h.event = req[r].event
        /\ req[r].event \in Event
    <3>1. "announce" \in OrderSteps
      BY DEF OrderSteps
    <3>2. QED
      BY <2>1, <3>1, OrderKind, PcOf
  <2>3. req' = [req EXCEPT ![r] = h]
    BY <1>1 DEF StatusWrite, Goto, Become
  <2> HIDE DEF h
  <2>4. req'[r] = h /\ \A q \in Requests \ {r} : req'[q] = req[q]
    BY <1>0, <2>2, <2>3, SetSlot
  <2>5. r \in Handling(p) /\ p \in Orders /\ req[r].event.to \in Statuses
    BY <2>1, <2>2 DEF Handling, Busy, OrderSteps, Event
  <2>6. /\ Handling(o)' = Handling(o)
        /\ \A q \in Handling(o) \ {r} : req'[q] = req[q]
    BY <2>1, <2>2, <2>4 DEF Handling, Busy, OrderSteps
  <2>7. CASE o = p
    <3>1. WorkedOn(o, r)
      BY <2>2, <2>4, <2>6 DEF WorkedOn
    <3>2. status'[o] = req[r].event.to /\ status'[o] # "none"
      BY <1>0, <1>1, <2>5, <2>7 DEF StatusWrite, OrderTypeOK, Statuses
    <3>3. QED
      BY <1>0, <1>1, <2>1, <2>5, <2>7, <3>1, <3>2, StoryWrites DEF StatusWrite
  <2>8. CASE o # p
    <3>1. r \notin Handling(o)
      BY <2>8 DEF Handling
    <3>2. WorkedAsBefore(o)
      BY <2>6, <3>1 DEF WorkedAsBefore
    <3>3. TellsAsBefore(o) /\ status'[o] = status[o] /\ orderNotes'[o] = orderNotes[o]
      BY <1>1, <2>8, SameEventsTell DEF StatusWrite
    <3>4. QED
      BY <1>0, <3>2, <3>3, StoryKept
  <2>9. QED
    BY <2>7, <2>8
<1>2. ASSUME NEW r \in Requests, OrderFault(r)
      PROVE  StoryOf(o)'
  <2>1. /\ req' = [req EXCEPT ![r] = Idle] /\ req[r].pc # "announce"
        /\ UNCHANGED orderVars
    BY <1>2 DEF OrderFault, Throw
  <2>2. CASE r \in Handling(o)
    BY <1>0, <2>1, <2>2, StoryFails
  <2>3. CASE r \notin Handling(o)
    <3>1. WorkedAsBefore(o)
      BY <1>0, <2>1, <2>3, OneEndsElsewhere
    <3>2. TellsAsBefore(o) /\ status'[o] = status[o] /\ orderNotes'[o] = orderNotes[o]
      BY <2>1, SameEventsTell DEF orderVars
    <3>3. QED
      BY <1>0, <3>1, <3>2, StoryKept
  <2>4. QED
    BY <2>2, <2>3
<1>3. ASSUME NEW r \in Requests, req[r].pc = "idle", NEW h \in OrderHandler,
             req' = [req EXCEPT ![r] = h], h.event.order # o, events' = events,
             status'[o] = status[o], orderNotes'[o] = orderNotes[o]
      PROVE  StoryOf(o)'
  <2>1. WorkedAsBefore(o)
    BY <1>0, <1>3, OneBeginsElsewhere
  <2>2. TellsAsBefore(o)
    BY <1>3, SameEventsTell
  <2>3. QED
    BY <1>0, <1>3, <2>1, <2>2, StoryKept
<1>4. ASSUME NEW r \in Requests, NEW p \in Orders, CreateOrder(r, p)
      PROVE  StoryOf(o)'
  <2> DEFINE h == [pc |-> "announce", event |-> [order |-> p, from |-> "none",
                                       to |-> "PREPARING", published |-> TRUE]]
  <2>1. /\ h \in OrderHandler /\ h.event.order = p /\ h.pc = "announce"
        /\ h.event.from = "none" /\ h.event.to = "PREPARING" /\ Tellable(h)
    BY DEF OrderHandler, OrderSteps, Event, Statuses, Tellable
  <2>2. /\ req' = [req EXCEPT ![r] = h] /\ req[r].pc = "idle"
        /\ UNCHANGED <<events, orderNotes>>
        /\ status[p] = "none" /\ status' = [status EXCEPT ![p] = "PREPARING"]
    BY <1>0, <1>4 DEF CreateOrder, Begin
  <2> HIDE DEF h
  <2>3. CASE o = p
    <3>1. Handling(o) = {}
      BY <1>0, <2>2, <2>3 DEF StoryOf, NotYet
    <3>2. status'[o] = "PREPARING"
      BY <1>0, <2>2, <2>3 DEF OrderTypeOK
    <3>3. QED
      BY <1>0, <2>1, <2>2, <2>3, <3>1, <3>2, StoryBegins
  <2>4. CASE o # p
    <3>1. status'[o] = status[o] /\ orderNotes'[o] = orderNotes[o]
      BY <1>0, <2>2, <2>4 DEF OrderTypeOK
    <3>2. QED
      BY <1>3, <2>1, <2>2, <2>4, <3>1
  <2>5. QED
    BY <2>3, <2>4
<1>5. ASSUME NEW r \in Requests, NEW p \in Orders, BumpLast(r, p)
      PROVE  StoryOf(o)'
  <2> DEFINE h == [pc |-> "statusWrite", event |-> [order |-> p, from |-> "PREPARING",
                                       to |-> "COMPLETED", published |-> FALSE]]
  <2>1. /\ h \in OrderHandler /\ h.event.order = p /\ h.pc = "statusWrite"
        /\ h.event.from = "PREPARING"
    BY DEF OrderHandler, OrderSteps, Event, Statuses
  <2>2. /\ req' = [req EXCEPT ![r] = h] /\ req[r].pc = "idle"
        /\ UNCHANGED <<events, status>> /\ status[p] = "PREPARING"
        /\ orderNotes' = [orderNotes EXCEPT ![p] =
              @ \cup {"kitchen"} \cup (IF Handling(p) # {} THEN {"overlap"} ELSE {})]
    BY <1>0, <1>5 DEF BumpLast, Begin
  <2> HIDE DEF h
  <2>3. CASE o = p
    <3>1. orderNotes'[o] = orderNotes[o] \cup {"kitchen"}
                             \cup (IF Handling(o) # {} THEN {"overlap"} ELSE {})
      BY <1>0, <2>2, <2>3 DEF OrderTypeOK
    <3>2. /\ Handling(o) = {} \/ "overlap" \in orderNotes'[o]
          /\ orderNotes[o] \subseteq orderNotes'[o]
          /\ "kitchen" \in orderNotes'[o]
      BY <3>1
    <3>3. /\ h.event.from = status[o] /\ status'[o] = h.event.from
          /\ status'[o] # "none" /\ h.pc # "announce"
      BY <2>1, <2>2, <2>3
    <3>4. QED
      BY <1>0, <2>1, <2>2, <2>3, <3>2, <3>3, StoryBegins
  <2>4. CASE o # p
    <3>1. status'[o] = status[o] /\ orderNotes'[o] = orderNotes[o]
      BY <1>0, <2>2, <2>4 DEF OrderTypeOK
    <3>2. QED
      BY <1>3, <2>1, <2>2, <2>4, <3>1
  <2>5. QED
    BY <2>3, <2>4
<1>6. ASSUME NEW r \in Requests, NEW p \in Orders, NEW to \in Targets, UpdateStatus(r, p, to)
      PROVE  StoryOf(o)'
  <2> DEFINE h == [pc |-> "statusWrite", event |-> [order |-> p, from |-> status[p],
                                       to |-> to, published |-> TRUE]]
  <2>1. /\ h \in OrderHandler /\ h.event.order = p /\ h.pc = "statusWrite"
        /\ h.event.from = status[p] /\ Tellable(h)
    BY <1>0, TargetsAssumption DEF OrderHandler, OrderSteps, Event, OrderTypeOK, Tellable
  <2>2. /\ req' = [req EXCEPT ![r] = h] /\ req[r].pc = "idle"
        /\ UNCHANGED <<events, status>> /\ status[p] # "none"
        /\ orderNotes' = [orderNotes EXCEPT ![p] = IF Handling(p) # {} THEN @ \cup {"overlap"}
                                                   ELSE @]
    BY <1>0, <1>6 DEF UpdateStatus, Begin, NoteOrder
  <2> HIDE DEF h
  <2>3. CASE o = p
    <3>1. orderNotes'[o] = IF Handling(o) # {} THEN orderNotes[o] \cup {"overlap"}
                           ELSE orderNotes[o]
      BY <1>0, <2>2, <2>3 DEF OrderTypeOK
    <3>2. /\ Handling(o) = {} \/ "overlap" \in orderNotes'[o]
          /\ orderNotes[o] \subseteq orderNotes'[o]
      BY <3>1
    <3>3. /\ h.event.from = status[o] /\ status'[o] = h.event.from
          /\ status'[o] # "none" /\ h.pc # "announce"
      BY <2>1, <2>2, <2>3
    <3>4. QED
      BY <1>0, <2>1, <2>2, <2>3, <3>2, <3>3, StoryBegins
  <2>4. CASE o # p
    <3>1. status'[o] = status[o] /\ orderNotes'[o] = orderNotes[o]
      BY <1>0, <2>2, <2>4 DEF OrderTypeOK
    <3>2. QED
      BY <1>3, <2>1, <2>2, <2>4, <3>1
  <2>5. QED
    BY <2>3, <2>4
<1>7. ASSUME NEW p \in Orders, CompleteSilently(p)
      PROVE  StoryOf(o)'
  <2>1. /\ UNCHANGED <<req, events>>
        /\ status' = [status EXCEPT ![p] = "COMPLETED"]
        /\ orderNotes' = [orderNotes EXCEPT ![p] = @ \cup {"silent"}]
    BY <1>7 DEF CompleteSilently, NoteOrder
  <2>2. CASE o = p
    <3>1. status'[o] = "COMPLETED" /\ orderNotes'[o] = orderNotes[o] \cup {"silent"}
      BY <1>0, <2>1, <2>2 DEF OrderTypeOK
    <3>2. QED
      BY <1>0, <2>1, <3>1, StorySilent
  <2>3. CASE o # p
    <3>1. TellsAsBefore(o) /\ WorkedAsBefore(o)
      BY <2>1, SameEventsTell DEF WorkedAsBefore, Handling, Busy, OrderSteps
    <3>2. QED
      BY <1>0, <2>1, <2>3, <3>1, StoryKept
  <2>4. QED
    BY <2>2, <2>3
<1>8. ASSUME NEW r \in Requests, SplitWrite(r)
      PROVE  StoryOf(o)'
  <2> DEFINE e == req[r].event
  <2>1. req[r] \in AnyHandler /\ req[r].pc \in OrderSteps /\ req[r].pc = "splitWrite"
    BY <1>0, <1>8 DEF SplitWrite, ReqOK, OrderSteps
  <2>2. req' = [req EXCEPT ![r] = Idle] /\ events' = events
    BY <1>8 DEF SplitWrite, End, Become
  <2>3. PICK parts \in SUBSET {x \in Orders : status[x] = "none"} :
           /\ status' = [x \in Orders |-> IF x = e.order THEN e.to
                                         ELSE IF x \in parts THEN e.from ELSE status[x]]
           /\ orderNotes' = [x \in Orders |->
                 IF x \in parts \cup {e.order} THEN orderNotes[x] \cup {"silent"}
                 ELSE orderNotes[x]]
    BY <1>8 DEF SplitWrite
  <2>4. e \in Event
    BY <2>1, OrderKind
  <2>5. e.to # "none"
    BY <2>4 DEF Event, Statuses
  <2> HIDE DEF e
  <2>6. CASE o \in parts \cup {e.order}
    <3>1. status'[o] # "none" \/ status[o] = "none"
      BY <2>3, <2>5, <2>6
    <3>2. orderNotes'[o] = orderNotes[o] \cup {"silent"}
      BY <2>3, <2>6
    <3>3. QED
      BY <1>0, <2>2, <3>1, <3>2, StorySplit
  <2>7. CASE o \notin parts \cup {e.order}
    <3>1. status'[o] = status[o] /\ orderNotes'[o] = orderNotes[o]
      BY <2>3, <2>7
    <3>2. r \notin Handling(o)
      BY <2>7 DEF Handling, e
    <3>3. WorkedAsBefore(o)
      BY <1>0, <2>2, <3>2, OneEndsElsewhere
    <3>4. TellsAsBefore(o)
      BY <2>2, SameEventsTell
    <3>5. QED
      BY <1>0, <3>1, <3>3, <3>4, StoryKept
  <2>8. QED
    BY <2>6, <2>7
<1>9. ASSUME NEW r \in Requests, NEW p \in Orders, SplitOrder(r, p)
      PROVE  StoryOf(o)'
  <2> DEFINE h == [pc |-> "splitWrite", event |-> [order |-> p, from |-> status[p],
                                       to |-> "CANCELLED", published |-> FALSE]]
  <2>1. /\ h \in OrderHandler /\ h.event.order = p /\ h.pc = "splitWrite"
        /\ h.event.from = status[p] /\ Tellable(h)
    BY <1>0 DEF OrderHandler, OrderSteps, Event, OrderTypeOK, Statuses, Tellable
  <2>2. /\ req' = [req EXCEPT ![r] = h] /\ req[r].pc = "idle"
        /\ UNCHANGED <<events, status>> /\ status[p] # "none"
        /\ orderNotes' = [orderNotes EXCEPT ![p] = IF Handling(p) # {} THEN @ \cup {"overlap"}
                                                   ELSE @]
    BY <1>0, <1>9 DEF SplitOrder, Begin, NoteOrder
  <2> HIDE DEF h
  <2>3. CASE o = p
    <3>1. orderNotes'[o] = IF Handling(o) # {} THEN orderNotes[o] \cup {"overlap"}
                           ELSE orderNotes[o]
      BY <1>0, <2>2, <2>3 DEF OrderTypeOK
    <3>2. /\ Handling(o) = {} \/ "overlap" \in orderNotes'[o]
          /\ orderNotes[o] \subseteq orderNotes'[o]
      BY <3>1
    <3>3. /\ h.event.from = status[o] /\ status'[o] = h.event.from
          /\ status'[o] # "none" /\ h.pc # "announce"
      BY <2>1, <2>2, <2>3
    <3>4. QED
      BY <1>0, <2>1, <2>2, <2>3, <3>2, <3>3, StoryBegins
  <2>4. CASE o # p
    <3>1. status'[o] = status[o] /\ orderNotes'[o] = orderNotes[o]
      BY <1>0, <2>2, <2>4 DEF OrderTypeOK
    <3>2. QED
      BY <1>3, <2>1, <2>2, <2>4, <3>1
  <2>5. QED
    BY <2>3, <2>4
<1>10. QED
  BY <1>1, <1>2, <1>4, <1>5, <1>6, <1>7, <1>8, <1>9 DEF OrderNext

LEMMA AnnounceStories ==
    ASSUME TInv, StoryInv, NEW r \in Requests, AnnounceToAll(r), NEW o \in Orders
    PROVE  StoryOf(o)'
<1>0. StoryOf(o) /\ ReqOK
  BY DEF StoryInv, TInv
<1>1. /\ req' = [req EXCEPT ![r] = Idle] /\ req[r].pc = "announce"
      /\ events' = Append(events, req[r].event) /\ UNCHANGED <<status, orderNotes>>
  BY DEF AnnounceToAll, Announce, End, Become
<1>2. req[r].event \in Event
  <2>1. req[r] \in AnyHandler /\ req[r].pc \in OrderSteps
    BY <1>0, <1>1 DEF ReqOK, OrderSteps
  <2>2. QED
    BY <2>1, OrderKind
<1>3. CASE r \in Handling(o)
  BY <1>0, <1>1, <1>3, StoryAnnounced
<1>4. CASE r \notin Handling(o)
  <2>1. req[r].event.order # o
    BY <1>1, <1>4 DEF Handling, Busy, OrderSteps
  <2>2. TellsAsBefore(o)
    BY <1>1, <1>2, <2>1, NotToldOf
  <2>3. WorkedAsBefore(o)
    BY <1>0, <1>1, <1>4, OneEndsElsewhere
  <2>4. QED
    BY <1>0, <1>1, <2>2, <2>3, StoryKept
<1>5. QED
  BY <1>3, <1>4

LEMMA StoryStep == TInv /\ StoryInv /\ [Next]_vars => StoryInv'
<1> SUFFICES ASSUME TInv, StoryInv, [Next]_vars, NEW o \in Orders
             PROVE  StoryOf(o)'
  BY DEF StoryInv
<1>0. StoryOf(o)
  BY DEF StoryInv
<1>1. ASSUME WorkedAsBefore(o), UNCHANGED orderVars
      PROVE  StoryOf(o)'
  BY <1>0, <1>1, SameEventsTell, StoryKept DEF orderVars
<1>2. ASSUME UNCHANGED req, UNCHANGED orderVars
      PROVE  StoryOf(o)'
  <2>1. WorkedAsBefore(o)
    BY <1>2 DEF WorkedAsBefore, Handling, Busy, OrderSteps
  <2>2. QED
    BY <1>1, <1>2, <2>1
<1>3. ASSUME NEW r \in Requests, AnnounceToAll(r)
      PROVE  StoryOf(o)'
  BY <1>3, AnnounceStories
<1>4. CASE OrderNext /\ UNCHANGED <<brokerVars, webhookVars, gatewayVars>>
  BY <1>4, OrderNextStories
<1>5. CASE BrokerNext /\ UNCHANGED <<orderVars, webhookVars, gatewayVars>>
  BY <1>1, <1>5, LogSlots, OthersWorkOn
<1>6. CASE GatewayNext /\ UNCHANGED <<orderVars, brokerVars, webhookVars>>
  BY <1>1, <1>6, GatewaySlots, OthersWorkOn
<1>7. CASE WebhookNext /\ UNCHANGED <<orderVars, brokerVars, gatewayVars>>
  <2>1. UNCHANGED req
    BY <1>7 DEF WebhookNext, WebhookStep, FindHooks, Attempt, ReadBody, SaveRow, DeliveryFault,
                TestWebhook, SetHook, RemoveHook
  <2>2. QED
    BY <1>2, <1>7, <2>1
<1>8. CASE Restart
  BY <1>0, <1>8, StoryRestarts DEF Restart
<1>9. CASE UNCHANGED vars
  BY <1>2, <1>9 DEF vars, handlerVars
<1>10. QED
  BY <1>3, <1>4, <1>5, <1>6, <1>7, <1>8, <1>9 DEF Next

\* As long as no two writers of an order overlap and nobody writes it silently,
\* whoever listens to the events of OrdersService is told of every change, each
\* from the status that was told before to the one the order has; the consumer of
\* the broker too, unless the kitchen completed the order.
THEOREM AnnouncementsTell == Spec => []AnnouncementsFollowOrder
<1>1. Init => StoryInv
  <2> SUFFICES ASSUME Init, NEW o \in Orders
               PROVE  StoryOf(o)
    BY DEF StoryInv
  <2>1. Handling(o) = {}
    BY PcOf DEF Init, HandlersInit, Handling, Busy, OrderSteps
  <2>2. ToldOf(o) = {} /\ status[o] = "none"
    <3>1. events = << >> /\ status[o] = "none"
      BY DEF Init, OrderInit
    <3>2. DOMAIN << >> = {}
      OBVIOUS
    <3>3. QED
      BY <3>1, <3>2 DEF ToldOf
  <2>3. InTurn(o)
    BY <2>1, <2>2 DEF InTurn, ChainOf, HandlersInTurn, Left
  <2>4. QED
    BY <2>1, <2>2, <2>3 DEF StoryOf, NotYet, AllPublished, Tellable
<1>2. Spec => []StoryInv
  BY Types, <1>1, StoryStep, PTL DEF Spec
<1>3. StoryInv => AnnouncementsFollowOrder
  <2> SUFFICES ASSUME StoryInv PROVE AnnouncementsFollowOrder
    OBVIOUS
  <2>1. ASSUME NEW o \in Orders, Handling(o) = {}, {"overlap", "silent"} \cap orderNotes[o] = {}
        PROVE  Story(o, ToldOf(o))
    <3>1. ChainOf(o) /\ Left(ToldOf(o), status[o])
      BY <2>1 DEF StoryInv, StoryOf, InTurn
    <3>2. QED
      BY <3>1 DEF Story, ChainOf, Before
  <2>2. ASSUME NEW o \in Orders, "kitchen" \notin orderNotes[o]
        PROVE  {k \in ToldOf(o) : events[k].published} = ToldOf(o)
    <3>1. \A k \in ToldOf(o) : events[k].published
      BY <2>2 DEF StoryInv, StoryOf, AllPublished, Tellable
    <3>2. QED
      BY <3>1
  <2>3. QED
    BY <2>1, <2>2 DEF AnnouncementsFollowOrder
<1>4. QED
  BY <1>2, <1>3, PTL

-----------------------------------------------------------------------------
(* Background work is not forgotten: what the broker has taken, and what an  *)
(* endpoint wants, stays on its way until it is in the log or noted.         *)

\* The log says how event n ended.
Settled(n) == \E k \in DOMAIN log : log[k].event = n /\ log[k].status # "RECEIVED"

\* Who still has event n and does not leave it to another.
Keepers(n) == {r \in Busy(LogSteps) : /\ req[r].event = n
                                      /\ req[r].held \/ req[r].pc # "logInsert"}

\* It waits in the queue, or a handler keeps it, or it has ended or is noted.
OnItsWay(n) == n \in queue \/ n \in brokerNotes \/ Settled(n) \/ Keepers(n) # {}

\* A connection that breaks takes the handler's hold of its message, which is then
\* with another one or in the queue.
TakenOver == \A r \in Busy(LogSteps) : OnItsWay(req[r].event)

\* No step of the consumer or of the broker drops what is on its way.
NoMessageLost == [][\A n : OnItsWay(n) => OnItsWay(n)']_vars

\* The log of the webhooks has a row of event n for endpoint w.
Entry(n, w) == \E d \in rows : d.event = n /\ d.hook = w

\* It is being sent, or sent and about to be logged.
Running(n, w) == job[n][w].pc \in {"try", "body", "save"}

\* Event n is on its way to w, or logged, or noted as what a query lost.
Due(n, w) ==
    \/ n \in dispatching /\ Wanted(w, n)
    \/ Running(n, w)
    \/ {n, w} \cap hookNotes # {}
    \/ Entry(n, w)

\* A delivery is under way to an endpoint that is there, or was edited.
Addressed ==
    \A n \in 0..MaxEvents, w \in Endpoints :
        Running(n, w) => hook[w] # "none" \/ w \in hookNotes

\* No step of dispatch, deliver and the log drops what is due.
NoDeliveryLost ==
    [][\A n \in 0..MaxEvents, w \in Endpoints : Due(n, w) => Due(n, w)']_vars

\* What is settled stays settled, and who keeps a message and is not moved keeps it.
LEMMA WayGoesOn ==
    ASSUME NEW n, OnItsWay(n), queue \subseteq queue', brokerNotes \subseteq brokerNotes',
           Settled(n) => Settled(n)',
           \A q \in Keepers(n) : OnItsWay(n)' \/ q \in Keepers(n)'
    PROVE  OnItsWay(n)'
  BY DEF OnItsWay

LEMMA SettledStays ==
    ASSUME NEW n, log' = log, Settled(n)
    PROVE  Settled(n)'
  BY DEF Settled

LEMMA OthersKeep ==
    ASSUME Moves(OrderSteps) \/ Moves(GatewaySteps), NEW n
    PROVE  Keepers(n) \subseteq Keepers(n)'
<1>1. LogSteps \cap (OrderSteps \cup GatewaySteps \cup {"idle"}) = {}
  BY DEF OrderSteps, LogSteps, GatewaySteps, AskSteps
<1>2. \A q \in Requests : req[q].pc \in LogSteps => req'[q] = req[q]
  BY <1>1 DEF Moves
<1>3. QED
  BY <1>2 DEF Keepers, Busy

\* A handler of the log becomes another one, or ends; the others stay.
LEMMA KeepersElsewhere ==
    ASSUME ReqOK, NEW r \in Requests, NEW h \in AnyHandler, req' = [req EXCEPT ![r] = h],
           NEW n
    PROVE  /\ req'[r] = h
           /\ \A q \in Keepers(n) : q # r => q \in Keepers(n)'
<1>1. req'[r] = h /\ \A q \in Requests \ {r} : req'[q] = req[q]
  BY SetSlot
<1>2. QED
  BY <1>1 DEF Keepers, Busy

LEMMA BrokerKeeps ==
    ASSUME TInv, BInv, BrokerNext, NEW n, OnItsWay(n)
    PROVE  OnItsWay(n)'
<1>0. /\ ReqOK /\ log \in Seq(LogRow) /\ Idle \in AnyHandler /\ Idle.pc = "idle"
      /\ {"logInsert", "logMark", "logFail"} = LogSteps
      /\ \A r \in Requests : Free(r) => req[r].pc = "idle"
      /\ \A r \in Keepers(n) : /\ r \in Requests /\ req[r].pc \in LogSteps
                               /\ req[r].event = n
                               /\ req[r].held \/ req[r].pc # "logInsert"
  BY PcOf DEF TInv, BrokerTypeOK, LogSteps, Free, Keepers, Busy
<1>1. CASE BreakLink
  <2>1. \A q \in Keepers(n) : n \in queue' \/ q \in Keepers(n)'
    <3>1. ASSUME NEW q \in Keepers(n), req[q].held
          PROVE  n \in queue'
      <4>1. n \in Held
        BY <1>0, <3>1 DEF Held, Busy
      <4>2. QED
        BY <1>1, <4>1 DEF BreakLink
    <3>2. ASSUME NEW q \in Keepers(n), req[q].pc # "logInsert"
          PROVE  q \in Keepers(n)'
      <4>1. req[q] \in AnyHandler /\ q \in Requests /\ req[q].pc \in LogSteps
        BY <1>0 DEF ReqOK
      <4>2. req'[q] = [req[q] EXCEPT !.held = FALSE]
        BY <1>1, <4>1 DEF BreakLink
      <4>3. /\ [req[q] EXCEPT !.held = FALSE].pc = req[q].pc
            /\ [req[q] EXCEPT !.held = FALSE].event = req[q].event
        BY <4>1, LogKind
      <4>4. req'[q].pc = req[q].pc /\ req'[q].event = req[q].event
        BY <4>2, <4>3
      <4>5. QED
        BY <1>0, <3>2, <4>1, <4>4 DEF Keepers, Busy
    <3>3. QED
      BY <1>0, <3>1, <3>2
  <2>2. queue \subseteq queue' /\ log' = log /\ brokerNotes' = brokerNotes
    BY <1>1 DEF BreakLink
  <2>3. QED
    BY <2>1, <2>2, SettledStays DEF OnItsWay
<1>2. CASE NoticeLink \/ Connect
  <2>1. UNCHANGED <<req, queue, log, brokerNotes>>
    BY <1>2 DEF NoticeLink, Connect
  <2>2. Keepers(n)' = Keepers(n)
    BY <2>1 DEF Keepers, Busy
  <2>3. QED
    BY <2>1, <2>2, SettledStays DEF OnItsWay
<1>3. ASSUME NEW r \in Requests, NEW m \in queue, Deliver(r, m)
      PROVE  OnItsWay(n)'
  <2> DEFINE h == [pc |-> "logInsert", event |-> m, row |-> 0, held |-> TRUE]
  <2>1. req' = [req EXCEPT ![r] = h] /\ Free(r) /\ queue' = queue \ {m}
        /\ log' = log /\ brokerNotes' = brokerNotes
    BY <1>3 DEF Deliver, Become
  <2>2. m \in Nat
    BY DEF TInv, BrokerTypeOK, OrderTypeOK
  <2>3. h \in AnyHandler /\ h.pc \in LogSteps /\ h.event = m /\ h.held
    BY <1>0, <2>2, PcOf DEF LogHandler
  <2> HIDE DEF h
  <2>4. req'[r] = h /\ \A q \in Keepers(n) : q # r => q \in Keepers(n)'
    BY <1>0, <2>1, <2>3, KeepersElsewhere
  <2>5. \A q \in Keepers(n) : q # r
    BY <1>0, <2>1
  <2>6. m = n => r \in Keepers(n)'
    BY <2>3, <2>4 DEF Keepers, Busy
  <2>7. QED
    BY <2>1, <2>4, <2>5, <2>6, SettledStays DEF OnItsWay
<1>4. ASSUME NEW r \in Requests, LogInsert(r)
      PROVE  OnItsWay(n)'
  <2>1. req[r] \in AnyHandler /\ req[r].pc \in LogSteps /\ req[r].pc = "logInsert"
        /\ queue' = queue /\ brokerNotes' = brokerNotes
    BY <1>0, <1>4 DEF LogInsert, ReqOK
  <2>2. CASE Logged(req[r].event)
    <3>1. req' = [req EXCEPT ![r] = Idle] /\ log' = log
      BY <1>4, <2>2 DEF LogInsert, End, Become
    <3>2. \A q \in Keepers(n) : q # r => q \in Keepers(n)'
      BY <1>0, <3>1, KeepersElsewhere
    <3>3. CASE r \notin Keepers(n)
      BY <2>1, <3>1, <3>2, <3>3, SettledStays DEF OnItsWay
    <3>4. CASE r \in Keepers(n)
      <4>1. PICK j \in DOMAIN log : log[j].event = n
        BY <1>0, <2>2, <3>4 DEF Logged
      <4>2. CASE log[j].status # "RECEIVED"
        BY <3>1, <4>1, <4>2 DEF OnItsWay, Settled
      <4>3. CASE log[j].status = "RECEIVED"
        <5>1. log[j].event \in brokerNotes \/ \E q \in Owners : req[q].row = j
          BY <4>3 DEF BInv, OpenRowsOwned
        <5>2. CASE n \in brokerNotes
          BY <2>1, <5>2 DEF OnItsWay
        <5>3. CASE \E q \in Owners : req[q].row = j
          <6>1. PICK q \in Owners : req[q].row = j
            BY <5>3
          <6>2. req[q].event = n
            BY <4>1, <6>1 DEF BInv, OwnersKnow
          <6>3. q \in Requests /\ req[q].pc \in {"logMark", "logFail"}
            BY DEF Owners, Busy
          <6>4. q \in Keepers(n) /\ q # r
            BY <1>0, <2>1, <6>2, <6>3 DEF Keepers, Busy
          <6>5. QED
            BY <3>2, <6>4 DEF OnItsWay
        <5>4. QED
          BY <4>1, <5>1, <5>2, <5>3
      <4>4. QED
        BY <4>2, <4>3
    <3>5. QED
      BY <3>3, <3>4
  <2>3. CASE ~ Logged(req[r].event)
    <3> DEFINE h == [req[r] EXCEPT !.pc = "logMark", !.row = Len(log) + 1]
    <3>1. /\ log' = Append(log, [event |-> req[r].event, status |-> "RECEIVED"])
          /\ req' = [req EXCEPT ![r] = h]
      BY <1>4, <2>3 DEF LogInsert, Become
    <3>2. Len(log) + 1 \in Nat
      BY <1>0
    <3>3. h.event = req[r].event /\ h.pc = "logMark" /\ h \in AnyHandler
      BY <2>1, <3>2, LogMarks, PcOf
    <3> HIDE DEF h
    <3>4. req'[r] = h /\ \A q \in Keepers(n) : q # r => q \in Keepers(n)'
      BY <1>0, <3>1, <3>3, KeepersElsewhere
    <3>5. r \in Keepers(n) => r \in Keepers(n)'
      BY <1>0, <3>3, <3>4 DEF Keepers, Busy
    <3>6. Settled(n) => Settled(n)'
      <4>1. \A k \in DOMAIN log : k \in DOMAIN log' /\ log'[k] = log[k]
        BY <1>0, <3>1
      <4>2. QED
        BY <4>1 DEF Settled
    <3>7. QED
      BY <2>1, <3>4, <3>5, <3>6 DEF OnItsWay
  <2>4. QED
    BY <2>2, <2>3
<1>5. ASSUME NEW r \in Requests, LogMark(r) \/ LogFail(r)
      PROVE  OnItsWay(n)'
  <2> DEFINE i == req[r].row
  <2>1. PICK s \in {"PROCESSED", "FAILED"} : log' = [log EXCEPT ![i].status = s]
    BY <1>5 DEF LogMark, LogFail
  <2>2. /\ DOMAIN log' = DOMAIN log
        /\ \A k \in DOMAIN log : /\ log'[k].event = log[k].event
                                 /\ k # i => log'[k] = log[k]
                                 /\ k = i => log'[k].status = s
    BY <1>0, <2>1, LogSets
  <2>3. req' = [req EXCEPT ![r] = Idle] /\ brokerNotes' = brokerNotes /\ queue' = queue
    BY <1>5 DEF LogMark, LogFail, End, Become
  <2>4. \A q \in Keepers(n) : q # r => q \in Keepers(n)'
    BY <1>0, <2>3, KeepersElsewhere
  <2>5. i \in DOMAIN log /\ log[i].event = req[r].event
    <3>1. r \in Owners
      BY <1>5 DEF LogMark, LogFail, Owners, Busy
    <3>2. QED
      BY <3>1 DEF BInv, OwnersKnow
  <2> HIDE DEF i
  <2>6. Settled(n) => Settled(n)'
    BY <2>2 DEF Settled
  <2>7. r \in Keepers(n) => Settled(n)'
    BY <1>0, <2>2, <2>5 DEF Settled
  <2>8. QED
    BY <2>3, <2>4, <2>6, <2>7 DEF OnItsWay
<1>6. ASSUME NEW r \in Requests, LogMarkFails(r)
      PROVE  OnItsWay(n)'
  <2>1. req[r] \in AnyHandler /\ req[r].pc = "logMark" /\ req[r].pc \in LogSteps
    BY <1>0, <1>6 DEF LogMarkFails, ReqOK
  <2>2. req' = [req EXCEPT ![r] = [req[r] EXCEPT !.pc = "logFail"]]
    BY <1>6, <2>1 DEF LogMarkFails
  <2>3. /\ [req[r] EXCEPT !.pc = "logFail"].pc = "logFail"
        /\ [req[r] EXCEPT !.pc = "logFail"].event = req[r].event
        /\ [req[r] EXCEPT !.pc = "logFail"] \in AnyHandler
    <3>1. "logFail" \in LogSteps
      BY <1>0
    <3>2. QED
      BY <2>1, <3>1, LogKind, PcOf
  <2>4. /\ req'[r].pc = "logFail" /\ req'[r].event = req[r].event
        /\ \A q \in Keepers(n) : q # r => q \in Keepers(n)'
    BY <1>0, <2>2, <2>3, KeepersElsewhere
  <2>5. r \in Keepers(n) => r \in Keepers(n)'
    BY <1>0, <2>4 DEF Keepers, Busy
  <2>6. log' = log /\ queue' = queue /\ brokerNotes' = brokerNotes
    BY <1>6 DEF LogMarkFails, brokerVars
  <2>7. QED
    BY <2>4, <2>5, <2>6, SettledStays DEF OnItsWay
<1>7. ASSUME NEW r \in Requests, LogGivesUp(r)
      PROVE  OnItsWay(n)'
  <2>1. /\ req' = [req EXCEPT ![r] = Idle] /\ log' = log /\ queue' = queue
        /\ brokerNotes' = brokerNotes \cup {req[r].event}
    BY <1>7 DEF LogGivesUp, Throw
  <2>2. \A q \in Keepers(n) : q # r => q \in Keepers(n)'
    BY <1>0, <2>1, KeepersElsewhere
  <2>3. r \in Keepers(n) => n \in brokerNotes'
    BY <1>0, <2>1
  <2>4. QED
    BY <2>1, <2>2, <2>3, SettledStays DEF OnItsWay
<1>8. QED
  BY <1>1, <1>2, <1>3, <1>4, <1>5, <1>6, <1>7 DEF BrokerNext, BrokerStep

LEMMA WayStep ==
    ASSUME TInv, BInv, [Next]_vars, NEW n, OnItsWay(n)
    PROVE  OnItsWay(n)'
<1>1. ASSUME Keepers(n) \subseteq Keepers(n)', queue \subseteq queue',
             UNCHANGED <<log, brokerNotes>>
      PROVE  OnItsWay(n)'
  BY <1>1, SettledStays DEF OnItsWay
<1>2. ASSUME UNCHANGED <<req, queue, log, brokerNotes>>
      PROVE  OnItsWay(n)'
  <2>1. Keepers(n) = Keepers(n)'
    BY <1>2 DEF Keepers, Busy
  <2>2. QED
    BY <1>1, <1>2, <2>1
<1>3. ASSUME NEW r \in Requests, AnnounceToAll(r)
      PROVE  OnItsWay(n)'
  <2>1. queue \subseteq queue' /\ log' = log /\ brokerNotes' = brokerNotes
    BY <1>3 DEF AnnounceToAll, Publish
  <2>2. QED
    BY <1>1, <1>3, <2>1, OrderSlots, OthersKeep
<1>4. CASE OrderNext /\ UNCHANGED <<brokerVars, webhookVars, gatewayVars>>
  BY <1>1, <1>4, OrderSlots, OthersKeep DEF brokerVars
<1>5. CASE GatewayNext /\ UNCHANGED <<orderVars, brokerVars, webhookVars>>
  BY <1>1, <1>5, GatewaySlots, OthersKeep DEF brokerVars
<1>6. CASE BrokerNext
  BY <1>6, BrokerKeeps
<1>7. CASE WebhookNext /\ UNCHANGED <<orderVars, brokerVars, gatewayVars>>
  <2>1. UNCHANGED req
    BY <1>7 DEF WebhookNext, WebhookStep, FindHooks, Attempt, ReadBody, SaveRow, DeliveryFault,
                TestWebhook, SetHook, RemoveHook
  <2>2. QED
    BY <1>2, <1>7, <2>1 DEF brokerVars
<1>8. CASE Restart
  <2>1. /\ log' = log /\ queue' = queue \cup Held
        /\ brokerNotes' = brokerNotes
              \cup {req[r].event : r \in Busy({"logMark", "logFail"})}
    BY <1>8 DEF Restart, BrokerRestart
  <2>2. ASSUME NEW q \in Keepers(n)
        PROVE  n \in queue' \/ n \in brokerNotes'
    <3>1. /\ q \in Requests /\ req[q].pc \in LogSteps /\ req[q].event = n
          /\ req[q].held \/ req[q].pc \in {"logMark", "logFail"}
      BY DEF Keepers, Busy, LogSteps
    <3>2. CASE req[q].held
      <4>1. n \in Held
        BY <3>1, <3>2 DEF Held, Busy
      <4>2. QED
        BY <2>1, <4>1
    <3>3. CASE req[q].pc \in {"logMark", "logFail"}
      <4>1. q \in Busy({"logMark", "logFail"})
        BY <3>1, <3>3 DEF Busy
      <4>2. QED
        BY <2>1, <3>1, <4>1
    <3>4. QED
      BY <3>1, <3>2, <3>3
  <2>3. QED
    BY <2>1, <2>2, SettledStays DEF OnItsWay
<1>9. CASE UNCHANGED vars
  BY <1>2, <1>9 DEF vars, handlerVars, brokerVars
<1>10. QED
  BY <1>3, <1>4, <1>5, <1>6, <1>7, <1>8, <1>9 DEF Next

\* A handler of the log goes on with its event, or has just taken one.
LEMMA LogHandlersGoOn ==
    ASSUME TInv, [Next]_vars, NEW r \in Requests, req'[r].pc \in LogSteps
    PROVE  \/ req[r].pc \in LogSteps /\ req'[r].event = req[r].event
           \/ req'[r].held
<1> DEFINE Ok == \/ req[r].pc \in LogSteps /\ req'[r].event = req[r].event
                 \/ req'[r].held
<1> SUFFICES Ok
  OBVIOUS
<1>0. /\ ReqOK /\ log \in Seq(LogRow) /\ Idle \in AnyHandler /\ Idle.pc \notin LogSteps
      /\ {"logInsert", "logMark", "logFail"} = LogSteps
      /\ req[r] \in AnyHandler
  BY PcOf DEF TInv, BrokerTypeOK, LogSteps, ReqOK
<1>1. ASSUME Moves(OrderSteps) \/ Moves(GatewaySteps)
      PROVE  Ok
  <2>1. LogSteps \cap (OrderSteps \cup GatewaySteps \cup {"idle"}) = {}
    BY DEF OrderSteps, LogSteps, GatewaySteps, AskSteps
  <2>2. QED
    BY <1>1, <2>1 DEF Moves
<1>2. CASE UNCHANGED req
  BY <1>2
<1>3. ASSUME NEW q \in Requests, NEW h \in AnyHandler, req' = [req EXCEPT ![q] = h],
             \/ h.pc \notin LogSteps
             \/ h.held
             \/ req[q].pc \in LogSteps /\ h.event = req[q].event
      PROVE  Ok
  <2>1. req'[q] = h /\ \A p \in Requests \ {q} : req'[p] = req[p]
    BY <1>0, <1>3, SetSlot
  <2>2. QED
    BY <1>3, <2>1
<1>4. CASE BreakLink
  <2>1. req'[r] = IF req[r].pc \in LogSteps THEN [req[r] EXCEPT !.held = FALSE] ELSE req[r]
    BY <1>4 DEF BreakLink
  <2>2. CASE req[r].pc \in LogSteps
    <3>1. [req[r] EXCEPT !.held = FALSE].event = req[r].event
      BY <1>0, <2>2, LogKind
    <3>2. QED
      BY <2>1, <2>2, <3>1
  <2>3. QED
    BY <2>1, <2>2
<1>5. ASSUME NEW q \in Requests, NEW m \in queue, Deliver(q, m)
      PROVE  Ok
  <2> DEFINE h == [pc |-> "logInsert", event |-> m, row |-> 0, held |-> TRUE]
  <2>1. req' = [req EXCEPT ![q] = h]
    BY <1>5 DEF Deliver, Become
  <2>2. m \in Nat
    BY DEF TInv, BrokerTypeOK, OrderTypeOK
  <2>3. h \in AnyHandler /\ h.held
    BY <1>0, <2>2, PcOf DEF LogHandler
  <2>4. QED
    BY <1>3, <2>1, <2>3
<1>6. ASSUME NEW q \in Requests, LogInsert(q)
      PROVE  Ok
  <2> DEFINE h == [req[q] EXCEPT !.pc = "logMark", !.row = Len(log) + 1]
  <2>1. req[q] \in AnyHandler /\ req[q].pc \in LogSteps
    BY <1>0, <1>6 DEF LogInsert, ReqOK
  <2>2. Len(log) + 1 \in Nat
    BY <1>0
  <2>3. h.event = req[q].event /\ h \in AnyHandler
    BY <2>1, <2>2, LogMarks, PcOf
  <2>4. req' = [req EXCEPT ![q] = Idle] \/ req' = [req EXCEPT ![q] = h]
    BY <1>6 DEF LogInsert, End, Become
  <2> HIDE DEF h
  <2>5. CASE req' = [req EXCEPT ![q] = Idle]
    BY <1>0, <1>3, <2>5
  <2>6. CASE req' = [req EXCEPT ![q] = h]
    BY <1>3, <2>1, <2>3, <2>6
  <2>7. QED
    BY <2>4, <2>5, <2>6
<1>7. ASSUME NEW q \in Requests, LogMarkFails(q)
      PROVE  Ok
  <2>1. req[q] \in AnyHandler /\ req[q].pc \in LogSteps
    BY <1>0, <1>7 DEF LogMarkFails, ReqOK
  <2>2. req' = [req EXCEPT ![q] = [req[q] EXCEPT !.pc = "logFail"]]
    BY <1>7, <2>1 DEF LogMarkFails
  <2>3. "logFail" \in LogSteps
    BY <1>0
  <2>4. /\ [req[q] EXCEPT !.pc = "logFail"].event = req[q].event
        /\ [req[q] EXCEPT !.pc = "logFail"] \in AnyHandler
    BY <2>1, <2>3, LogKind, PcOf
  <2>5. QED
    BY <1>3, <2>1, <2>2, <2>4
<1>8. ASSUME NEW q \in Requests, LogMark(q) \/ LogFail(q) \/ LogGivesUp(q)
      PROVE  Ok
  <2>1. req' = [req EXCEPT ![q] = Idle]
    BY <1>8 DEF LogMark, LogFail, LogGivesUp, Throw, End, Become
  <2>2. QED
    BY <1>0, <1>3, <2>1
<1>9. CASE BrokerNext
  <2> HIDE DEF Ok
  <2>1. CASE NoticeLink \/ Connect
    BY <1>2, <2>1 DEF NoticeLink, Connect
  <2>2. QED
    BY <1>4, <1>5, <1>6, <1>7, <1>8, <1>9, <2>1 DEF BrokerNext, BrokerStep
<1>10. CASE Restart
  BY <1>0, <1>10 DEF Restart
<1>11. CASE WebhookNext
  BY <1>2, <1>11 DEF WebhookNext, WebhookStep, FindHooks, Attempt, ReadBody, SaveRow, DeliveryFault,
                     TestWebhook, SetHook, RemoveHook
<1>12. CASE UNCHANGED vars
  BY <1>2, <1>12 DEF vars, handlerVars
<1>13. CASE OrderNext \/ GatewayNext \/ \E q \in Requests : AnnounceToAll(q)
  <2> HIDE DEF Ok
  <2>1. QED
    BY <1>1, <1>13, OrderSlots, GatewaySlots
<1> HIDE DEF Ok
<1>14. QED
  BY <1>9, <1>10, <1>11, <1>12, <1>13 DEF Next

LEMMA TakenOverStep == TInv /\ BInv /\ TakenOver /\ [Next]_vars => TakenOver'
<1> SUFFICES ASSUME TInv, BInv, TakenOver, [Next]_vars, NEW r \in Busy(LogSteps)'
             PROVE  OnItsWay(req[r].event)'
  BY DEF TakenOver
<1>1. r \in Requests /\ req'[r].pc \in LogSteps
  BY DEF Busy
<1>2. PICK n : n = req'[r].event
  OBVIOUS
<1>3. OnItsWay(n)'
  <2>1. CASE req'[r].held
    <3>1. r \in Keepers(n)'
      BY <1>1, <1>2, <2>1 DEF Keepers, Busy
    <3>2. QED
      BY <3>1 DEF OnItsWay
  <2>2. CASE req[r].pc \in LogSteps /\ req'[r].event = req[r].event
    <3>1. r \in Busy(LogSteps) /\ req[r].event = n
      BY <1>1, <1>2, <2>2 DEF Busy
    <3>2. OnItsWay(n)
      BY <3>1 DEF TakenOver
    <3>3. QED
      BY <3>2, WayStep
  <2>3. QED
    BY <1>1, <2>1, <2>2, LogHandlersGoOn
<1>4. n = (req[r].event)'
  BY <1>2
<1>5. QED
  BY <1>3, <1>4 DEF OnItsWay, Settled, Keepers

\* What the broker has taken is not lost: its event waits in the queue, or a
\* handler holds it or has its row, or it is settled in the log or noted; through
\* broken connections, second deliveries, failed queries and restarts.
THEOREM MessagesKept == Spec => []TakenOver /\ NoMessageLost
<1>1. Init => BInv /\ TakenOver
  BY PcOf DEF Init, HandlersInit, BrokerInit, BInv, OneRowEach, OwnersKnow, OpenRowsOwned,
              Owners, Busy, TakenOver, LogSteps
<1>2. Spec => []BInv
  BY Types, <1>1, BInvStep, PTL DEF Spec
<1>3. Spec => []TakenOver
  BY Types, <1>1, <1>2, TakenOverStep, PTL DEF Spec
<1>4. TInv /\ BInv /\ [Next]_vars => [\A n : OnItsWay(n) => OnItsWay(n)']_vars
  BY WayStep
<1>5. QED
  BY Types, <1>2, <1>3, <1>4, PTL DEF Spec, NoMessageLost

\* What is due stays so while endpoints and events stay as they are.
LEMMA DueKept ==
    ASSUME NEW n, NEW w, Due(n, w),
           Wanted(w, n) => Wanted(w, n)',
           hookNotes \subseteq hookNotes',
           n \in dispatching => n \in dispatching' \/ Due(n, w)',
           Running(n, w) => Running(n, w)' \/ Due(n, w)',
           Entry(n, w) => Entry(n, w)' \/ Due(n, w)'
    PROVE  Due(n, w)'
  BY DEF Due

LEMMA WantedKept ==
    ASSUME NEW n, NEW w, hook'[w] = hook[w], events'[n] = events[n]
    PROVE  Wanted(w, n)' <=> Wanted(w, n)
  BY DEF Wanted, Key

\* The two things to show of a delivery: it stays due, and it has an address.
DueOn(n, w) ==
    /\ Due(n, w) => Due(n, w)'
    /\ Running(n, w)' => (hook[w] # "none" \/ w \in hookNotes)'

LEMMA DueElsewhere ==
    ASSUME Addressed, NEW n \in 0..MaxEvents, NEW w \in Endpoints,
           hook'[w] = hook[w], events' = events, hookNotes \subseteq hookNotes',
           n \in dispatching => n \in dispatching', job'[n][w] = job[n][w],
           rows \subseteq rows'
    PROVE  DueOn(n, w)
<1>1. Wanted(w, n)' <=> Wanted(w, n)
  BY WantedKept
<1>2. Running(n, w)' <=> Running(n, w)
  BY DEF Running
<1>3. Entry(n, w) => Entry(n, w)'
  BY DEF Entry
<1>4. Due(n, w) => Due(n, w)'
  BY <1>1, <1>2, <1>3, DueKept
<1>5. Running(n, w)' => (hook[w] # "none" \/ w \in hookNotes)'
  BY <1>2 DEF Addressed
<1>6. QED
  BY <1>4, <1>5 DEF DueOn

\* An endpoint that was edited, or an event whose delivery failed.
LEMMA NotedIsDue ==
    ASSUME NEW n, NEW w, w \in hookNotes'
    PROVE  DueOn(n, w)
  BY DEF DueOn, Due

LEMMA WebhookKeeps ==
    ASSUME TInv, WInv, Addressed, WebhookNext, UNCHANGED orderVars,
           NEW n \in 0..MaxEvents, NEW w \in Endpoints
    PROVE  DueOn(n, w)
<1>0. /\ events' = events /\ JobsOK
      /\ \A i \in 0..MaxEvents, x \in Endpoints : job[i][x] \in GoodJob
  BY DEF TInv, JobsOK, orderVars
<1>1. ASSUME NEW m \in 0..MaxEvents, FindHooks(m)
      PROVE  DueOn(n, w)
  <2>1. /\ job' = [job EXCEPT ![m] = [x \in Endpoints |->
                     IF Wanted(x, m) THEN [NoJob EXCEPT !.pc = "try"] ELSE NoJob]]
        /\ m \in dispatching /\ dispatching' = dispatching \ {m}
        /\ UNCHANGED <<hook, rows, hookNotes>>
    BY <1>1 DEF FindHooks
  <2>2. CASE n = m
    <3>1. job'[n][w] = IF Wanted(w, n) THEN [NoJob EXCEPT !.pc = "try"] ELSE NoJob
      BY <1>0, <2>1, <2>2 DEF JobsOK
    <3>2. Running(n, w)' <=> Wanted(w, n)
      BY <3>1, JobForms DEF Running
    <3>3. ~ Running(n, w)
      BY <2>1, <2>2 DEF WInv, Fresh, Running
    <3>4. Entry(n, w) => Entry(n, w)'
      BY <2>1 DEF Entry
    <3>5. Due(n, w) => Due(n, w)'
      BY <2>1, <3>2, <3>3, <3>4 DEF Due
    <3>6. Wanted(w, n) => hook'[w] # "none"
      BY <2>1 DEF Wanted
    <3>7. QED
      BY <3>2, <3>5, <3>6 DEF DueOn
  <2>3. CASE n # m
    <3>1. job'[n] = job[n]
      BY <1>0, <2>1, <2>3 DEF JobsOK
    <3>2. QED
      BY <1>0, <2>1, <2>3, <3>1, DueElsewhere
  <2>4. QED
    BY <2>2, <2>3
<1>2. ASSUME NEW m \in 0..MaxEvents, NEW v \in Endpoints, Attempt(m, v) \/ ReadBody(m, v)
      PROVE  DueOn(n, w)
  <2>1. PICK k \in GoodJob : /\ k.pc \in {"try", "body", "save"}
                             /\ job' = [job EXCEPT ![m][v] = k]
    BY <1>0, <1>2, JobAttempted
  <2>2. k.pc \in {"try", "body", "save"}
    BY <2>1
  <2>3. /\ job'[m][v] = k
        /\ \A i \in 0..MaxEvents, x \in Endpoints :
              (i # m \/ x # v) => job'[i][x] = job[i][x]
    BY <1>0, <2>1 DEF JobsOK
  <2>4. /\ job[m][v].pc \in {"try", "body"}
        /\ UNCHANGED <<hook, dispatching, rows, hookNotes>>
    BY <1>0, <1>2, JobAttempted
  <2>5. CASE n = m /\ w = v
    <3>1. Running(n, w) /\ Running(n, w)'
      BY <2>2, <2>3, <2>4, <2>5 DEF Running
    <3>2. hook'[w] # "none" \/ w \in hookNotes'
      BY <2>4, <3>1 DEF Addressed
    <3>3. QED
      BY <3>1, <3>2 DEF DueOn, Due
  <2>6. CASE n # m \/ w # v
    BY <1>0, <2>3, <2>4, <2>6, DueElsewhere
  <2>7. QED
    BY <2>5, <2>6
<1>3. ASSUME NEW m \in 0..MaxEvents, NEW v \in Endpoints, job[m][v].pc = "save",
             job' = [job EXCEPT ![m][v].pc = "done"]
      PROVE  /\ job'[m][v].pc = "done"
             /\ \A i \in 0..MaxEvents, x \in Endpoints :
                   (i # m \/ x # v) => job'[i][x] = job[i][x]
  <2>1. job' = [job EXCEPT ![m][v] = [job[m][v] EXCEPT !.pc = "done"]]
    BY <1>0, <1>3 DEF JobsOK
  <2>2. [job[m][v] EXCEPT !.pc = "done"] \in GoodJob
        /\ [job[m][v] EXCEPT !.pc = "done"].pc = "done"
    BY <1>0, <1>3, JobEnds
  <2>3. PICK k \in GoodJob : k = [job[m][v] EXCEPT !.pc = "done"]
    BY <2>2
  <2>4. job' = [job EXCEPT ![m][v] = k] /\ k.pc = "done" /\ JobsOK
    BY <1>0, <2>1, <2>2, <2>3
  <2>5. QED
    BY <2>4 DEF JobsOK
<1>4. ASSUME NEW m \in 0..MaxEvents, NEW v \in Endpoints, SaveRow(m, v)
      PROVE  DueOn(n, w)
  <2>1. /\ job[m][v].pc = "save" /\ job' = [job EXCEPT ![m][v].pc = "done"]
        /\ rows' = IF hook[v] # "none" THEN rows \cup {RowOf(m, v)} ELSE rows
        /\ UNCHANGED <<hook, dispatching, hookNotes>>
    BY <1>4 DEF SaveRow
  <2>2. /\ job'[m][v].pc = "done"
        /\ \A i \in 0..MaxEvents, x \in Endpoints :
              (i # m \/ x # v) => job'[i][x] = job[i][x]
    BY <1>3, <2>1
  <2>3. CASE n = m /\ w = v
    <3>1. Running(n, w) /\ ~ Running(n, w)'
      BY <2>1, <2>2, <2>3 DEF Running
    <3>2. CASE hook[w] = "none"
      <4>1. w \in hookNotes'
        BY <2>1, <3>1, <3>2 DEF Addressed
      <4>2. QED
        BY <4>1, NotedIsDue
    <3>3. CASE hook[w] # "none"
      <4>1. RowOf(n, w).event = n /\ RowOf(n, w).hook = w
        BY DEF RowOf
      <4>2. RowOf(n, w) \in rows'
        BY <2>1, <2>3, <3>3
      <4>3. Entry(n, w)'
        BY <4>1, <4>2 DEF Entry
      <4>4. QED
        BY <3>1, <4>3 DEF DueOn, Due
    <3>4. QED
      BY <3>2, <3>3
  <2>4. CASE n # m \/ w # v
    <3>1. rows \subseteq rows' /\ job'[n][w] = job[n][w]
      BY <2>1, <2>2, <2>4
    <3>2. QED
      BY <1>0, <2>1, <3>1, DueElsewhere
  <2>5. QED
    BY <2>3, <2>4
<1>5. ASSUME NEW m \in 0..MaxEvents, DeliveryFault(m)
      PROVE  DueOn(n, w)
  <2>1. /\ hookNotes' = hookNotes \cup {m} /\ UNCHANGED <<hook, rows>>
        /\ dispatching \subseteq dispatching' \cup {m}
    BY <1>5 DEF DeliveryFault
  <2>2. n # m => job'[n][w] = job[n][w]
    <3>1. CASE UNCHANGED job
      BY <3>1
    <3>2. ASSUME NEW v \in Endpoints, job[m][v].pc = "save",
                 job' = [job EXCEPT ![m][v].pc = "done"]
          PROVE  n # m => job'[n][w] = job[n][w]
      BY <1>3, <3>2
    <3>3. QED
      BY <1>5, <3>1, <3>2 DEF DeliveryFault
  <2>3. CASE n = m
    <3>1. Due(n, w)'
      BY <2>1, <2>3 DEF Due
    <3>2. Running(n, w)' => Running(n, w)
      <4>1. CASE UNCHANGED job
        BY <4>1 DEF Running
      <4>2. ASSUME NEW v \in Endpoints, job[m][v].pc = "save",
                   job' = [job EXCEPT ![m][v].pc = "done"]
            PROVE  Running(n, w)' => Running(n, w)
        BY <1>3, <2>3, <4>2 DEF Running
      <4>3. QED
        BY <1>5, <4>1, <4>2 DEF DeliveryFault
    <3>3. Running(n, w)' => (hook[w] # "none" \/ w \in hookNotes)'
      BY <2>1, <3>2 DEF Addressed
    <3>4. QED
      BY <3>1, <3>3 DEF DueOn
  <2>4. CASE n # m
    BY <1>0, <2>1, <2>2, <2>4, DueElsewhere
  <2>5. QED
    BY <2>3, <2>4
<1>6. ASSUME NEW v \in Endpoints, TestWebhook(v)
      PROVE  DueOn(n, w)
  <2>1. /\ hook[v] # "none" /\ job[0][v].pc = "none" /\ job' = [job EXCEPT ![0][v].pc = "try"]
        /\ UNCHANGED <<hook, dispatching, rows, hookNotes>>
    BY <1>6 DEF TestWebhook
  <2>2. CASE n = 0 /\ w = v
    <3>1. ~ Running(n, w)
      BY <2>1, <2>2 DEF Running
    <3>2. Wanted(w, n)' <=> Wanted(w, n)
      BY <1>0, <2>1, WantedKept
    <3>3. Entry(n, w) => Entry(n, w)'
      BY <2>1 DEF Entry
    <3>4. Due(n, w) => Due(n, w)'
      BY <2>1, <3>1, <3>2, <3>3 DEF Due
    <3>5. hook'[w] # "none"
      BY <2>1, <2>2
    <3>6. QED
      BY <3>4, <3>5 DEF DueOn
  <2>3. CASE n # 0 \/ w # v
    <3>1. job'[n][w] = job[n][w]
      BY <1>0, <2>1, <2>3 DEF JobsOK
    <3>2. QED
      BY <1>0, <2>1, <3>1, DueElsewhere
  <2>4. QED
    BY <2>2, <2>3
<1>7. ASSUME NEW v \in Endpoints, NEW active \in {"active", "inactive"}, SetHook(v, active)
      PROVE  DueOn(n, w)
  <2>1. /\ hook' = [hook EXCEPT ![v] = active] /\ hookNotes' = hookNotes \cup {v}
        /\ UNCHANGED <<dispatching, job, rows>>
    BY <1>7 DEF SetHook
  <2>2. CASE w = v
    BY <2>1, <2>2, NotedIsDue
  <2>3. CASE w # v
    <3>1. hook'[w] = hook[w]
      BY <2>1, <2>3 DEF TInv, WebhookTypeOK
    <3>2. QED
      BY <1>0, <2>1, <3>1, DueElsewhere
  <2>4. QED
    BY <2>2, <2>3
<1>8. ASSUME NEW v \in Endpoints, RemoveHook(v)
      PROVE  DueOn(n, w)
  <2>1. /\ hook' = [hook EXCEPT ![v] = "none"] /\ hookNotes' = hookNotes \cup {v}
        /\ rows' = {d \in rows : d.hook # v} /\ UNCHANGED <<dispatching, job>>
    BY <1>8 DEF RemoveHook
  <2>2. CASE w = v
    BY <2>1, <2>2, NotedIsDue
  <2>3. CASE w # v
    <3>1. hook'[w] = hook[w]
      BY <2>1, <2>3 DEF TInv, WebhookTypeOK
    <3>2. Wanted(w, n)' <=> Wanted(w, n)
      BY <1>0, <3>1, WantedKept
    <3>3. Entry(n, w) => Entry(n, w)'
      BY <2>1, <2>3 DEF Entry
    <3>4. Running(n, w)' <=> Running(n, w)
      BY <2>1 DEF Running
    <3>5. Due(n, w) => Due(n, w)'
      BY <2>1, <3>2, <3>3, <3>4 DEF Due
    <3>6. Running(n, w)' => (hook[w] # "none" \/ w \in hookNotes)'
      BY <2>1, <3>1, <3>4 DEF Addressed
    <3>7. QED
      BY <3>5, <3>6 DEF DueOn
  <2>4. QED
    BY <2>2, <2>3
<1>9. QED
  BY <1>1, <1>2, <1>4, <1>5, <1>6, <1>7, <1>8 DEF WebhookNext, WebhookStep

LEMMA DueStep ==
    ASSUME TInv, WInv, Addressed, [Next]_vars, NEW n \in 0..MaxEvents, NEW w \in Endpoints
    PROVE  DueOn(n, w)
<1>1. ASSUME UNCHANGED <<events, hook, dispatching, job, rows, hookNotes>>
      PROVE  DueOn(n, w)
  BY <1>1, DueElsewhere
<1>2. ASSUME NEW r \in Requests, AnnounceToAll(r)
      PROVE  DueOn(n, w)
  <2>1. /\ events' = Append(events, req[r].event) /\ events \in Seq(Event)
        /\ dispatching' = dispatching \cup {Len(events) + 1}
        /\ UNCHANGED <<hook, job, rows, hookNotes>>
    BY <1>2 DEF AnnounceToAll, Announce, Dispatch, TInv, OrderTypeOK
  <2>2. dispatching \subseteq DOMAIN events
    BY DEF TInv, WebhookTypeOK
  <2>3. \A k \in DOMAIN events : events'[k] = events[k]
    BY <2>1
  <2>4. Running(n, w)' <=> Running(n, w)
    BY <2>1 DEF Running
  <2>5. Entry(n, w) => Entry(n, w)'
    BY <2>1 DEF Entry
  <2>6. ASSUME n \in dispatching, Wanted(w, n)
        PROVE  n \in dispatching' /\ Wanted(w, n)'
    <3>1. events'[n] = events[n]
      BY <2>2, <2>3, <2>6
    <3>2. QED
      BY <2>1, <2>6, <3>1, WantedKept
  <2>7. Due(n, w) => Due(n, w)'
    BY <2>1, <2>4, <2>5, <2>6 DEF Due
  <2>8. Running(n, w)' => (hook[w] # "none" \/ w \in hookNotes)'
    BY <2>1, <2>4 DEF Addressed
  <2>9. QED
    BY <2>7, <2>8 DEF DueOn
<1>3. CASE Restart
  <2>1. /\ hook' = hook /\ rows' = rows
        /\ job' = [i \in 0..MaxEvents |-> [x \in Endpoints |->
                     IF job[i][x].pc = "none" THEN NoJob
                     ELSE [job[i][x] EXCEPT !.pc = "done"]]]
        /\ hookNotes' = hookNotes \cup {i \in 0..MaxEvents :
                             \/ i \in dispatching
                             \/ \E x \in Endpoints : job[i][x].pc \in {"try", "body", "save"}}
    BY <1>3 DEF Restart, WebhookRestart
  <2>2. n \in dispatching \/ Running(n, w) => n \in hookNotes'
    BY <2>1 DEF Running
  <2>3. Entry(n, w) => Entry(n, w)'
    BY <2>1 DEF Entry
  <2>4. Due(n, w) => Due(n, w)'
    BY <2>1, <2>2, <2>3 DEF Due
  <2>5. ~ Running(n, w)'
    <3>1. job[n][w] \in GoodJob
      BY DEF TInv, JobsOK
    <3>2. job'[n][w] = IF job[n][w].pc = "none" THEN NoJob
                       ELSE [job[n][w] EXCEPT !.pc = "done"]
      BY <2>1
    <3>3. job'[n][w].pc \in {"none", "done"}
      BY <3>1, <3>2, JobForms, JobEnds
    <3>4. QED
      BY <3>3 DEF Running
  <2>6. QED
    BY <2>4, <2>5 DEF DueOn
<1>4. CASE WebhookNext /\ UNCHANGED <<orderVars, brokerVars, gatewayVars>>
  BY <1>4, WebhookKeeps
<1>5. CASE OrderNext /\ UNCHANGED <<brokerVars, webhookVars, gatewayVars>>
  BY <1>1, <1>5, EventsKept DEF webhookVars
<1>6. CASE UNCHANGED <<orderVars, webhookVars>>
  BY <1>1, <1>6 DEF webhookVars, orderVars
<1>7. QED
  BY <1>2, <1>3, <1>4, <1>5, <1>6 DEF Next, vars

\* What an endpoint wants of an event is not forgotten: from the announcement on it
\* is being looked up, attempted, about to be logged or logged, unless the endpoint
\* was edited, a query failed or the process restarted; and a delivery never runs
\* into an endpoint that is not there unless somebody removed it.
THEOREM DeliveriesKept == Spec => []Addressed /\ NoDeliveryLost
<1>1. Init => WInv /\ Addressed
  BY JobForms DEF Init, OrderInit, WebhookInit, WInv, RowsTold, Fresh, Addressed, Running
<1>2. Spec => []WInv
  BY Types, <1>1, WInvStep, PTL DEF Spec
<1>3. TInv /\ WInv /\ Addressed /\ [Next]_vars => Addressed'
  <2> SUFFICES ASSUME TInv, WInv, Addressed, [Next]_vars,
                      NEW n \in 0..MaxEvents, NEW w \in Endpoints
               PROVE  Running(n, w)' => (hook[w] # "none" \/ w \in hookNotes)'
    BY DEF Addressed
  <2>1. QED
    BY DueStep DEF DueOn
<1>4. Spec => []Addressed
  BY Types, <1>1, <1>2, <1>3, PTL DEF Spec
<1>5. TInv /\ WInv /\ Addressed /\ [Next]_vars
         => [\A n \in 0..MaxEvents, w \in Endpoints : Due(n, w) => Due(n, w)']_vars
  BY DueStep DEF DueOn
<1>6. QED
  BY Types, <1>2, <1>4, <1>5, PTL DEF Spec, NoDeliveryLost

=============================================================================
