---------------------------- MODULE OrderEvents -----------------------------
(***************************************************************************)
(* How an order's status is written and announced: the part of             *)
(* OrdersService.create and updateStatus after their checks, the           *)
(* completion by the kitchen display, the split of a bill, and the other   *)
(* writers of a status.  An announcement follows its write by one await    *)
(* and names the status that was read before it; a split announces nothing.*)
(* The listeners of an event, and the broker, are in Broker and Webhooks;  *)
(* whether an order is paid, which a split asks too, is in Payments.       *)
(***************************************************************************)
EXTENDS Handlers

CONSTANTS
    Orders,      \* the orders that may be placed
    Targets,     \* the statuses that updateStatus is asked for
    MaxEvents    \* bound: no instance announces more

VARIABLES
    status,       \* the column Order.status
    events,       \* what was announced, in order
    orderNotes    \* history: what has happened to each order

orderVars == <<status, events, orderNotes>>

Statuses == {"PREPARING", "COMPLETED", "DELIVERED", "CANCELLED"}

ASSUME TargetsAssumption == Targets \subseteq Statuses

OrderNotes == {"overlap", "silent", "kitchen"}

\* published: also sent to the message broker, as updateStatus does.
Event == [ order : Orders, from : Statuses \cup {"none"}, to : Statuses,
           published : BOOLEAN ]

OrderSteps == {"statusWrite", "announce", "splitWrite"}

\* The event of a split holds what it has read and writes, and is never announced.
OrderHandler == [ pc : OrderSteps, event : Event ]

Key(e) == IF e.to = "CANCELLED" THEN "ORDER_CANCELLED"
          ELSE IF e.from = "none" THEN "ORDER_CREATED" ELSE "ORDER_STATUS_CHANGED"

Handling(o) == {r \in Busy(OrderSteps) : req[r].event.order = o}

NoteOrder(o, why, condition) ==
    orderNotes' = [orderNotes EXCEPT ![o] = IF condition THEN @ \cup {why} ELSE @]

-----------------------------------------------------------------------------
CreateOrder(r, o) ==
    LET e == [order |-> o, from |-> "none", to |-> "PREPARING", published |-> TRUE] IN
    /\ status[o] = "none"
    /\ Begin(r, "create", [pc |-> "announce", event |-> e])
    /\ status' = [status EXCEPT ![o] = "PREPARING"]
    /\ UNCHANGED <<events, orderNotes>>

\* updateStatus: the status is read here and written after the stock is restored.
UpdateStatus(r, o, to) ==
    LET e == [order |-> o, from |-> status[o], to |-> to, published |-> TRUE] IN
    /\ status[o] # "none"
    /\ Begin(r, "update", [pc |-> "statusWrite", event |-> e])
    /\ NoteOrder(o, "overlap", Handling(o) # {})
    /\ UNCHANGED <<status, events>>

\* bumpItem, for the last dish of an order it has read as being prepared.
BumpLast(r, o) ==
    LET e == [order |-> o, from |-> "PREPARING", to |-> "COMPLETED",
              published |-> FALSE] IN
    /\ status[o] = "PREPARING"
    /\ Begin(r, "bump", [pc |-> "statusWrite", event |-> e])
    /\ orderNotes' = [orderNotes EXCEPT ![o] =
          @ \cup {"kitchen"} \cup (IF Handling(o) # {} THEN {"overlap"} ELSE {})]
    /\ UNCHANGED <<status, events>>

\* Mutation of StatusWrite: a cancelled order is announced and left as it is.
StatusWriteSkipped(r) ==
    /\ req[r].pc = "statusWrite"
    /\ status' = [status EXCEPT ![req[r].event.order] =
                    IF @ = "CANCELLED" THEN @ ELSE req[r].event.to]
    /\ Goto(r, "announce")
    /\ UNCHANGED <<events, orderNotes>>

StatusWrite(r) ==
    /\ req[r].pc = "statusWrite"
    /\ status' = [status EXCEPT ![req[r].event.order] = req[r].event.to]
    /\ Goto(r, "announce")
    /\ UNCHANGED <<events, orderNotes>>

\* The publication, the event of the process and the audit row start together,
\* and the handler waits for none of them.
Announce(r) ==
    /\ req[r].pc = "announce"
    /\ events' = Append(events, req[r].event)
    /\ End(r)
    /\ UNCHANGED <<status, orderNotes>>

\* splitOrder: the status is read for its check and for the new orders.  That the
\* order is not paid is a matter of Payments.
SplitOrder(r, o) ==
    LET e == [order |-> o, from |-> status[o], to |-> "CANCELLED", published |-> FALSE] IN
    /\ status[o] \notin {"none", "CANCELLED"}
    /\ Begin(r, "split", [pc |-> "splitWrite", event |-> e])
    /\ NoteOrder(o, "overlap", Handling(o) # {})
    /\ UNCHANGED <<status, events>>

\* Its transaction creates an order for each group, with the status that was
\* read, and cancels the original.
SplitWrite(r) ==
    LET e == req[r].event IN
    /\ req[r].pc = "splitWrite"
    /\ \E parts \in SUBSET {o \in Orders : status[o] = "none"} :
          /\ parts # {}
          /\ status' = [o \in Orders |-> IF o = e.order THEN e.to
                                         ELSE IF o \in parts THEN e.from ELSE status[o]]
          /\ orderNotes' = [o \in Orders |->
                IF o \in parts \cup {e.order} THEN orderNotes[o] \cup {"silent"}
                ELSE orderNotes[o]]
    /\ End(r)
    /\ UNCHANGED events

\* completeOrdersByTable and the answer to a request for the bill.
CompleteSilently(o) ==
    /\ status[o] = "PREPARING"
    /\ Spend("silent")
    /\ status' = [status EXCEPT ![o] = "COMPLETED"]
    /\ NoteOrder(o, "silent", TRUE)
    /\ UNCHANGED <<events, req>>

OrderFault(r) ==
    /\ req[r].pc \in {"statusWrite", "splitWrite"}
    /\ Throw(r)
    /\ UNCHANGED orderVars

\* The part of a restart: a status that was written is not announced any more.
OrderRestart ==
    /\ orderNotes' = [o \in Orders |->
          IF \E r \in Handling(o) : req[r].pc = "announce"
          THEN orderNotes[o] \cup {"silent"} ELSE orderNotes[o]]
    /\ UNCHANGED <<status, events>>

-----------------------------------------------------------------------------
OrderInit ==
    /\ status = [o \in Orders |-> "none"]
    /\ events = << >>
    /\ orderNotes = [o \in Orders |-> {}]

\* Every step of the orders but the announcement, which has listeners.
OrderNext ==
    \/ \E r \in Requests :
          \/ StatusWrite(r)
          \/ SplitWrite(r)
          \/ OrderFault(r)
          \/ \E o \in Orders : \/ CreateOrder(r, o)
                               \/ BumpLast(r, o)
                               \/ SplitOrder(r, o)
                               \/ \E to \in Targets : UpdateStatus(r, o, to)
    \/ \E o \in Orders : CompleteSilently(o)

-----------------------------------------------------------------------------
(* Properties. *)

OrderTypeOK ==
    /\ status \in [Orders -> Statuses \cup {"none"}]
    /\ events \in Seq(Event)
    /\ orderNotes \in [Orders -> SUBSET OrderNotes]

\* The last of the announcements at the positions P names status s, the first of
\* all follows none.
Left(P, s) ==
    \/ P = {} /\ s = "none"
    \/ \E k \in P : (\A j \in P : j <= k) /\ events[k].to = s

ToldOf(o) == {k \in DOMAIN events : events[k].order = o}

\* The announcements at the positions P tell the story from the order's creation
\* to its status now.
Story(o, P) ==
    /\ \A k \in P : Left({j \in P : j < k}, events[k].from)
    /\ Left(P, status[o])

\* When nobody is at work on an order, what its listeners were told is a chain
\* from its creation to its status, unless two writers overlapped or a silent one
\* wrote (a split, the completion of a table, a process that ended); what the
\* broker was told is one too unless, besides, the kitchen completed the order.
AnnouncementsFollowOrder ==
    \A o \in Orders : Handling(o) = {} /\ {"overlap", "silent"} \cap orderNotes[o] = {} =>
        /\ Story(o, ToldOf(o))
        /\ "kitchen" \notin orderNotes[o] => Story(o, {k \in ToldOf(o) : events[k].published})
=============================================================================
