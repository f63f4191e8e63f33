------------------------------- MODULE Floor --------------------------------
(***************************************************************************)
(* The floor and the kitchen: the status of the tables and their rows in   *)
(* TableSession (TablesService), the requests for the bill                 *)
(* (ServiceRequestsService), and the status of orders and dishes           *)
(* (KDSService and OrdersService).                                         *)
(*                                                                         *)
(* Staff seat guests, move them, merge tables and close sessions from      *)
(* several terminals, while the kitchen bumps dishes.  Only the transfer   *)
(* writes in a transaction, and it checks before it.  Each element of      *)
(* Requests is a slot in which one handler runs; an action is one query.   *)
(* A handler of a single query, or whose first query only finds that a row *)
(* exists, is one action.  The Redis sessions are left to TableSessions,   *)
(* stock to Stock, payments and splits to Payments.  All tables belong to  *)
(* one branch.                                                             *)
(***************************************************************************)
EXTENDS Integers, Sequences, FiniteSetsExt

CONSTANTS
    Requests,    \* slots for handlers that run at the same time
    Tables, NoTable,
    Dishes,      \* the dishes of every order
    Budgets      \* bound: how many requests of each kind a behaviour may have

Kinds == {"open", "close", "move", "merge", "unmerge", "staff", "bill", "answer",
          "order", "pay", "bump", "dish", "status", "complete", "fault"}

ASSUME FloorAssumption ==
    /\ NoTable \notin Tables
    /\ Dishes # {}      \* an order without a dish would never be completed
    /\ Budgets \subseteq [Kinds -> Nat]

VARIABLES
    status,     \* Table.status
    merged,     \* Table.mergedWith
    sessions,   \* the TableSession table
    orders,     \* the Order table with its dishes
    bills,      \* the ServiceRequest rows of type PAYMENT
    req,        \* the handler running in each slot
    excuses,    \* history: what has happened at each table
    budget      \* the requests that may still come

vars == <<status, merged, sessions, orders, bills, req, excuses, budget>>

TableStatus == {"AVAILABLE", "OCCUPIED", "RESERVED", "BILLING", "CLEANING"}
OrderStatus == {"PREPARING", "COMPLETED", "DELIVERED", "CANCELLED"}

Session == [ table : Tables, open : BOOLEAN ]

\* done: whether the status of the dish is COMPLETED; any other text is not.
\* seat: history, the session of the guests who ordered (0: no single one).
\* cancelled: history, it was CANCELLED once.  notes: history.
Order == [ table : Tables, status : OrderStatus, done : [Dishes -> BOOLEAN],
           paid : BOOLEAN, seat : Nat, cancelled : BOOLEAN,
           notes : SUBSET {"staff", "bill", "undone", "overtaken", "fault"} ]

Bill == [ table : Tables, status : {"PENDING", "COMPLETED"} ]

Idle == [ pc |-> "idle", table |-> NoTable, to |-> NoTable, at |-> {},
          session |-> 0, order |-> 0, dish |-> {}, done |-> FALSE,
          preparing |-> FALSE, todo |-> {} ]

\* at: the tables the handler will write to.  dish: the one it bumps.
Handler == [ pc        : {"idle", "openCheck", "openInsert", "openMark",
                          "closeWrite", "closeMark",
                          "moveTo", "moveSession", "moveOrders", "moveCommit",
                          "unmergeFree", "unmergeWrite", "billMark", "answerOrders",
                          "bumpWrite", "bumpCheck", "bumpComplete"},
             table     : Tables \cup {NoTable},
             to        : Tables \cup {NoTable},
             at        : SUBSET Tables,
             session   : Nat,
             order     : Nat,
             dish      : SUBSET Dishes,
             done      : BOOLEAN,
             preparing : BOOLEAN,
             todo      : SUBSET Nat ]

Excuses == {"overlap", "bill", "staff", "unmerged", "fault"}

-----------------------------------------------------------------------------
OpenAt(t) == {i \in DOMAIN sessions : sessions[i].table = t /\ sessions[i].open}

\* The orders a table still owes for.
Active(o) == orders[o].status # "CANCELLED" /\ ~orders[o].paid

ActiveAt(t) == {o \in DOMAIN orders : orders[o].table = t /\ Active(o)}

Quiet(t) == \A r \in Requests : t \notin req[r].at

Bumping(o) == \E r \in Requests : req[r].pc # "idle" /\ req[r].order = o

Note(e, why, T, condition) ==
    [t \in Tables |-> IF t \in T /\ condition THEN e[t] \cup {why} ELSE e[t]]

\* A handler that starts while another is at work on one of its tables.
Overlap(T) == Note(excuses, "overlap", T, \E t \in T : ~Quiet(t))

\* The orders of S, changed by f.
Changed(S, f(_)) == [o \in DOMAIN orders |-> IF o \in S THEN f(orders[o]) ELSE orders[o]]

Spend(k) == budget[k] > 0 /\ budget' = [budget EXCEPT ![k] = @ - 1]

Begin(r, h) == req[r].pc = "idle" /\ req' = [req EXCEPT ![r] = h]
Goto(r, pc) == req' = [req EXCEPT ![r].pc = pc]
End(r)      == req' = [req EXCEPT ![r] = Idle]

-----------------------------------------------------------------------------
(* TablesService.openSession. *)

\* The sessions are looked at only when the table is marked as occupied.
Open(r, t) ==
    /\ Spend("open")
    /\ Begin(r, [Idle EXCEPT
                    !.pc = IF status[t] = "OCCUPIED" THEN "openCheck" ELSE "openInsert",
                    !.table = t, !.at = {t}])
    /\ excuses' = Overlap({t})
    /\ UNCHANGED <<status, merged, sessions, orders, bills>>

\* Mutation of Refused: the open sessions of the table are not looked for.
NeverRefused(t) == FALSE

Refused(t) == OpenAt(t) # {}

OpenCheck(r) ==
    /\ req[r].pc = "openCheck"
    /\ IF Refused(req[r].table) THEN End(r) ELSE Goto(r, "openInsert")
    /\ UNCHANGED <<status, merged, sessions, orders, bills, excuses, budget>>

OpenInsert(r) ==
    /\ req[r].pc = "openInsert"
    /\ sessions' = Append(sessions, [table |-> req[r].table, open |-> TRUE])
    /\ Goto(r, "openMark")
    /\ UNCHANGED <<status, merged, orders, bills, excuses, budget>>

OpenMark(r) ==
    /\ req[r].pc = "openMark"
    /\ status' = [status EXCEPT ![req[r].table] = "OCCUPIED"]
    /\ End(r)
    /\ UNCHANGED <<merged, sessions, orders, bills, excuses, budget>>

-----------------------------------------------------------------------------
(* TablesService.closeSession. *)

\* findFirst without an order: any open session of the table.
Close(r, t, i) ==
    /\ Spend("close")
    /\ i \in OpenAt(t)
    /\ Begin(r, [Idle EXCEPT !.pc = "closeWrite", !.table = t, !.at = {t},
                             !.session = i])
    /\ excuses' = Overlap({t})
    /\ UNCHANGED <<status, merged, sessions, orders, bills>>

CloseWrite(r) ==
    /\ req[r].pc = "closeWrite"
    /\ sessions' = [sessions EXCEPT ![req[r].session].open = FALSE]
    /\ Goto(r, "closeMark")
    /\ UNCHANGED <<status, merged, orders, bills, excuses, budget>>

CloseMark(r) ==
    /\ req[r].pc = "closeMark"
    /\ status' = [status EXCEPT ![req[r].table] = "CLEANING"]
    /\ End(r)
    /\ UNCHANGED <<merged, sessions, orders, bills, excuses, budget>>

-----------------------------------------------------------------------------
(* TablesService.transferTable. *)

\* Bound on the input: nobody moves guests to the table they sit at.
Move(r, t, to) ==
    /\ Spend("move")
    /\ t # to
    /\ status[t] \in {"OCCUPIED", "BILLING"}
    /\ Begin(r, [Idle EXCEPT !.pc = "moveTo", !.table = t, !.to = to, !.at = {t, to}])
    /\ excuses' = Overlap({t, to})
    /\ UNCHANGED <<status, merged, sessions, orders, bills>>

Free(t) == status[t] = "AVAILABLE"

MoveTo(r) ==
    /\ req[r].pc = "moveTo"
    /\ IF Free(req[r].to) THEN Goto(r, "moveSession") ELSE End(r)
    /\ UNCHANGED <<status, merged, sessions, orders, bills, excuses, budget>>

MoveSession(r) ==
    /\ req[r].pc = "moveSession"
    /\ LET found == OpenAt(req[r].table) IN
       \E i \in IF found = {} THEN {0} ELSE found :
          req' = [req EXCEPT ![r].pc = "moveOrders", ![r].session = i]
    /\ UNCHANGED <<status, merged, sessions, orders, bills, excuses, budget>>

\* Mutation of Owed: only orders that are in the kitchen move.
OwedInKitchen(t) == {o \in ActiveAt(t) : orders[o].status = "PREPARING"}

Owed(t) == ActiveAt(t)

MoveOrders(r) ==
    LET S == Owed(req[r].table) IN
    /\ req[r].pc = "moveOrders"
    /\ IF S = {} THEN End(r)
       ELSE req' = [req EXCEPT ![r].pc = "moveCommit", ![r].todo = S]
    /\ UNCHANGED <<status, merged, sessions, orders, bills, excuses, budget>>

\* The transaction.  History: the guests' seat is the new session, and the new
\* table inherits what has happened at the old one.
MoveCommit(r) ==
    LET t   == req[r].table
        to  == req[r].to
        old == req[r].session
        new == Len(sessions) + 1 IN
    /\ req[r].pc = "moveCommit"
    /\ orders' = [o \in DOMAIN orders |->
                    [orders[o] EXCEPT
                        !.table = IF o \in req[r].todo THEN to ELSE @,
                        !.seat  = IF old # 0 /\ @ = old /\ Active(o) THEN new ELSE @]]
    /\ sessions' = Append([i \in DOMAIN sessions |->
                              IF i = old THEN [sessions[i] EXCEPT !.open = FALSE]
                                         ELSE sessions[i]],
                          [table |-> to, open |-> TRUE])
    /\ status' = [status EXCEPT ![t] = "AVAILABLE", ![to] = "OCCUPIED"]
    /\ excuses' = [excuses EXCEPT ![to] = @ \cup excuses[t]]
    /\ End(r)
    /\ UNCHANGED <<merged, bills, budget>>

-----------------------------------------------------------------------------
(* mergeTables, unmergeTable, update, updateStatus of TablesService. *)

\* Neither the status of the tables nor their sessions are looked at.  Bound on
\* the input: nobody merges a table with itself.
Merge(t, S) ==
    /\ Spend("merge")
    /\ t \notin S
    /\ merged' = [merged EXCEPT ![t] = S]
    /\ status' = [status EXCEPT ![t] = "OCCUPIED"]
    /\ UNCHANGED <<sessions, orders, bills, req, excuses>>

Unmerge(r, t) ==
    LET T == {t} \cup merged[t] IN
    /\ Spend("unmerge")
    /\ Begin(r, [Idle EXCEPT
                    !.pc = IF merged[t] = {} THEN "unmergeWrite" ELSE "unmergeFree",
                    !.table = t, !.at = T])
    /\ excuses' = Note(Overlap(T), "unmerged", T, TRUE)
    /\ UNCHANGED <<status, merged, sessions, orders, bills>>

UnmergeFree(r) ==
    /\ req[r].pc = "unmergeFree"
    /\ status' = [t \in Tables |-> IF t \in req[r].at \ {req[r].table}
                                   THEN "AVAILABLE" ELSE status[t]]
    /\ Goto(r, "unmergeWrite")
    /\ UNCHANGED <<merged, sessions, orders, bills, excuses, budget>>

UnmergeWrite(r) ==
    /\ req[r].pc = "unmergeWrite"
    /\ merged' = [merged EXCEPT ![req[r].table] = {}]
    /\ status' = [status EXCEPT ![req[r].table] = "AVAILABLE"]
    /\ End(r)
    /\ UNCHANGED <<sessions, orders, bills, excuses, budget>>

\* update and updateStatus: any status, with any list of merged tables.
SetTableStatus(t, s, S) ==
    /\ Spend("staff")
    /\ t \notin S
    /\ status' = [status EXCEPT ![t] = s]
    /\ merged' = [merged EXCEPT ![t] = S]
    /\ excuses' = Note(excuses, "staff", {t}, status[t] = "OCCUPIED" /\ s # "OCCUPIED")
    /\ UNCHANGED <<sessions, orders, bills, req>>

-----------------------------------------------------------------------------
(* ServiceRequestsService, for the type PAYMENT. *)

CreateBill(r, t) ==
    /\ Spend("bill")
    /\ bills' = Append(bills, [table |-> t, status |-> "PENDING"])
    /\ Begin(r, [Idle EXCEPT !.pc = "billMark", !.table = t, !.at = {t}])
    /\ excuses' = Note(Overlap({t}), "bill", {t}, TRUE)
    /\ UNCHANGED <<status, merged, sessions, orders>>

BillMark(r) ==
    /\ req[r].pc = "billMark"
    /\ status' = [status EXCEPT ![req[r].table] = "BILLING"]
    /\ End(r)
    /\ UNCHANGED <<merged, sessions, orders, bills, excuses, budget>>

\* Answered again, or put back to PENDING, it is the same handler.
AnswerBill(r, b, s) ==
    /\ Spend("answer")
    /\ bills' = [bills EXCEPT ![b].status = s]
    /\ IF s = "COMPLETED"
       THEN Begin(r, [Idle EXCEPT !.pc = "answerOrders", !.table = bills[b].table])
       ELSE req[r].pc = "idle" /\ UNCHANGED req
    /\ UNCHANGED <<status, merged, sessions, orders, excuses>>

Finishable(o, t) == orders[o].table = t /\ orders[o].status = "PREPARING"

\* The updateMany of updateStatus and completeOrdersByTable: the orders that are
\* at the table by now.
Finish(t) ==
    LET finished(o) == [o EXCEPT !.status = "COMPLETED", !.notes = @ \cup {"bill"}] IN
    orders' = Changed({o \in DOMAIN orders : Finishable(o, t)}, finished)

AnswerOrders(r) ==
    /\ req[r].pc = "answerOrders"
    /\ Finish(req[r].table)
    /\ End(r)
    /\ UNCHANGED <<status, merged, sessions, bills, excuses, budget>>

CompleteOrdersByTable(t) ==
    /\ Spend("complete")
    /\ Finish(t)
    /\ UNCHANGED <<status, merged, sessions, bills, req, excuses>>

-----------------------------------------------------------------------------
(* KDSService.bumpItem. *)

Bump(r, o, d, done) ==
    /\ Spend("bump")
    /\ Begin(r, [Idle EXCEPT !.pc = "bumpWrite", !.order = o, !.dish = {d},
                             !.done = done,
                             !.preparing = orders[o].status = "PREPARING"])
    /\ UNCHANGED <<status, merged, sessions, orders, bills, excuses>>

\* Mutation of Cooked: the other dishes are forgotten.
CookedAlone(o, D, done) == [o EXCEPT !.done = [d \in D |-> done]]

\* The status of the dishes in D, written whatever it was.
Cooked(o, D, done) == [o EXCEPT !.done = [d \in Dishes |-> IF d \in D THEN done ELSE @[d]]]

BumpWrite(r) ==
    LET h == req[r]
        cooked(o) == [Cooked(o, h.dish, h.done) EXCEPT
                        !.notes = IF ~h.done /\ \E d \in h.dish : o.done[d]
                                  THEN @ \cup {"undone"} ELSE @] IN
    /\ h.pc = "bumpWrite"
    /\ orders' = Changed({h.order}, cooked)
    /\ Goto(r, "bumpCheck")
    /\ UNCHANGED <<status, merged, sessions, bills, excuses, budget>>

\* All dishes, as they are after the write of this one.
AllDone(o) == \A d \in Dishes : orders[o].done[d]

\* Mutation of Completable: the order's status is not looked at.
CompletableAny(h) == AllDone(h.order)

\* Mutation of Completable: one dish is enough.
CompletableEarly(h) == h.preparing /\ \E d \in Dishes : orders[h.order].done[d]

\* The dishes as they are now, and the order's status as it was at first.
Completable(h) == AllDone(h.order) /\ h.preparing

BumpCheck(r) ==
    /\ req[r].pc = "bumpCheck"
    /\ IF Completable(req[r]) THEN Goto(r, "bumpComplete") ELSE End(r)
    /\ UNCHANGED <<status, merged, sessions, orders, bills, excuses, budget>>

BumpComplete(r) ==
    LET completed(o) == [o EXCEPT !.status = "COMPLETED"] IN
    /\ req[r].pc = "bumpComplete"
    /\ orders' = Changed({req[r].order}, completed)
    /\ End(r)
    /\ UNCHANGED <<status, merged, sessions, bills, excuses, budget>>

-----------------------------------------------------------------------------
(* OrdersService, and the payments of an order. *)

\* create takes any table, whatever its status.
CreateOrder(t) ==
    /\ Spend("order")
    /\ \E i \in IF Cardinality(OpenAt(t)) = 1 THEN OpenAt(t) ELSE {0} :
          orders' = Append(orders,
                       [ table |-> t, status |-> "PREPARING",
                         done |-> [d \in Dishes |-> FALSE], paid |-> FALSE,
                         seat |-> i, cancelled |-> FALSE, notes |-> {} ])
    /\ excuses' = Overlap({t})
    /\ UNCHANGED <<status, merged, sessions, bills, req>>

\* updateStatus: the last write, which nothing it has read can stop.
SetOrderStatus(o, s) ==
    LET why == IF s # "CANCELLED" THEN {"staff"}
               ELSE IF Bumping(o) THEN {"overtaken"} ELSE {} IN
    /\ Spend("status")
    /\ orders' = [orders EXCEPT ![o].status = s,
                                ![o].cancelled = @ \/ s = "CANCELLED",
                                ![o].notes = @ \cup why]
    /\ excuses' = Overlap({orders[o].table})
    /\ UNCHANGED <<status, merged, sessions, bills, req>>

\* updateItemStatus: unlike the kitchen display it never completes the order.
SetDish(o, d, done) ==
    LET cooked == Cooked(orders[o], {d}, done) IN
    /\ Spend("dish")
    /\ orders' = [orders EXCEPT ![o] = [cooked EXCEPT !.notes = @ \cup {"staff"}]]
    /\ UNCHANGED <<status, merged, sessions, bills, req, excuses>>

\* A row with status PAID exists, or does not any more: the bill and its refund.
\* A refund does not look at the order.
Pay(o) ==
    /\ Spend("pay")
    /\ orders[o].paid \/ orders[o].status # "CANCELLED"
    /\ orders' = [orders EXCEPT ![o].paid = ~@]
    /\ excuses' = Overlap({orders[o].table})
    /\ UNCHANGED <<status, merged, sessions, bills, req>>

-----------------------------------------------------------------------------
\* A query of the handler fails and it throws; what it wrote stays.
Abort(r) ==
    LET fault(o) == [o EXCEPT !.notes = @ \cup {"fault"}] IN
    /\ Spend("fault")
    /\ req[r].pc # "idle"
    /\ excuses' = Note(excuses, "fault", req[r].at, TRUE)
    /\ orders' = Changed({req[r].order}, fault)
    /\ End(r)
    /\ UNCHANGED <<status, merged, sessions, bills>>

Init ==
    /\ status = [t \in Tables |-> "AVAILABLE"]
    /\ merged = [t \in Tables |-> {}]
    /\ sessions = << >>
    /\ orders = << >>
    /\ bills = << >>
    /\ req = [r \in Requests |-> Idle]
    /\ excuses = [t \in Tables |-> {}]
    /\ budget \in Budgets

HandlerStep(r) ==
    \/ OpenCheck(r) \/ OpenInsert(r) \/ OpenMark(r)
    \/ CloseWrite(r) \/ CloseMark(r)
    \/ MoveTo(r) \/ MoveSession(r) \/ MoveOrders(r) \/ MoveCommit(r)
    \/ UnmergeFree(r) \/ UnmergeWrite(r)
    \/ BillMark(r) \/ AnswerOrders(r)
    \/ BumpWrite(r) \/ BumpCheck(r) \/ BumpComplete(r)

NewRequest(r, t) ==
    \/ Open(r, t)
    \/ \E i \in DOMAIN sessions : Close(r, t, i)
    \/ \E to \in Tables : Move(r, t, to)
    \/ Unmerge(r, t)
    \/ CreateBill(r, t)

KitchenRequest(r) ==
    \/ \E b \in DOMAIN bills, s \in {"PENDING", "COMPLETED"} : AnswerBill(r, b, s)
    \/ \E o \in DOMAIN orders, d \in Dishes, done \in BOOLEAN : Bump(r, o, d, done)

\* Handlers of one step.
TableStep(t) ==
    \/ \E S \in SUBSET Tables : Merge(t, S)
    \/ \E s \in TableStatus, S \in SUBSET Tables : SetTableStatus(t, s, S)
    \/ CompleteOrdersByTable(t)
    \/ CreateOrder(t)

OrderStep(o) ==
    \/ \E s \in OrderStatus : SetOrderStatus(o, s)
    \/ \E d \in Dishes, done \in BOOLEAN : SetDish(o, d, done)
    \/ Pay(o)

Next ==
    \/ \E r \in Requests : \/ HandlerStep(r) \/ Abort(r) \/ KitchenRequest(r)
                           \/ \E t \in Tables : NewRequest(r, t)
    \/ \E t \in Tables : TableStep(t)
    \/ \E o \in DOMAIN orders : OrderStep(o)

Spec == Init /\ [][Next]_vars

-----------------------------------------------------------------------------
(* Properties. *)

TypeOK ==
    /\ status \in [Tables -> TableStatus]
    /\ merged \in [Tables -> SUBSET Tables]
    /\ sessions \in Seq(Session)
    /\ orders \in Seq(Order)
    /\ bills \in Seq(Bill)
    /\ req \in [Requests -> Handler]
    /\ excuses \in [Tables -> SUBSET Excuses]
    /\ budget \in [Kinds -> Nat]

\* A table has at most one session, through any openings, transfers, merges and
\* closings, unless its requests overlapped, one failed, or the mark that
\* openSession relies on was taken off by a request for the bill, an unmerge or
\* staff: openSession looks for a session at occupied tables only.
OneOpenSession ==
    \A t \in Tables : excuses[t] = {} => Cardinality(OpenAt(t)) <= 1

\* Guests who sit at a table are visible: between requests, a table with an open
\* session is shown as occupied, so that nobody is moved to it, with the same
\* excuses.
SeatedTableOccupied ==
    \A t \in Tables :
        excuses[t] = {} /\ Quiet(t) /\ OpenAt(t) # {} => status[t] = "OCCUPIED"

\* A table where guests sit has one session and shows it.
SeatedTablesHold == OneOpenSession /\ SeatedTableOccupied

\* Guests who are moved, once or often, take everything they owe for along: an
\* unpaid order is at the table of its guests' session while they sit there,
\* unless one of the two tables has an excuse, or a bump brought the order back
\* after it was cancelled.
OrdersFollowGuests ==
    \A o \in DOMAIN orders :
        Active(o) /\ orders[o].seat # 0 /\ "overtaken" \notin orders[o].notes =>
            LET s == sessions[orders[o].seat] IN
            s.open /\ excuses[s.table] = {} /\ excuses[orders[o].table] = {}
                => orders[o].table = s.table

\* However the stations of the kitchen bump the dishes of an order at the same
\* time, the order is completed by the last of them and by no earlier one: once
\* nobody is at work on it, it is in preparation exactly while a dish is not
\* done.  Not so if the bill or staff set its status or its dishes, a dish was
\* taken back, or a bump failed.
LastDishCompletes ==
    \A o \in DOMAIN orders :
        ~Bumping(o) /\ orders[o].status # "CANCELLED"
                    /\ orders[o].notes \subseteq {"overtaken"}
            => (orders[o].status = "PREPARING" <=> ~AllDone(o))

\* A cancelled order stays cancelled, whatever the kitchen bumps and whoever
\* answers its table's requests for the bill, unless staff set its status or it
\* was cancelled while it was bumped.
CancelledStays ==
    \A o \in DOMAIN orders :
        orders[o].cancelled /\ {"staff", "overtaken"} \cap orders[o].notes = {}
            => orders[o].status = "CANCELLED"
=============================================================================
