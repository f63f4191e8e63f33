--------------------------- MODULE TableSessions ---------------------------
(***************************************************************************)
(* The ordering sessions of the tables: RedisService, the session part of  *)
(* OrdersService.create, the session endpoints of TablesController, and    *)
(* the handlers that end a session (payments, requests for the bill) or    *)
(* move a table's orders (TablesService.transferTable).                    *)
(*                                                                         *)
(* A session is two Redis keys: one from the session to its table and one  *)
(* from the table to its session.  Both are written and deleted by a       *)
(* pipeline, which is not a transaction, after a check made by an earlier  *)
(* command: the commands of several processes may interleave.  Each        *)
(* element of Requests is a slot in which one handler runs; an action is   *)
(* one command or query.  Branches are left out: all tables belong to one. *)
(* What a payment checks and writes is left to Payments.                   *)
(***************************************************************************)
EXTENDS Integers, Sequences, FiniteSetsExt

CONSTANTS
    Requests,     \* slots for handlers that run at the same time
    Tables, NoTable,
    Sessions,     \* the UUIDs that will be drawn
    NoSession,
    MaxOrders,    \* bound: rows of the Order table
    MaxEvents     \* bound: everything but orders and payments, added up

ASSUME SessionsAssumption ==
    /\ NoTable \notin Tables
    /\ NoSession \notin Sessions

VARIABLES
    session,   \* the keys table_session:<id>, each with its table
    active,    \* the keys table_active:<table>, each with its session
    orders,    \* the Order table
    issued,    \* history: the tables for which each id was registered
    req,       \* the handler running in each slot
    excuses,   \* history: what has happened at each table
    events     \* requests of staff, expired keys and lost commands so far

vars == <<session, active, orders, issued, req, excuses, events>>

\* first: history, the table the order was placed for.
Order == [ table : Tables, first : Tables, session : Sessions,
           status : {"open", "paid", "cancelled"} ]

Idle == [ pc |-> "idle", kind |-> "none", table |-> NoTable, to |-> NoTable,
          session |-> NoSession, todo |-> {} ]

Handler == [ pc      : {"idle", "setSession", "setTable", "insert", "get",
                        "delSession", "delTable", "move"},
             kind    : {"none", "order", "register", "clear", "move"},
             table   : Tables \cup {NoTable},
             to      : Tables \cup {NoTable},
             session : Sessions \cup {NoSession},
             todo    : SUBSET Nat ]

Excuses == {"overlap", "overwritten", "partly paid", "bill", "moved", "reopened",
            "elsewhere", "expired", "lost"}

-----------------------------------------------------------------------------
At(h) == {h.table, h.to} \cap Tables

Fresh(s) == issued[s] = {}

Open(t) == {o \in DOMAIN orders : orders[o].table = t /\ orders[o].status = "open"}

\* Excuse why has come to hold at the tables of T, when condition is true.
Note(e, why, T, condition) ==
    [t \in Tables |-> IF t \in T /\ condition THEN e[t] \cup {why} ELSE e[t]]

\* A handler that starts while another is at work on the same table overlaps it.
Overlap(h) ==
    Note(excuses, "overlap",
         At(h), \E q \in Requests : At(req[q]) \cap At(h) # {})

Event == events < MaxEvents /\ events' = events + 1

Begin(r, h) == /\ req[r].pc = "idle"
               /\ req' = [req EXCEPT ![r] = h]
Goto(r, pc) == req' = [req EXCEPT ![r].pc = pc]
End(r)      == req' = [req EXCEPT ![r] = Idle]

\* Bound on the input: a request for an order reserves its row.
RoomForOrder ==
    Len(orders) + Cardinality({q \in Requests : req[q].kind = "order"}) < MaxOrders

-----------------------------------------------------------------------------
(* OrdersService.create. *)

\* Mutation of Validated: the table of the session is not compared.
ValidatedAnywhere(s, t) == session[s] # NoTable

\* validateSession finds the session, and it belongs to the table of the order.
Validated(s, t) == session[s] = t

OrderWithSession(r, t, s) ==
    LET h == [Idle EXCEPT !.pc = "insert", !.kind = "order", !.table = t,
                          !.session = s] IN
    /\ RoomForOrder
    /\ ~Fresh(s)
    /\ Validated(s, t)
    /\ Begin(r, h)
    /\ excuses' = Overlap(h)
    /\ UNCHANGED <<session, active, orders, issued, events>>

TableFree(t) == active[t] = NoSession

\* checkTableAccess; without an id, s is NoSession.
CanAccess(t, s) == active[t] \in {NoSession, s}

\* Without a session (staff): the table must have none, and gets a new one.
OrderWithoutSession(r, t, s) ==
    LET h == [Idle EXCEPT !.pc = "setSession", !.kind = "order", !.table = t,
                          !.session = s] IN
    /\ RoomForOrder
    /\ TableFree(t)
    /\ Fresh(s)
    /\ issued' = [issued EXCEPT ![s] = {t}]
    /\ Begin(r, h)
    /\ excuses' = Overlap(h)
    /\ UNCHANGED <<session, active, orders, events>>

NewRow(h) == [ table |-> h.table, first |-> h.table, session |-> h.session,
               status |-> "open" ]

InsertOrder(r) ==
    /\ req[r].pc = "insert"
    /\ orders' = Append(orders, NewRow(req[r]))
    /\ End(r)
    /\ UNCHANGED <<session, active, issued, excuses, events>>

\* The stock is checked after the session is registered, and may be short.
Reject(r) ==
    /\ req[r].pc = "insert"
    /\ End(r)
    /\ UNCHANGED <<session, active, orders, issued, excuses, events>>

-----------------------------------------------------------------------------
(* registerSession, called by create and by the endpoint register-session. *)

\* An id that is known is registered once more, at its table or at another one.
Again(s, t) == IF issued[s] \subseteq {t} THEN "reopened" ELSE "elsewhere"

\* The endpoint takes any id for any table: the id of a QR code just printed, or
\* one that it has registered before, at this table or at another.  It looks
\* neither at the keys of the id nor at the session that the table may have.
Register(r, t, s) ==
    LET h == [Idle EXCEPT !.pc = "setSession", !.kind = "register", !.table = t,
                          !.session = s] IN
    /\ Event
    /\ issued' = [issued EXCEPT ![s] = @ \cup {t}]
    /\ Begin(r, h)
    /\ excuses' = Note(Note(Overlap(h), "overwritten", {t}, active[t] \notin {NoSession, s}),
                       Again(s, t), issued[s] \cup {t}, ~Fresh(s))
    /\ UNCHANGED <<session, active, orders>>

SetSession(r) ==
    /\ req[r].pc = "setSession"
    /\ session' = [session EXCEPT ![req[r].session] = req[r].table]
    /\ Goto(r, "setTable")
    /\ UNCHANGED <<active, orders, issued, excuses, events>>

\* Mutation of TableValue: the number of the table is stored under its own key.
TableValueSwapped(h) == h.table

TableValue(h) == h.session

SetTable(r) ==
    /\ req[r].pc = "setTable"
    /\ active' = [active EXCEPT ![req[r].table] = TableValue(req[r])]
    /\ IF req[r].kind = "order" THEN Goto(r, "insert") ELSE End(r)
    /\ UNCHANGED <<session, orders, issued, excuses, events>>

-----------------------------------------------------------------------------
(* clearSessionForTable, which the callers do not wait for. *)

Clear(t) == [Idle EXCEPT !.pc = "get", !.kind = "clear", !.table = t]

\* A payment for orders of one table clears its session, whether or not it has
\* other unpaid orders.
Pay(r, t, G) ==
    /\ G # {}
    /\ G \subseteq Open(t)
    /\ orders' = [o \in DOMAIN orders |->
                    IF o \in G THEN [orders[o] EXCEPT !.status = "paid"]
                               ELSE orders[o]]
    /\ Begin(r, Clear(t))
    /\ excuses' = Note(Overlap(Clear(t)), "partly paid", {t}, G # Open(t))
    /\ UNCHANGED <<session, active, issued, events>>

\* ServiceRequestsService.create, for the type PAYMENT.
RequestBill(r, t) ==
    /\ Event
    /\ Begin(r, Clear(t))
    /\ excuses' = Note(Overlap(Clear(t)), "bill", {t}, TRUE)
    /\ UNCHANGED <<session, active, orders, issued>>

GetSession(r) ==
    LET s == active[req[r].table] IN
    /\ req[r].pc = "get"
    /\ IF s = NoSession THEN End(r)
       ELSE req' = [req EXCEPT ![r].pc = "delSession", ![r].session = s]
    /\ UNCHANGED <<session, active, orders, issued, excuses, events>>

\* Mutation of Without: the key is left.
WithKey(keys, k, none) == keys

Without(keys, k, none) == [keys EXCEPT ![k] = none]

\* Mutation of DelSession: the key of the table is forgotten.
DelSessionOnly(r) ==
    /\ req[r].pc = "delSession"
    /\ session' = Without(session, req[r].session, NoTable)
    /\ End(r)
    /\ UNCHANGED <<active, orders, issued, excuses, events>>

DelSession(r) ==
    /\ req[r].pc = "delSession"
    /\ session' = Without(session, req[r].session, NoTable)
    /\ Goto(r, "delTable")
    /\ UNCHANGED <<active, orders, issued, excuses, events>>

\* Whatever session the key names by now.
DelTable(r) ==
    /\ req[r].pc = "delTable"
    /\ active' = [active EXCEPT ![req[r].table] = NoSession]
    /\ End(r)
    /\ UNCHANGED <<session, orders, issued, excuses, events>>

-----------------------------------------------------------------------------
(* Other writers. *)

\* updateStatus: a cancelled order leaves the session as it is.
Cancel(o) ==
    /\ orders[o].status = "open"
    /\ orders' = [orders EXCEPT ![o].status = "cancelled"]
    /\ UNCHANGED <<session, active, issued, req, excuses, events>>

\* transferTable reads the unpaid orders of the table and moves them in a
\* transaction.  The keys in Redis stay.
MoveRead(r, t, to) ==
    LET h == [Idle EXCEPT !.pc = "move", !.kind = "move", !.table = t,
                          !.to = to, !.todo = Open(t)] IN
    /\ Event
    /\ t # to
    /\ Open(t) # {}
    /\ Begin(r, h)
    /\ excuses' = Note(Overlap(h), "moved", At(h), TRUE)
    /\ UNCHANGED <<session, active, orders, issued>>

MoveCommit(r) ==
    /\ req[r].pc = "move"
    /\ orders' = [o \in DOMAIN orders |->
                    IF o \in req[r].todo THEN [orders[o] EXCEPT !.table = req[r].to]
                                         ELSE orders[o]]
    /\ End(r)
    /\ UNCHANGED <<session, active, issued, excuses, events>>

\* Both keys live for three hours; the one of the session was set first.
ExpireSession(s) ==
    /\ Event
    /\ session[s] # NoTable
    /\ session' = [session EXCEPT ![s] = NoTable]
    /\ excuses' = Note(excuses, "expired", {session[s]}, TRUE)
    /\ UNCHANGED <<active, orders, issued, req>>

ExpireTable(t) ==
    /\ Event
    /\ active[t] # NoSession
    /\ session[active[t]] = NoTable
    /\ active' = [active EXCEPT ![t] = NoSession]
    /\ excuses' = Note(excuses, "expired", {t}, TRUE)
    /\ UNCHANGED <<session, orders, issued, req>>

\* A pipeline reports a lost command in its result, which nobody reads; a lost
\* get ends the clearing, and its error is swallowed.
Lose(r) ==
    /\ Event
    /\ \/ req[r].pc = "setSession" /\ Goto(r, "setTable")
       \/ /\ req[r].pc = "setTable"
          /\ IF req[r].kind = "order" THEN Goto(r, "insert") ELSE End(r)
       \/ req[r].pc = "delSession" /\ Goto(r, "delTable")
       \/ req[r].pc \in {"get", "delTable"} /\ End(r)
    /\ excuses' = Note(excuses, "lost", {req[r].table}, TRUE)
    /\ UNCHANGED <<session, active, orders, issued>>

-----------------------------------------------------------------------------
Init ==
    /\ session = [s \in Sessions |-> NoTable]
    /\ active = [t \in Tables |-> NoSession]
    /\ orders = << >>
    /\ issued = [s \in Sessions |-> {}]
    /\ req = [r \in Requests |-> Idle]
    /\ excuses = [t \in Tables |-> {}]
    /\ events = 0

\* What a handler does on its own, once its request has arrived.
HandlerStep(r) ==
    \/ InsertOrder(r)
    \/ Reject(r)
    \/ SetSession(r)
    \/ SetTable(r)
    \/ GetSession(r)
    \/ DelSession(r)
    \/ DelTable(r)
    \/ MoveCommit(r)

NewRequest(r, t) ==
    \/ \E s \in Sessions : OrderWithSession(r, t, s) \/ OrderWithoutSession(r, t, s)
    \/ \E G \in SUBSET DOMAIN orders : Pay(r, t, G)
    \/ \E s \in Sessions : Register(r, t, s)
    \/ RequestBill(r, t)
    \/ \E to \in Tables : MoveRead(r, t, to)

Next ==
    \/ \E r \in Requests : HandlerStep(r) \/ Lose(r) \/ \E t \in Tables : NewRequest(r, t)
    \/ \E o \in DOMAIN orders : Cancel(o)
    \/ \E s \in Sessions : ExpireSession(s)
    \/ \E t \in Tables : ExpireTable(t)

Spec == Init /\ [][Next]_vars

\* Every awaited call returns or throws, so a handler never stops in between.
Fairness == \A r \in Requests : WF_vars(HandlerStep(r))

FairSpec == Spec /\ Fairness

-----------------------------------------------------------------------------
(* Properties. *)

TypeOK ==
    /\ session \in [Sessions -> Tables \cup {NoTable}]
    /\ active \in [Tables -> Sessions \cup {NoSession}]
    /\ orders \in Seq(Order)
    /\ issued \in [Sessions -> SUBSET Tables]
    /\ req \in [Requests -> Handler]
    /\ excuses \in [Tables -> SUBSET Excuses]
    /\ events \in Nat

Quiet(t) == \A r \in Requests : t \notin At(req[r])

\* However the requests interleave, an order is placed only for a table that the
\* scanned code was registered for: create compares the table with the one of
\* the session.  At a table none of whose ids was registered elsewhere too, it is
\* the only table its guests can order for, whatever happens at the others.
OrderAtOwnTable ==
    \A o \in DOMAIN orders :
        LET own == issued[orders[o].session] IN
        /\ orders[o].first \in own
        /\ "elsewhere" \notin excuses[orders[o].first] => own = {orders[o].first}

\* The two keys of a table agree, so that it has at most one session, unless two
\* handlers overlapped there, a command was lost, a key expired, staff registered
\* a session over another, or one of its ids was registered at another table.
KeysAgree ==
    \A t \in Tables :
        (/\ Quiet(t)
         /\ {"overlap", "overwritten", "elsewhere", "expired", "lost"} \cap excuses[t] = {})
          => \A s \in Sessions : session[s] = t <=> active[t] = s

\* An order that is not paid can be added to by its guests, and nobody else has
\* access to its table, unless the table has one of the excuses.
OpenOrderKeepsTable ==
    \A t \in Tables : Quiet(t) /\ excuses[t] = {} =>
        \A o \in Open(t) :
            /\ session[orders[o].session] = t
            /\ \A s \in Sessions \cup {NoSession} : CanAccess(t, s) <=> s = orders[o].session

\* The keys agree with each other and with the open orders.
KeysHold == KeysAgree /\ OpenOrderKeepsTable

\* The session of a paid order ends, although the payment does not wait for it,
\* unless its table has an excuse: a payment clears the table the order has at
\* that time, and a key is deleted whatever it holds.
BillEndsSession ==
    \A o \in 1..MaxOrders :
        (o \in DOMAIN orders /\ orders[o].status = "paid") ~>
            /\ o \in DOMAIN orders
            /\ \/ session[orders[o].session] = NoTable
               \/ \E t \in {orders[o].first, orders[o].table} :
                     {"overlap", "overwritten", "lost", "moved", "reopened", "elsewhere"}
                        \cap excuses[t] # {}

-----------------------------------------------------------------------------
(* What the code says, and one run refutes. *)

\* "This table still has items that are not paid": a table whose key turns
\* customers away has an open order.
LockedTableHasOpenOrder ==
    \A t \in Tables : (Quiet(t) /\ active[t] # NoSession) => Open(t) # {}
=============================================================================
