--------------------------- MODULE SessionProofs ---------------------------
(***************************************************************************)
(* Proofs about TableSessions for every value of its constants: the type   *)
(* invariant, that no order is placed for a table that its session was     *)
(* never registered for, that the two keys of a table agree with each      *)
(* other and with its open orders, however the commands interleave, and    *)
(* that the session of a paid order is gone or about to be.                *)
(***************************************************************************)
EXTENDS TableSessions, TLAPS

\* A handler that holds a session is at work on a table the session was
\* registered for.
HandlerOK ==
    \A r \in Requests :
        /\ req[r].pc \in {"setSession", "setTable", "insert"} =>
              /\ req[r].table \in Tables
              /\ req[r].session \in Sessions
              /\ req[r].table \in issued[req[r].session]
        /\ req[r].pc = "move" => req[r].to \in Tables
        /\ req[r].pc \in {"get", "delSession", "delTable"} => req[r].table \in Tables

\* A key names no table that its session was never registered for.
KeysOK == \A s \in Sessions : session[s] \in issued[s] \cup {NoTable}

\* An id registered for a second table has marked both.
ElsewhereTold ==
    \A s \in Sessions : \A t, u \in issued[s] : t # u => "elsewhere" \in excuses[t]

\* An order is for the table that its handler had when it inserted the row.
Placing == \A o \in DOMAIN orders : orders[o].first \in issued[orders[o].session]

TInv == TypeOK /\ HandlerOK /\ KeysOK /\ Placing

\* OrderAtOwnTable follows from Placing and ElsewhereTold.
SInv == TInv /\ ElsewhereTold

-----------------------------------------------------------------------------
LEMMA IdleType == Idle \in Handler /\ Idle.pc = "idle"
  BY DEF Idle, Handler

LEMMA NoteType ==
    ASSUME NEW e \in [Tables -> SUBSET Excuses], NEW why \in Excuses, NEW T,
           NEW c
    PROVE  Note(e, why, T, c) \in [Tables -> SUBSET Excuses]
  BY DEF Note

LEMMA OverlapType ==
    ASSUME TypeOK, NEW h
    PROVE  Overlap(h) \in [Tables -> SUBSET Excuses]
<1>1. "overlap" \in Excuses
  BY DEF Excuses
<1>2. QED
  BY <1>1, NoteType DEF Overlap, TypeOK

\* What Goto makes of a slot.
LEMMA GotoType ==
    ASSUME TypeOK, NEW r \in Requests,
           NEW pc \in {"setTable", "insert", "delTable"}, Goto(r, pc)
    PROVE  /\ req' \in [Requests -> Handler]
           /\ req'[r].pc = pc /\ req'[r].table = req[r].table
           /\ req'[r].session = req[r].session /\ req'[r].to = req[r].to
           /\ \A q \in Requests \ {r} : req'[q] = req[q]
<1>1. req \in [Requests -> Handler] /\ req[r] \in Handler
  BY DEF TypeOK
<1> DEFINE h == [req[r] EXCEPT !.pc = pc]
<1>2. /\ h \in Handler /\ h.pc = pc /\ h.table = req[r].table
      /\ h.session = req[r].session /\ h.to = req[r].to
  BY <1>1 DEF Handler
<1>3. req' = [req EXCEPT ![r] = h]
  BY <1>1 DEF Goto
<1> HIDE DEF h
<1>4. QED
  BY <1>1, <1>2, <1>3

\* A handler that starts.
LEMMA BeginType ==
    ASSUME TypeOK, NEW r \in Requests, NEW h \in Handler, Begin(r, h)
    PROVE  /\ req' \in [Requests -> Handler]
           /\ req'[r] = h
           /\ \A q \in Requests \ {r} : req'[q] = req[q]
  BY DEF Begin, TypeOK

\* A handler that ends disturbs no other, and the orders do not see it.
LEMMA EndKeeps ==
    ASSUME TypeOK, HandlerOK, NEW r \in Requests, End(r), issued' = issued
    PROVE  req' \in [Requests -> Handler] /\ HandlerOK'
<1>1. req' \in [Requests -> Handler]
  BY IdleType DEF End, TypeOK
<1>2. HandlerOK'
  BY IdleType DEF End, TypeOK, HandlerOK
<1>3. QED
  BY <1>1, <1>2

\* Nor does one that goes on to a step that needs no more than it has.
LEMMA GotoKeeps ==
    ASSUME TypeOK, HandlerOK, NEW r \in Requests,
           NEW pc \in {"setTable", "insert", "delTable"}, Goto(r, pc),
           \/ req[r].pc \in {"setSession", "setTable"} /\ pc # "delTable"
           \/ req[r].pc = "delSession" /\ pc = "delTable",
           issued' = issued
    PROVE  req' \in [Requests -> Handler] /\ HandlerOK'
<1>1. /\ req' \in [Requests -> Handler]
      /\ req'[r].pc = pc /\ req'[r].table = req[r].table
      /\ req'[r].session = req[r].session /\ req'[r].to = req[r].to
      /\ \A q \in Requests \ {r} : req'[q] = req[q]
  BY GotoType
<1>2. HandlerOK'
  <2> SUFFICES ASSUME NEW q \in Requests
               PROVE  /\ req'[q].pc \in {"setSession", "setTable", "insert"} =>
                            /\ req'[q].table \in Tables
                            /\ req'[q].session \in Sessions
                            /\ req'[q].table \in issued[req'[q].session]
                      /\ req'[q].pc = "move" => req'[q].to \in Tables
                      /\ req'[q].pc \in {"get", "delSession", "delTable"} =>
                            req'[q].table \in Tables
    BY DEF HandlerOK
  <2>1. CASE q = r
    BY <1>1, <2>1 DEF HandlerOK
  <2>2. CASE q # r
    BY <1>1, <2>2 DEF HandlerOK
  <2>3. QED
    BY <2>1, <2>2
<1>3. QED
  BY <1>1, <1>2

\* A handler that starts with what it needs.
LEMMA BeginKeeps ==
    ASSUME TypeOK, HandlerOK, NEW r \in Requests, NEW h \in Handler, Begin(r, h),
           h.pc \in {"setSession", "setTable", "insert"} =>
              /\ h.table \in Tables
              /\ h.session \in Sessions
              /\ h.table \in issued'[h.session],
           h.pc = "move" => h.to \in Tables,
           h.pc \in {"get", "delSession", "delTable"} => h.table \in Tables,
           \A s \in Sessions : issued[s] \subseteq issued'[s]
    PROVE  req' \in [Requests -> Handler] /\ HandlerOK'
<1>1. /\ req' \in [Requests -> Handler] /\ req'[r] = h
      /\ \A q \in Requests \ {r} : req'[q] = req[q]
  BY BeginType
<1>2. HandlerOK'
  <2> SUFFICES ASSUME NEW q \in Requests
               PROVE  /\ req'[q].pc \in {"setSession", "setTable", "insert"} =>
                            /\ req'[q].table \in Tables
                            /\ req'[q].session \in Sessions
                            /\ req'[q].table \in issued'[req'[q].session]
                      /\ req'[q].pc = "move" => req'[q].to \in Tables
                      /\ req'[q].pc \in {"get", "delSession", "delTable"} =>
                            req'[q].table \in Tables
    BY DEF HandlerOK
  <2>1. CASE q = r
    BY <1>1, <2>1
  <2>2. CASE q # r
    <3>1. req'[q] = req[q]
      BY <1>1, <2>2
    <3>2. QED
      BY <3>1, SessionsAssumption DEF HandlerOK
  <2>3. QED
    BY <2>1, <2>2
<1>3. QED
  BY <1>1, <1>2
-----------------------------------------------------------------------------
LEMMA InitSessions == Init => TInv
<1> SUFFICES ASSUME Init PROVE TInv
  OBVIOUS
<1>1. TypeOK
  BY IdleType DEF Init, TypeOK, Excuses
<1>2. QED
  BY <1>1, IdleType DEF Init, TInv, HandlerOK, KeysOK, Placing

\* Orders keep what they were placed for while their table or status changes.
LEMMA OrdersEdit ==
    ASSUME TInv, NEW f, NEW G,
           \A o \in DOMAIN orders : f[o] \in Order /\ f[o].first = orders[o].first
                                                /\ f[o].session = orders[o].session,
           orders' = [o \in DOMAIN orders |-> IF o \in G THEN f[o] ELSE orders[o]],
           issued' = issued
    PROVE  orders' \in Seq(Order) /\ Placing'
<1>1. orders \in Seq(Order) /\ \A o \in DOMAIN orders : orders[o] \in Order
  BY DEF TInv, TypeOK
<1>2. DOMAIN orders' = DOMAIN orders /\ DOMAIN orders = 1..Len(orders)
  BY <1>1
<1>3. \A o \in DOMAIN orders : /\ orders'[o] \in Order
                               /\ orders'[o].first = orders[o].first
                               /\ orders'[o].session = orders[o].session
  BY <1>1
<1>4. orders' \in Seq(Order)
  <2>1. Len(orders) \in Nat
    BY <1>1
  <2>2. orders' \in [1..Len(orders) -> Order]
    BY <1>2, <1>3
  <2>3. QED
    BY <2>1, <2>2
<1>5. Placing'
  BY <1>2, <1>3 DEF TInv, Placing
<1>6. QED
  BY <1>4, <1>5

\* An id that is registered once more keeps the tables it was registered for.
LEMMA IssueKeeps ==
    ASSUME TInv, NEW s \in Sessions, NEW T \in SUBSET Tables, issued[s] \subseteq T,
           issued' = [issued EXCEPT ![s] = T], orders' = orders, session' = session
    PROVE  /\ issued' \in [Sessions -> SUBSET Tables]
           /\ issued'[s] = T
           /\ \A u \in Sessions : issued[u] \subseteq issued'[u]
           /\ KeysOK' /\ Placing'
<1>1. issued \in [Sessions -> SUBSET Tables] /\ orders \in Seq(Order)
  BY DEF TInv, TypeOK
<1>2. \A u \in Sessions : issued[u] \subseteq issued'[u]
  BY <1>1
<1>3. KeysOK'
  BY <1>2 DEF TInv, KeysOK
<1>4. Placing'
  <2> SUFFICES ASSUME NEW o \in DOMAIN orders
               PROVE  orders[o].first \in issued'[orders[o].session]
    BY DEF Placing
  <2>1. orders[o] \in Order
    BY <1>1
  <2>2. orders[o].session \in Sessions
    BY <2>1 DEF Order
  <2>3. orders[o].first \in issued[orders[o].session]
    BY DEF TInv, Placing
  <2>4. QED
    BY <1>2, <2>2, <2>3
<1>5. QED
  BY <1>1, <1>2, <1>3, <1>4

-----------------------------------------------------------------------------
LEMMA SessionsStep == TInv /\ [Next]_vars => TInv'
<1> SUFFICES ASSUME TInv, [Next]_vars PROVE TInv'
  OBVIOUS
<1>0. TypeOK /\ HandlerOK /\ KeysOK /\ Placing
  BY DEF TInv
<1>1. ASSUME NEW r \in Requests, NEW t \in Tables, NEW s \in Sessions,
             OrderWithSession(r, t, s)
      PROVE  TInv'
  <2> DEFINE h == [Idle EXCEPT !.pc = "insert", !.kind = "order", !.table = t,
                               !.session = s]
  <2>1. h \in Handler /\ h.pc = "insert" /\ h.table = t /\ h.session = s
    BY IdleType DEF Handler
  <2>2. Begin(r, h) /\ excuses' = Overlap(h)
        /\ UNCHANGED <<session, active, orders, issued, events>>
    BY <1>1 DEF OrderWithSession
  <2>3. t \in issued[s]
    BY <1>0, <1>1, SessionsAssumption DEF OrderWithSession, Validated, KeysOK
  <2> HIDE DEF h
  <2>4. req' \in [Requests -> Handler] /\ HandlerOK'
    BY <1>0, <2>1, <2>2, <2>3, BeginKeeps
  <2>5. QED
    BY <1>0, <2>2, <2>4, OverlapType DEF TInv, TypeOK, KeysOK, Placing
<1>2. ASSUME NEW r \in Requests, NEW t \in Tables, NEW s \in Sessions,
             OrderWithoutSession(r, t, s)
      PROVE  TInv'
  <2> DEFINE h == [Idle EXCEPT !.pc = "setSession", !.kind = "order", !.table = t,
                               !.session = s]
  <2>1. h \in Handler /\ h.pc = "setSession" /\ h.table = t /\ h.session = s
    BY IdleType DEF Handler
  <2>2. Begin(r, h) /\ excuses' = Overlap(h) /\ issued' = [issued EXCEPT ![s] = {t}]
        /\ issued[s] = {} /\ UNCHANGED <<session, active, orders, events>>
    BY <1>2 DEF OrderWithoutSession, Fresh
  <2> HIDE DEF h
  <2>3. /\ issued' \in [Sessions -> SUBSET Tables] /\ issued'[s] = {t}
        /\ \A u \in Sessions : issued[u] \subseteq issued'[u]
        /\ KeysOK' /\ Placing'
    BY <2>2, IssueKeeps
  <2>4. req' \in [Requests -> Handler] /\ HandlerOK'
    BY <1>0, <2>1, <2>2, <2>3, BeginKeeps
  <2>5. QED
    BY <1>0, <2>2, <2>3, <2>4, OverlapType DEF TInv, TypeOK
<1>3. ASSUME NEW r \in Requests, InsertOrder(r)
      PROVE  TInv'
  <2>1. End(r) /\ UNCHANGED <<session, active, issued, excuses, events>>
        /\ req[r].pc = "insert" /\ orders' = Append(orders, NewRow(req[r]))
    BY <1>3 DEF InsertOrder
  <2>2. req' \in [Requests -> Handler] /\ HandlerOK'
    BY <1>0, <2>1, EndKeeps
  <2>3. /\ NewRow(req[r]) \in Order
        /\ NewRow(req[r]).first \in issued[NewRow(req[r]).session]
    BY <1>0, <2>1 DEF HandlerOK, NewRow, Order
  <2>4. orders \in Seq(Order)
    BY <1>0 DEF TypeOK
  <2> DEFINE row == NewRow(req[r])
  <2>5. row \in Order /\ row.first \in issued[row.session] /\ orders' = Append(orders, row)
    BY <2>1, <2>3
  <2> HIDE DEF row
  <2>6. orders' \in Seq(Order)
    BY <2>4, <2>5
  <2>7. Placing'
    <3> SUFFICES ASSUME NEW o \in DOMAIN orders'
                 PROVE  orders'[o].first \in issued[orders'[o].session]
      BY <2>1 DEF Placing
    <3>1. CASE o \in DOMAIN orders
      <4>1. orders'[o] = orders[o]
        BY <2>4, <2>5, <3>1
      <4>2. QED
        BY <1>0, <3>1, <4>1 DEF Placing
    <3>2. CASE o \notin DOMAIN orders
      <4>1. orders'[o] = row
        BY <2>4, <2>5, <3>2
      <4>2. QED
        BY <2>5, <4>1
    <3>3. QED
      BY <3>1, <3>2
  <2>8. QED
    BY <1>0, <2>1, <2>2, <2>6, <2>7 DEF TInv, TypeOK, KeysOK
<1>4. ASSUME NEW r \in Requests, Reject(r)
      PROVE  TInv'
  <2>1. End(r) /\ UNCHANGED <<session, active, orders, issued, excuses, events>>
    BY <1>4 DEF Reject
  <2>2. req' \in [Requests -> Handler] /\ HandlerOK'
    BY <1>0, <2>1, EndKeeps
  <2>3. QED
    BY <1>0, <2>1, <2>2 DEF TInv, TypeOK, KeysOK, Placing
<1>5. ASSUME NEW r \in Requests, NEW t \in Tables, NEW s \in Sessions, Register(r, t, s)
      PROVE  TInv'
  <2> DEFINE h == [Idle EXCEPT !.pc = "setSession", !.kind = "register", !.table = t,
                               !.session = s]
             e == Note(Overlap(h), "overwritten", {t}, active[t] \notin {NoSession, s})
  <2>1. h \in Handler /\ h.pc = "setSession" /\ h.table = t /\ h.session = s
    BY IdleType DEF Handler
  <2> DEFINE T == issued[s] \cup {t}
  <2>2. Begin(r, h) /\ issued' = [issued EXCEPT ![s] = T] /\ events' = events + 1
        /\ UNCHANGED <<session, active, orders>>
    BY <1>5 DEF Register, Event
  <2>t. T \in SUBSET Tables /\ issued[s] \subseteq T /\ t \in T
    BY <1>0 DEF TypeOK
  <2> HIDE DEF T
  <2>3. excuses' \in [Tables -> SUBSET Excuses]
    <3>1. "overwritten" \in Excuses /\ Again(s, t) \in Excuses
      BY DEF Excuses, Again
    <3>2. e \in [Tables -> SUBSET Excuses]
      BY <1>0, <3>1, OverlapType, NoteType
    <3>3. excuses' = Note(e, Again(s, t), issued[s] \cup {t}, ~Fresh(s))
      BY <1>5 DEF Register
    <3> HIDE DEF e
    <3>4. QED
      BY <3>1, <3>2, <3>3, NoteType
  <2> HIDE DEF h
  <2>4. /\ issued' \in [Sessions -> SUBSET Tables] /\ issued'[s] = T
        /\ \A u \in Sessions : issued[u] \subseteq issued'[u]
        /\ KeysOK' /\ Placing'
    BY <2>2, <2>t, IssueKeeps
  <2>5. req' \in [Requests -> Handler] /\ HandlerOK'
    BY <1>0, <2>1, <2>2, <2>t, <2>4, BeginKeeps
  <2>6. QED
    BY <1>0, <2>2, <2>3, <2>4, <2>5 DEF TInv, TypeOK
<1>6. ASSUME NEW r \in Requests, SetSession(r)
      PROVE  TInv'
  <2>1. /\ session' = [session EXCEPT ![req[r].session] = req[r].table]
        /\ Goto(r, "setTable") /\ req[r].pc = "setSession"
        /\ UNCHANGED <<active, orders, issued, excuses, events>>
    BY <1>6 DEF SetSession
  <2>2. req' \in [Requests -> Handler] /\ HandlerOK'
    BY <1>0, <2>1, GotoKeeps
  <2>3. /\ req[r].table \in Tables /\ req[r].session \in Sessions
        /\ req[r].table \in issued[req[r].session]
    BY <1>0, <2>1 DEF HandlerOK
  <2>4. KeysOK'
    BY <1>0, <2>1, <2>3 DEF KeysOK, TypeOK
  <2>5. QED
    BY <1>0, <2>1, <2>2, <2>3, <2>4 DEF TInv, TypeOK, Placing
<1>7. ASSUME NEW r \in Requests, SetTable(r)
      PROVE  TInv'
  <2>1. /\ active' = [active EXCEPT ![req[r].table] = req[r].session]
        /\ Goto(r, "insert") \/ End(r)
        /\ req[r].pc = "setTable"
        /\ UNCHANGED <<session, orders, issued, excuses, events>>
    BY <1>7 DEF SetTable, TableValue
  <2>2. req' \in [Requests -> Handler] /\ HandlerOK'
    BY <1>0, <2>1, GotoKeeps, EndKeeps
  <2>3. req[r].session \in Sessions
    BY <1>0, <2>1 DEF HandlerOK
  <2>4. QED
    BY <1>0, <2>1, <2>2, <2>3 DEF TInv, TypeOK, KeysOK, Placing
<1>8. ASSUME NEW r \in Requests, NEW t \in Tables, NEW G \in SUBSET DOMAIN orders,
             Pay(r, t, G)
      PROVE  TInv'
  <2> DEFINE f == [o \in DOMAIN orders |-> [orders[o] EXCEPT !.status = "paid"]]
             h == Clear(t)
  <2>1. /\ orders' = [o \in DOMAIN orders |-> IF o \in G THEN f[o] ELSE orders[o]]
        /\ Begin(r, h) /\ UNCHANGED <<session, active, issued, events>>
        /\ excuses' = Note(Overlap(h), "partly paid", {t}, G # Open(t))
    BY <1>8 DEF Pay
  <2>2. h \in Handler /\ h.pc = "get" /\ h.table = t
    BY IdleType DEF Clear, Handler
  <2>3. orders' \in Seq(Order) /\ Placing'
    <3>1. \A o \in DOMAIN orders : orders[o] \in Order
      BY <1>0 DEF TypeOK
    <3>2. \A o \in DOMAIN orders : /\ f[o] \in Order /\ f[o].first = orders[o].first
                                   /\ f[o].session = orders[o].session
      BY <3>1 DEF Order
    <3> HIDE DEF f
    <3>3. QED
      BY <2>1, <3>2, OrdersEdit
  <2>4. excuses' \in [Tables -> SUBSET Excuses]
    <3>1. "partly paid" \in Excuses
      BY DEF Excuses
    <3>2. QED
      BY <1>0, <2>1, <3>1, OverlapType, NoteType
  <2> HIDE DEF h, f
  <2>5. req' \in [Requests -> Handler] /\ HandlerOK'
    BY <1>0, <2>1, <2>2, BeginKeeps
  <2>6. QED
    BY <1>0, <2>1, <2>3, <2>4, <2>5 DEF TInv, TypeOK, KeysOK
<1>9. ASSUME NEW r \in Requests, NEW t \in Tables, RequestBill(r, t)
      PROVE  TInv'
  <2> DEFINE h == Clear(t)
  <2>1. /\ Begin(r, h) /\ UNCHANGED <<session, active, orders, issued>>
        /\ events' = events + 1 /\ excuses' = Note(Overlap(h), "bill", {t}, TRUE)
    BY <1>9 DEF RequestBill, Event
  <2>2. h \in Handler /\ h.pc = "get" /\ h.table = t
    BY IdleType DEF Clear, Handler
  <2>3. excuses' \in [Tables -> SUBSET Excuses]
    <3>1. "bill" \in Excuses
      BY DEF Excuses
    <3>2. QED
      BY <1>0, <2>1, <3>1, OverlapType, NoteType
  <2> HIDE DEF h
  <2>4. req' \in [Requests -> Handler] /\ HandlerOK'
    BY <1>0, <2>1, <2>2, BeginKeeps
  <2>5. QED
    <3>1. TypeOK'
      <4>1. events' \in Nat
        BY <1>0, <2>1, <2>3, <2>4 DEF TypeOK
      <4>2. QED
        BY <1>0, <2>1, <2>3, <2>4, <4>1 DEF TypeOK
    <3>2. KeysOK' /\ Placing'
      BY <1>0, <2>1 DEF KeysOK, Placing
    <3>3. QED
      BY <3>1, <3>2, <2>4 DEF TInv
<1>10. ASSUME NEW r \in Requests, GetSession(r)
       PROVE  TInv'
  <2> DEFINE h == [req[r] EXCEPT !.pc = "delSession", !.session = active[req[r].table]]
  <2>1. UNCHANGED <<session, active, orders, issued, excuses, events>>
    BY <1>10 DEF GetSession
  <2>2. CASE End(r)
    <3>1. req' \in [Requests -> Handler] /\ HandlerOK'
      BY <1>0, <2>1, <2>2, EndKeeps
    <3>2. QED
      BY <1>0, <2>1, <3>1 DEF TInv, TypeOK, KeysOK, Placing
  <2>3. CASE ~End(r)
    <3>1. req' = [req EXCEPT ![r] = h] /\ active[req[r].table] # NoSession
      BY <1>0, <1>10, <2>3 DEF GetSession, TypeOK
    <3>2. h \in Handler /\ h.pc = "delSession" /\ h.table \in Tables
      <4>1. req[r] \in Handler /\ req[r].table \in Tables
        BY <1>0, <1>10 DEF GetSession, TypeOK, HandlerOK
      <4>2. QED
        BY <1>0, <4>1 DEF Handler, TypeOK
    <3> HIDE DEF h
    <3>3. req' \in [Requests -> Handler] /\ HandlerOK'
      <4>1. req' \in [Requests -> Handler] /\ req'[r].pc = "delSession"
            /\ req'[r].table \in Tables /\ \A q \in Requests \ {r} : req'[q] = req[q]
        BY <1>0, <3>1, <3>2 DEF TypeOK
      <4>2. \A q \in Requests : req'[q] = req[q] \/ q = r
        BY <4>1
      <4>3. HandlerOK'
        <5> SUFFICES ASSUME NEW q \in Requests
                     PROVE  /\ req'[q].pc \in {"setSession", "setTable", "insert"} =>
                                  /\ req'[q].table \in Tables
                                  /\ req'[q].session \in Sessions
                                  /\ req'[q].table \in issued[req'[q].session]
                            /\ req'[q].pc = "move" => req'[q].to \in Tables
                            /\ req'[q].pc \in {"get", "delSession", "delTable"} =>
                                  req'[q].table \in Tables
          BY <2>1 DEF HandlerOK
        <5>1. CASE q = r
          BY <4>1, <5>1
        <5>2. CASE q # r
          BY <1>0, <4>2, <5>2 DEF HandlerOK
        <5>3. QED
          BY <5>1, <5>2
      <4>4. QED
        BY <4>1, <4>3
    <3>4. QED
      BY <1>0, <2>1, <3>3 DEF TInv, TypeOK, KeysOK, Placing
  <2>4. QED
    BY <2>2, <2>3
<1>11. ASSUME NEW r \in Requests, DelSession(r)
       PROVE  TInv'
  <2>1. /\ session' = [session EXCEPT ![req[r].session] = NoTable]
        /\ Goto(r, "delTable") /\ req[r].pc = "delSession"
        /\ UNCHANGED <<active, orders, issued, excuses, events>>
    BY <1>11 DEF DelSession, Without
  <2>2. req' \in [Requests -> Handler] /\ HandlerOK'
    BY <1>0, <2>1, GotoKeeps
  <2>3. KeysOK'
    BY <1>0, <2>1 DEF KeysOK, TypeOK
  <2>4. QED
    BY <1>0, <2>1, <2>2, <2>3 DEF TInv, TypeOK, Placing
<1>12. ASSUME NEW r \in Requests, DelTable(r)
       PROVE  TInv'
  <2>1. /\ active' = [active EXCEPT ![req[r].table] = NoSession]
        /\ End(r) /\ UNCHANGED <<session, orders, issued, excuses, events>>
    BY <1>12 DEF DelTable
  <2>2. req' \in [Requests -> Handler] /\ HandlerOK'
    BY <1>0, <2>1, EndKeeps
  <2>3. QED
    BY <1>0, <2>1, <2>2 DEF TInv, TypeOK, KeysOK, Placing
<1>13. ASSUME NEW o \in DOMAIN orders, Cancel(o)
       PROVE  TInv'
  <2> DEFINE row == [orders[o] EXCEPT !.status = "cancelled"]
  <2>1. orders \in Seq(Order) /\ orders[o] \in Order
    BY <1>0 DEF TypeOK
  <2>2. row \in Order /\ row.first = orders[o].first /\ row.session = orders[o].session
    BY <2>1 DEF Order
  <2>3. orders' = [orders EXCEPT ![o] = row]
        /\ UNCHANGED <<session, active, issued, req, excuses, events>>
    BY <1>13, <2>1 DEF Cancel
  <2> HIDE DEF row
  <2>4. orders' \in Seq(Order) /\ Placing'
    BY <1>0, <2>1, <2>2, <2>3 DEF Placing
  <2>5. QED
    BY <1>0, <2>3, <2>4 DEF TInv, TypeOK, HandlerOK, KeysOK
<1>14. ASSUME NEW r \in Requests, NEW t \in Tables, NEW to \in Tables, MoveRead(r, t, to)
       PROVE  TInv'
  <2> DEFINE h == [Idle EXCEPT !.pc = "move", !.kind = "move", !.table = t,
                               !.to = to, !.todo = Open(t)]
  <2>1. Open(t) \in SUBSET Nat
    BY <1>0 DEF Open, TypeOK
  <2>2. h \in Handler /\ h.pc = "move" /\ h.to = to
    BY <2>1, IdleType DEF Handler
  <2>3. /\ Begin(r, h) /\ UNCHANGED <<session, active, orders, issued>>
        /\ events' = events + 1 /\ excuses' = Note(Overlap(h), "moved", At(h), TRUE)
    BY <1>14 DEF MoveRead, Event
  <2>4. excuses' \in [Tables -> SUBSET Excuses]
    <3> HIDE DEF h
    <3>1. "moved" \in Excuses
      BY DEF Excuses
    <3>2. QED
      BY <1>0, <2>3, <3>1, OverlapType, NoteType
  <2> HIDE DEF h
  <2>5. req' \in [Requests -> Handler] /\ HandlerOK'
    BY <1>0, <2>2, <2>3, BeginKeeps
  <2>6. QED
    <3>1. TypeOK'
      <4>1. events' \in Nat
        BY <1>0, <2>3, <2>4, <2>5 DEF TypeOK
      <4>2. QED
        BY <1>0, <2>3, <2>4, <2>5, <4>1 DEF TypeOK
    <3>2. KeysOK' /\ Placing'
      BY <1>0, <2>3 DEF KeysOK, Placing
    <3>3. QED
      BY <3>1, <3>2, <2>5 DEF TInv
<1>15. ASSUME NEW r \in Requests, MoveCommit(r)
       PROVE  TInv'
  <2> DEFINE f == [o \in DOMAIN orders |-> [orders[o] EXCEPT !.table = req[r].to]]
             G == req[r].todo
  <2>1. /\ orders' = [o \in DOMAIN orders |-> IF o \in G THEN f[o] ELSE orders[o]]
        /\ End(r) /\ UNCHANGED <<session, active, issued, excuses, events>>
    BY <1>15 DEF MoveCommit
  <2>2. orders' \in Seq(Order) /\ Placing'
    <3>1. \A o \in DOMAIN orders : orders[o] \in Order
      BY <1>0 DEF TypeOK
    <3>2. req[r].to \in Tables
      BY <1>0, <1>15 DEF MoveCommit, HandlerOK
    <3>3. \A o \in DOMAIN orders : /\ f[o] \in Order /\ f[o].first = orders[o].first
                                   /\ f[o].session = orders[o].session
      BY <3>1, <3>2 DEF Order
    <3> HIDE DEF f, G
    <3>4. QED
      BY <2>1, <3>3, OrdersEdit
  <2>3. req' \in [Requests -> Handler] /\ HandlerOK'
    BY <1>0, <2>1, EndKeeps
  <2>4. QED
    BY <1>0, <2>1, <2>2, <2>3 DEF TInv, TypeOK, KeysOK
<1>16. ASSUME NEW s \in Sessions, ExpireSession(s)
       PROVE  TInv'
  <2>1. /\ session' = [session EXCEPT ![s] = NoTable] /\ events' = events + 1
        /\ UNCHANGED <<active, orders, issued, req>>
        /\ excuses' = Note(excuses, "expired", {session[s]}, TRUE)
    BY <1>16 DEF ExpireSession, Event
  <2>2. excuses' \in [Tables -> SUBSET Excuses]
    <3>1. "expired" \in Excuses /\ excuses \in [Tables -> SUBSET Excuses]
      BY <1>0 DEF Excuses, TypeOK
    <3>2. QED
      BY <2>1, <3>1, NoteType
  <2>3. QED
    <3>1. TypeOK'
      <4>1. events' \in Nat
        BY <1>0, <2>1, <2>2 DEF TypeOK
      <4>2. QED
        BY <1>0, <2>1, <2>2, <4>1 DEF TypeOK
    <3>2. KeysOK' /\ Placing' /\ HandlerOK'
      BY <1>0, <2>1 DEF KeysOK, Placing, HandlerOK
    <3>3. QED
      BY <3>1, <3>2 DEF TInv
<1>17. ASSUME NEW t \in Tables, ExpireTable(t)
       PROVE  TInv'
  <2>1. /\ active' = [active EXCEPT ![t] = NoSession] /\ events' = events + 1
        /\ UNCHANGED <<session, orders, issued, req>>
        /\ excuses' = Note(excuses, "expired", {t}, TRUE)
    BY <1>17 DEF ExpireTable, Event
  <2>2. excuses' \in [Tables -> SUBSET Excuses]
    <3>1. "expired" \in Excuses /\ excuses \in [Tables -> SUBSET Excuses]
      BY <1>0 DEF Excuses, TypeOK
    <3>2. QED
      BY <2>1, <3>1, NoteType
  <2>3. QED
    <3>1. TypeOK'
      <4>1. events' \in Nat
        BY <1>0, <2>1, <2>2 DEF TypeOK
      <4>2. QED
        BY <1>0, <2>1, <2>2, <4>1 DEF TypeOK
    <3>2. KeysOK' /\ Placing' /\ HandlerOK'
      BY <1>0, <2>1 DEF KeysOK, Placing, HandlerOK
    <3>3. QED
      BY <3>1, <3>2 DEF TInv
<1>18. ASSUME NEW r \in Requests, Lose(r)
       PROVE  TInv'
  <2>1. /\ UNCHANGED <<session, active, orders, issued>> /\ events' = events + 1
        /\ excuses' = Note(excuses, "lost", {req[r].table}, TRUE)
    BY <1>18 DEF Lose, Event
  <2>2. req' \in [Requests -> Handler] /\ HandlerOK'
    <3>1. CASE End(r)
      BY <1>0, <2>1, <3>1, EndKeeps
    <3>2. CASE req[r].pc = "setSession" /\ Goto(r, "setTable")
      BY <1>0, <2>1, <3>2, GotoKeeps
    <3>3. CASE req[r].pc = "setTable" /\ Goto(r, "insert")
      BY <1>0, <2>1, <3>3, GotoKeeps
    <3>4. CASE req[r].pc = "delSession" /\ Goto(r, "delTable")
      BY <1>0, <2>1, <3>4, GotoKeeps
    <3>5. QED
      BY <1>18, <3>1, <3>2, <3>3, <3>4 DEF Lose
  <2>3. excuses' \in [Tables -> SUBSET Excuses]
    <3>1. "lost" \in Excuses /\ excuses \in [Tables -> SUBSET Excuses]
      BY <1>0 DEF Excuses, TypeOK
    <3>2. QED
      BY <2>1, <3>1, NoteType
  <2>4. QED
    <3>1. TypeOK'
      <4>1. events' \in Nat
        BY <1>0, <2>1, <2>2, <2>3 DEF TypeOK
      <4>2. QED
        BY <1>0, <2>1, <2>2, <2>3, <4>1 DEF TypeOK
    <3>2. KeysOK' /\ Placing'
      BY <1>0, <2>1 DEF KeysOK, Placing
    <3>3. QED
      BY <3>1, <3>2, <2>2 DEF TInv
<1>19. CASE UNCHANGED vars
  BY <1>0, <1>19 DEF vars, TInv, TypeOK, HandlerOK, KeysOK, Placing
<1>20. QED
  BY <1>1, <1>2, <1>3, <1>4, <1>5, <1>6, <1>7, <1>8, <1>9, <1>10, <1>11, <1>12,
     <1>13, <1>14, <1>15, <1>16, <1>17, <1>18, <1>19 DEF Next, NewRequest, HandlerStep

\* The keys, the orders and the handlers keep their types, however requests,
\* expired keys and lost commands interleave.
THEOREM TypeCorrect == Spec => []TypeOK
<1>1. TInv => TypeOK
  BY DEF TInv
<1>2. QED
  BY <1>1, InitSessions, SessionsStep, PTL DEF Spec

-----------------------------------------------------------------------------
(* The history: an excuse stays, and a second table is told. *)

LEMMA NoteGrows ==
    ASSUME NEW e, NEW why, NEW T, NEW c, NEW t \in Tables
    PROVE  /\ e[t] \subseteq Note(e, why, T, c)[t]
           /\ (t \in T /\ c) => why \in Note(e, why, T, c)[t]
  BY DEF Note

\* A handler that starts at a table where another is at work leaves a mark.
LEMMA OverlapTells ==
    ASSUME TypeOK, NEW h, NEW t \in Tables
    PROVE  /\ excuses[t] \subseteq Overlap(h)[t]
           /\ (t \in At(h) /\ ~Quiet(t)) => "overlap" \in Overlap(h)[t]
<1>1. (t \in At(h) /\ ~Quiet(t)) => \E q \in Requests : At(req[q]) \cap At(h) # {}
  BY DEF Quiet
<1>2. QED
  BY <1>1, NoteGrows DEF Overlap

\* No step takes an excuse back.
LEMMA ExcusesGrow ==
    ASSUME TypeOK, [Next]_vars, NEW t \in Tables
    PROVE  excuses[t] \subseteq excuses'[t]
<1>1. ASSUME NEW r \in Requests, NEW t0 \in Tables, NewRequest(r, t0)
      PROVE  excuses[t] \subseteq excuses'[t]
  <2>1. ASSUME NEW h, \/ excuses' = Overlap(h)
                      \/ \E why, T, c : excuses' = Note(Overlap(h), why, T, c)
                      \/ \E why, T, c, why2, T2, c2 :
                            excuses' = Note(Note(Overlap(h), why, T, c), why2, T2, c2)
        PROVE  excuses[t] \subseteq excuses'[t]
    <3>1. excuses[t] \subseteq Overlap(h)[t]
      BY OverlapTells
    <3>2. ASSUME NEW why, NEW T, NEW c
          PROVE  Overlap(h)[t] \subseteq Note(Overlap(h), why, T, c)[t]
      BY NoteGrows
    <3>3. ASSUME NEW why, NEW T, NEW c, NEW why2, NEW T2, NEW c2
          PROVE  Overlap(h)[t] \subseteq Note(Note(Overlap(h), why, T, c), why2, T2, c2)[t]
      <4>1. Note(Overlap(h), why, T, c)[t]
               \subseteq Note(Note(Overlap(h), why, T, c), why2, T2, c2)[t]
        BY NoteGrows
      <4>2. QED
        BY <3>2, <4>1
    <3>4. QED
      BY <2>1, <3>1, <3>2, <3>3
  <2>2. CASE \/ \E s \in Sessions : OrderWithSession(r, t0, s) \/ OrderWithoutSession(r, t0, s)
             \/ \E G \in SUBSET DOMAIN orders : Pay(r, t0, G)
             \/ RequestBill(r, t0)
             \/ \E to \in Tables : MoveRead(r, t0, to)
    <3>1. \E h : \/ excuses' = Overlap(h)
                 \/ \E why, T, c : excuses' = Note(Overlap(h), why, T, c)
      BY <2>2 DEF OrderWithSession, OrderWithoutSession, Pay, RequestBill, MoveRead
    <3>2. QED
      BY <2>1, <3>1
  <2>3. CASE \E s \in Sessions : Register(r, t0, s)
    <3>1. \E h : \E why, T, c, why2, T2, c2 :
             excuses' = Note(Note(Overlap(h), why, T, c), why2, T2, c2)
      BY <2>3 DEF Register
    <3>2. QED
      BY <2>1, <3>1
  <2>4. QED
    BY <1>1, <2>2, <2>3 DEF NewRequest
<1>2. ASSUME NEW r \in Requests, HandlerStep(r)
      PROVE  excuses' = excuses
  BY <1>2 DEF HandlerStep, InsertOrder, Reject, SetSession, SetTable, GetSession,
              DelSession, DelTable, MoveCommit
<1>3. CASE UNCHANGED excuses
  BY <1>3
<1>4. CASE \E why, T, c : excuses' = Note(excuses, why, T, c)
  BY <1>4, NoteGrows
<1>5. CASE UNCHANGED vars
  BY <1>5 DEF vars
<1>6. QED
  BY <1>1, <1>2, <1>3, <1>4, <1>5 DEF Next, Lose, Cancel, ExpireSession, ExpireTable

\* An id that is registered for one more table marks all its tables.
LEMMA ToldStep ==
    ASSUME TInv, ElsewhereTold, [Next]_vars
    PROVE  ElsewhereTold'
<1>1. \A t \in Tables : excuses[t] \subseteq excuses'[t]
  BY ExcusesGrow DEF TInv
<1>2. issued \in [Sessions -> SUBSET Tables]
  BY DEF TInv, TypeOK
<1>3. CASE issued' = issued
  BY <1>1, <1>2, <1>3 DEF ElsewhereTold
<1>4. ASSUME NEW r \in Requests, NEW t \in Tables, NEW s \in Sessions,
             OrderWithoutSession(r, t, s)
      PROVE  ElsewhereTold'
  <2>1. issued' = [issued EXCEPT ![s] = {t}]
    BY <1>4 DEF OrderWithoutSession
  <2>2. issued'[s] = {t} /\ \A x \in Sessions \ {s} : issued'[x] = issued[x]
    BY <1>2, <2>1
  <2>3. QED
    BY <1>1, <1>2, <2>2 DEF ElsewhereTold
<1>5. ASSUME NEW r \in Requests, NEW t \in Tables, NEW s \in Sessions, Register(r, t, s)
      PROVE  ElsewhereTold'
  <2>1. issued' = [issued EXCEPT ![s] = @ \cup {t}]
    BY <1>5 DEF Register
  <2>2. /\ issued'[s] = issued[s] \cup {t}
        /\ \A x \in Sessions \ {s} : issued'[x] = issued[x]
    BY <1>2, <2>1
  <2>3. PICK e : excuses' = Note(e, Again(s, t), issued[s] \cup {t}, ~Fresh(s))
    BY <1>5 DEF Register
  <2>4. ASSUME ~(issued[s] \subseteq {t}), NEW u \in issued'[s]
        PROVE  "elsewhere" \in excuses'[u]
    <3>1. Again(s, t) = "elsewhere" /\ ~Fresh(s)
      BY <2>4 DEF Again, Fresh
    <3>2. u \in Tables /\ u \in issued[s] \cup {t}
      BY <1>2, <2>2, <2>4
    <3>3. QED
      BY <2>3, <3>1, <3>2, NoteGrows
  <2>5. issued[s] \subseteq {t} => issued'[s] = {t}
    BY <2>2
  <2>6. QED
    BY <1>1, <1>2, <2>2, <2>4, <2>5 DEF ElsewhereTold
<1>6. \/ issued' = issued
      \/ \E r \in Requests, t \in Tables, s \in Sessions :
            OrderWithoutSession(r, t, s) \/ Register(r, t, s)
  <2>1. ASSUME NEW r \in Requests, NEW t \in Tables, NewRequest(r, t)
        PROVE  \/ issued' = issued
               \/ \E s \in Sessions : OrderWithoutSession(r, t, s) \/ Register(r, t, s)
    BY <2>1 DEF NewRequest, OrderWithSession, Pay, RequestBill, MoveRead
  <2>2. ASSUME NEW r \in Requests, HandlerStep(r) \/ Lose(r)
        PROVE  issued' = issued
    BY <2>2 DEF HandlerStep, InsertOrder, Reject, SetSession, SetTable, GetSession,
                DelSession, DelTable, MoveCommit, Lose
  <2>3. QED
    BY <2>1, <2>2 DEF Next, vars, Cancel, ExpireSession, ExpireTable
<1>7. QED
  BY <1>3, <1>4, <1>5, <1>6

LEMMA SInvHolds == (Init => SInv) /\ (SInv /\ [Next]_vars => SInv')
<1>1. Init => SInv
  BY InitSessions DEF Init, SInv, ElsewhereTold
<1>2. SInv /\ [Next]_vars => SInv'
  BY SessionsStep, ToldStep DEF SInv
<1>3. QED
  BY <1>1, <1>2

\* Every order is placed for a table its session was registered for, and where
\* no id was registered elsewhere too, for the only one, for any number of
\* tables, sessions and concurrent requests.
THEOREM NoOrderAtOtherTable == Spec => []OrderAtOwnTable
<1>1. ASSUME SInv, NEW o \in DOMAIN orders
      PROVE  /\ orders[o].first \in issued[orders[o].session]
             /\ "elsewhere" \notin excuses[orders[o].first] =>
                   issued[orders[o].session] = {orders[o].first}
  <2>0. orders[o] \in Order
    BY <1>1 DEF SInv, TInv, TypeOK
  <2>1. orders[o].session \in Sessions
    BY <2>0 DEF Order
  <2>2. orders[o].first \in issued[orders[o].session]
    BY <1>1 DEF SInv, TInv, Placing
  <2>3. QED
    BY <1>1, <2>1, <2>2 DEF SInv, ElsewhereTold
<1>2. SInv => OrderAtOwnTable
  BY <1>1 DEF OrderAtOwnTable
<1>3. QED
  BY <1>2, SInvHolds, PTL DEF Spec

-----------------------------------------------------------------------------
(* The keys.  At a table with none of the excuses one handler at most is at   *)
(* work, and between its commands the two keys differ in a way that its next  *)
(* command mends.                                                             *)

\* No handler is left at a table once it has ended; a key names a session that
\* was registered for its table.
Placed ==
    /\ \A r \in Requests :
          /\ req[r].pc = "idle" => req[r].table = NoTable
          /\ req[r].pc # "move" => req[r].to = NoTable
          /\ req[r].pc = "delSession" =>
                /\ req[r].session \in Sessions
                /\ req[r].table \in issued[req[r].session]
    /\ \A t \in Tables : active[t] # NoSession => t \in issued[active[t]]

Upsets == {"overlap", "overwritten", "elsewhere", "expired", "lost"}
Clean(t) == Upsets \cap excuses[t] = {}

Agree(t) == \A s \in Sessions : session[s] = t <=> active[t] = s

\* What KeysHold says of the open orders of a table that nobody is at.
Covered(t) == \A o \in Open(t) : /\ session[orders[o].session] = t
                                 /\ active[t] = orders[o].session

\* The keys of table t while handler r is at work there.
Between(r, t) ==
    LET h == req[r] IN
    /\ h.pc = "setSession" => Agree(t) /\ active[t] \in {NoSession, h.session}
    /\ h.pc = "setTable"   => \A s \in Sessions : session[s] = t <=> s = h.session
    /\ h.pc = "delSession" => Agree(t) /\ active[t] = h.session
    /\ h.pc = "delTable"   => \A s \in Sessions : session[s] # t
    /\ h.pc \in {"insert", "get", "move"} => Agree(t)

\* The open orders of table t meanwhile.
Served(r, t) ==
    LET h == req[r] IN
    /\ h.pc = "insert" => /\ Covered(t)
                          /\ session[h.session] = t /\ active[t] = h.session
    /\ h.pc # "insert" => Open(t) = {}
    /\ h.pc # "move"

TableOK(t) ==
    Clean(t) =>
        /\ \A q, r \in Requests : t \in At(req[q]) \cap At(req[r]) => q = r
        /\ Quiet(t) => Agree(t)
        /\ \A r \in Requests : t \in At(req[r]) => Between(r, t)
        /\ excuses[t] = {} =>
              /\ Quiet(t) => Covered(t)
              /\ \A r \in Requests : t \in At(req[r]) => Served(r, t)

KeysInv == Placed /\ \A t \in Tables : TableOK(t)

\* All handlers but r stay as they are.
Moves(r) == \A q \in Requests \ {r} : req'[q] = req[q]

LEMMA PlacedKeeps ==
    ASSUME TypeOK, HandlerOK, Placed, NEW r \in Requests, Moves(r),
           req'[r].pc = "idle" => req'[r].table = NoTable,
           req'[r].pc # "move" => req'[r].to = NoTable,
           req'[r].pc = "delSession" =>
              /\ req'[r].session \in Sessions
              /\ req'[r].table \in issued'[req'[r].session],
           \A s \in Sessions : issued[s] \subseteq issued'[s],
           \A t \in Tables : active'[t] = active[t] \/ active'[t] = NoSession
                                                    \/ t \in issued'[active'[t]]
    PROVE  Placed'
<1>1. ASSUME NEW q \in Requests
      PROVE  /\ req'[q].pc = "idle" => req'[q].table = NoTable
             /\ req'[q].pc # "move" => req'[q].to = NoTable
             /\ req'[q].pc = "delSession" =>
                   /\ req'[q].session \in Sessions
                   /\ req'[q].table \in issued'[req'[q].session]
  <2>1. CASE q = r
    BY <2>1
  <2>2. CASE q # r
    <3>1. req'[q] = req[q]
      BY <2>2 DEF Moves
    <3>2. req[q].pc = "delSession" =>
             /\ req[q].session \in Sessions /\ req[q].table \in Tables
             /\ req[q].table \in issued[req[q].session]
      BY DEF Placed, HandlerOK
    <3>3. QED
      BY <3>1, <3>2, SessionsAssumption DEF Placed
  <2>3. QED
    BY <2>1, <2>2
<1>2. ASSUME NEW t \in Tables, active'[t] # NoSession
      PROVE  t \in issued'[active'[t]]
  <2>1. CASE active'[t] = active[t]
    <3>1. active[t] \in Sessions /\ t \in issued[active[t]]
      BY <1>2, <2>1 DEF Placed, TypeOK
    <3>2. QED
      BY <2>1, <3>1, SessionsAssumption
  <2>2. QED
    BY <1>2, <2>1
<1>3. QED
  BY <1>1, <1>2 DEF Placed

\* The table a handler is at.
LEMMA AtOne ==
    ASSUME NEW h, h.to = NoTable
    PROVE  \A t \in Tables : t \in At(h) <=> t = h.table
  BY SessionsAssumption DEF At

\* A step elsewhere: nothing at table t changes but that orders leave it.
Apart(t) ==
    /\ excuses[t] \subseteq excuses'[t]
    /\ \A r \in Requests : t \in At(req[r]) \cup At(req'[r]) => req'[r] = req[r]
    /\ \A s \in Sessions : session'[s] = t <=> session[s] = t
    /\ active'[t] = active[t]
    /\ \A o \in Open(t)' : o \in Open(t) /\ orders'[o].session = orders[o].session

LEMMA OrderSession ==
    ASSUME TypeOK
    PROVE  \A t : \A o \in Open(t) : o \in DOMAIN orders /\ orders[o].session \in Sessions
<1>1. \A o \in DOMAIN orders : orders[o] \in Order
  BY DEF TypeOK
<1>2. QED
  BY <1>1 DEF Open, Order

LEMMA ApartKeeps ==
    ASSUME TypeOK, HandlerOK, NEW t \in Tables, TableOK(t), Apart(t)
    PROVE  TableOK(t)'
<1>1. Clean(t)' => Clean(t)
  BY DEF Clean, Apart
<1>2. /\ \A r \in Requests : t \in At(req[r])' <=> t \in At(req[r])
      /\ Quiet(t)' <=> Quiet(t)
  BY DEF Apart, Quiet, At
<1>3. Agree(t)' <=> Agree(t)
  BY DEF Apart, Agree
<1>4. \A o \in Open(t) : orders[o].session \in Sessions
  BY OrderSession
<1>5. Covered(t) => Covered(t)'
  BY <1>4 DEF Apart, Covered
<1>6. ASSUME NEW r \in Requests, t \in At(req[r]), Between(r, t)
      PROVE  Between(r, t)'
  <2>1. req'[r] = req[r]
    BY <1>6 DEF Apart
  <2>2. QED
    BY <1>3, <1>6, <2>1 DEF Apart, Between
<1>7. ASSUME NEW r \in Requests, t \in At(req[r]), Served(r, t)
      PROVE  Served(r, t)'
  <2>1. req'[r] = req[r]
    BY <1>7 DEF Apart
  <2>2. req[r].pc = "insert" => req[r].session \in Sessions
    BY DEF HandlerOK
  <2>3. Open(t) = {} => Open(t)' = {}
    BY DEF Apart
  <2>4. QED
    BY <1>5, <1>7, <2>1, <2>2, <2>3 DEF Apart, Served
<1>8. excuses'[t] = {} => excuses[t] = {}
  BY DEF Apart
<1>9. QED
  BY <1>1, <1>2, <1>3, <1>5, <1>6, <1>7, <1>8 DEF TableOK

\* A step of the one handler that is at table t, before it or after it.
LEMMA AloneKeeps ==
    ASSUME NEW r \in Requests, NEW t \in Tables,
           Clean(t)' =>
              /\ \A q \in Requests \ {r} : req'[q] = req[q] /\ t \notin At(req[q])
              /\ t \in At(req[r])' => Between(r, t)' /\ (excuses'[t] = {} => Served(r, t)')
              /\ t \notin At(req[r])' => Agree(t)' /\ (excuses'[t] = {} => Covered(t)')
    PROVE  TableOK(t)'
<1> SUFFICES ASSUME Clean(t)' PROVE TableOK(t)'
  BY DEF TableOK
<1>1. \A q \in Requests \ {r} : t \notin At(req[q])'
  BY DEF At
<1>2. \A p, q \in Requests : t \in At(req[p])' \cap At(req[q])' => p = q
  BY <1>1
<1>3. Quiet(t)' => t \notin At(req[r])'
  BY DEF Quiet
<1>4. \A q \in Requests : t \in At(req[q])' => q = r
  BY <1>1
<1>5. \A q \in Requests : t \in At(req[q])' =>
         Between(q, t)' /\ (excuses'[t] = {} => Served(q, t)')
  BY <1>4
<1>6. Quiet(t)' => Agree(t)' /\ (excuses'[t] = {} => Covered(t)')
  BY <1>3
<1>7. QED
  BY <1>2, <1>5, <1>6 DEF TableOK

\* What is known of the table a handler is at.
LEMMA AloneHere ==
    ASSUME NEW r \in Requests, NEW t \in Tables, TableOK(t), Clean(t), t \in At(req[r])
    PROVE  /\ \A q \in Requests \ {r} : t \notin At(req[q])
           /\ Between(r, t)
           /\ excuses[t] = {} => Served(r, t)
  BY DEF TableOK

\* What is known of a table where a handler starts without an overlap.
LEMMA StartHere ==
    ASSUME TypeOK, NEW r \in Requests, NEW t \in Tables, TableOK(t), NEW h, t \in At(h),
           Overlap(h)[t] \subseteq excuses'[t], Clean(t)'
    PROVE  /\ Quiet(t) /\ Agree(t) /\ excuses[t] \subseteq excuses'[t]
           /\ excuses[t] = {} => Covered(t)
<1>1. excuses[t] \subseteq excuses'[t]
  BY OverlapTells
<1>2. Quiet(t)
  BY OverlapTells DEF Clean, Upsets
<1>3. Clean(t)
  BY <1>1 DEF Clean
<1>4. QED
  BY <1>1, <1>2, <1>3 DEF TableOK

\* Where each step of a handler leads.
LEMMA PlacedStep ==
    ASSUME TypeOK, HandlerOK, Placed, [Next]_vars
    PROVE  Placed'
<1>t. req \in [Requests -> Handler] /\ issued \in [Sessions -> SUBSET Tables]
      /\ active \in [Tables -> Sessions \cup {NoSession}]
  BY DEF TypeOK
\* The three ways in which a handler moves.
<1>b. ASSUME NEW r \in Requests, NEW h, Begin(r, h), h.pc \notin {"idle", "delSession"},
             h.pc # "move" => h.to = NoTable, active' = active,
             \A s \in Sessions : issued[s] \subseteq issued'[s]
      PROVE  Placed'
  <2>1. req'[r] = h /\ Moves(r)
    BY <1>t, <1>b DEF Begin, Moves
  <2>2. QED
    BY <1>b, <2>1, PlacedKeeps
<1>e. ASSUME NEW r \in Requests, End(r), issued' = issued,
             \A t \in Tables : active'[t] = active[t] \/ active'[t] = NoSession
                                                      \/ t \in issued'[active'[t]]
      PROVE  Placed'
  <2>1. req'[r] = Idle /\ Moves(r)
    BY <1>t, <1>e DEF End, Moves
  <2>2. QED
    BY <1>e, <2>1, PlacedKeeps DEF Idle
<1>g. ASSUME NEW r \in Requests, NEW pc \in {"setTable", "insert", "delTable"},
             Goto(r, pc), req[r].pc # "move", issued' = issued,
             \A t \in Tables : active'[t] = active[t] \/ active'[t] = NoSession
                                                      \/ t \in issued'[active'[t]]
      PROVE  Placed'
  <2>1. req'[r].pc = pc /\ req'[r].to = NoTable /\ Moves(r)
    BY <1>g, GotoType DEF Placed, Moves
  <2>2. QED
    BY <1>g, <2>1, PlacedKeeps
<1>n. active' = active => \A t \in Tables : active'[t] = active[t]
  OBVIOUS
<1>1. ASSUME NEW r \in Requests, NEW t \in Tables, NewRequest(r, t)
      PROVE  Placed'
  <2>1. ASSUME NEW s \in Sessions, OrderWithSession(r, t, s) PROVE Placed'
    BY <1>b, <2>1 DEF OrderWithSession, Idle
  <2>2. ASSUME NEW s \in Sessions, OrderWithoutSession(r, t, s) PROVE Placed'
    <3> DEFINE h == [Idle EXCEPT !.pc = "setSession", !.kind = "order", !.table = t,
                                 !.session = s]
    <3>1. Begin(r, h) /\ h.pc = "setSession" /\ h.to = NoTable /\ active' = active
      BY <2>2 DEF OrderWithoutSession, Idle
    <3>2. \A u \in Sessions : issued[u] \subseteq issued'[u]
      BY <1>t, <2>2 DEF OrderWithoutSession, Fresh
    <3> HIDE DEF h
    <3>3. QED
      BY <1>b, <3>1, <3>2
  <2>3. ASSUME NEW s \in Sessions, Register(r, t, s) PROVE Placed'
    <3> DEFINE h == [Idle EXCEPT !.pc = "setSession", !.kind = "register", !.table = t,
                                 !.session = s]
    <3>1. Begin(r, h) /\ h.pc = "setSession" /\ h.to = NoTable /\ active' = active
      BY <2>3 DEF Register, Idle
    <3>2. \A u \in Sessions : issued[u] \subseteq issued'[u]
      BY <1>t, <2>3 DEF Register
    <3> HIDE DEF h
    <3>3. QED
      BY <1>b, <3>1, <3>2
  <2>4. ASSUME NEW G \in SUBSET DOMAIN orders, Pay(r, t, G) PROVE Placed'
    BY <1>b, <2>4 DEF Pay, Clear, Idle
  <2>5. ASSUME RequestBill(r, t) PROVE Placed'
    BY <1>b, <2>5 DEF RequestBill, Clear, Idle
  <2>6. ASSUME NEW to \in Tables, MoveRead(r, t, to) PROVE Placed'
    BY <1>b, <2>6 DEF MoveRead, Idle
  <2>7. QED
    BY <1>1, <2>1, <2>2, <2>3, <2>4, <2>5, <2>6 DEF NewRequest
<1>2. ASSUME NEW r \in Requests, InsertOrder(r) \/ Reject(r) \/ MoveCommit(r)
      PROVE  Placed'
  BY <1>e, <1>n, <1>2 DEF InsertOrder, Reject, MoveCommit
<1>3. ASSUME NEW r \in Requests, SetSession(r) PROVE Placed'
  BY <1>g, <1>n, <1>3 DEF SetSession
<1>4. ASSUME NEW r \in Requests, SetTable(r) PROVE Placed'
  <2>1. req[r].pc = "setTable" /\ issued' = issued
        /\ active' = [active EXCEPT ![req[r].table] = req[r].session]
        /\ (Goto(r, "insert") \/ End(r))
    BY <1>4 DEF SetTable, TableValue
  <2>2. req[r].table \in issued[req[r].session]
    BY <2>1 DEF HandlerOK
  <2>3. \A t \in Tables : active'[t] = active[t] \/ t \in issued'[active'[t]]
    BY <1>t, <2>1, <2>2
  <2>4. QED
    BY <1>e, <1>g, <2>1, <2>3
<1>5. ASSUME NEW r \in Requests, GetSession(r) PROVE Placed'
  <2>1. UNCHANGED <<active, issued>> /\ req[r].pc = "get"
    BY <1>5 DEF GetSession
  <2>2. CASE End(r)
    BY <1>e, <1>n, <2>1, <2>2
  <2>3. CASE ~End(r)
    <3> DEFINE s == active[req[r].table]
    <3>1. s # NoSession /\ req' = [req EXCEPT ![r].pc = "delSession", ![r].session = s]
      BY <1>5, <2>3 DEF GetSession
    <3>2. req[r].table \in Tables /\ req[r].to = NoTable
      BY <2>1 DEF HandlerOK, Placed
    <3>3. s \in Sessions /\ req[r].table \in issued[s]
      BY <1>t, <3>1, <3>2 DEF Placed
    <3> HIDE DEF s
    <3>4. /\ req'[r].pc = "delSession" /\ req'[r].session = s
          /\ req'[r].table = req[r].table /\ req'[r].to = NoTable /\ Moves(r)
      BY <1>t, <3>1, <3>2 DEF Handler, Moves
    <3>5. QED
      BY <2>1, <3>3, <3>4, PlacedKeeps
  <2>4. QED
    BY <2>2, <2>3
<1>6. ASSUME NEW r \in Requests, DelSession(r) PROVE Placed'
  BY <1>g, <1>n, <1>6 DEF DelSession
<1>7. ASSUME NEW r \in Requests, DelTable(r) PROVE Placed'
  <2>1. End(r) /\ issued' = issued
        /\ \A t \in Tables : active'[t] = active[t] \/ active'[t] = NoSession
    BY <1>t, <1>7 DEF DelTable
  <2>2. QED
    BY <1>e, <2>1
<1>8. ASSUME NEW r \in Requests, Lose(r) PROVE Placed'
  <2>1. UNCHANGED <<active, issued>> /\ req[r].pc # "move"
        /\ (End(r) \/ \E pc \in {"setTable", "insert", "delTable"} : Goto(r, pc))
    BY <1>8 DEF Lose
  <2>2. QED
    BY <1>e, <1>g, <1>n, <2>1
<1>9. ASSUME NEW o \in DOMAIN orders, Cancel(o) PROVE Placed'
  BY <1>9 DEF Cancel, Placed
<1>10. ASSUME NEW s \in Sessions, ExpireSession(s) PROVE Placed'
  BY <1>10 DEF ExpireSession, Placed
<1>11. ASSUME NEW t \in Tables, ExpireTable(t) PROVE Placed'
  <2>1. UNCHANGED <<req, issued>>
        /\ \A u \in Tables : active'[u] = active[u] \/ active'[u] = NoSession
    BY <1>t, <1>11 DEF ExpireTable
  <2>2. QED
    BY <2>1 DEF Placed
<1>12. CASE UNCHANGED vars
  BY <1>12 DEF vars, Placed
<1>13. QED
  BY <1>1, <1>2, <1>3, <1>4, <1>5, <1>6, <1>7, <1>8, <1>9, <1>10, <1>11, <1>12
  DEF Next, HandlerStep

\* A handler that starts elsewhere.
LEMMA StartApart ==
    ASSUME TypeOK, Placed, NEW r \in Requests, NEW t \in Tables, NEW h, Begin(r, h),
           t \notin At(h)
    PROVE  \A q \in Requests : t \in At(req[q]) \cup At(req'[q]) => req'[q] = req[q]
<1>1. req'[r] = h /\ \A q \in Requests \ {r} : req'[q] = req[q]
  BY DEF Begin, TypeOK
<1>2. req[r].table = NoTable /\ req[r].to = NoTable
  BY DEF Begin, Placed
<1>3. t \notin At(req[r])
  BY <1>2, SessionsAssumption DEF At
<1>4. QED
  BY <1>1, <1>3

\* The two ways in which an order starts, and a session that staff register.
LEMMA TableStart ==
    ASSUME TypeOK, HandlerOK, KeysOK, Placed, NEW t \in Tables, TableOK(t),
           NEW r \in Requests, NEW t0 \in Tables, NEW s \in Sessions,
           \/ OrderWithSession(r, t0, s)
           \/ OrderWithoutSession(r, t0, s)
           \/ Register(r, t0, s)
    PROVE  TableOK(t)'
<1> DEFINE pc == IF OrderWithSession(r, t0, s) THEN "insert" ELSE "setSession"
<1>1. PICK h : /\ Begin(r, h) /\ h.table = t0 /\ h.to = NoTable /\ h.session = s
               /\ h.pc = pc /\ pc \in {"insert", "setSession"}
               /\ Overlap(h)[t] \subseteq excuses'[t]
               /\ UNCHANGED <<session, active, orders>>
  <2>1. CASE OrderWithSession(r, t0, s)
    <3> DEFINE g == [Idle EXCEPT !.pc = "insert", !.kind = "order", !.table = t0,
                                 !.session = s]
    <3>1. Begin(r, g) /\ excuses' = Overlap(g) /\ UNCHANGED <<session, active, orders>>
      BY <2>1 DEF OrderWithSession
    <3>2. g.table = t0 /\ g.to = NoTable /\ g.session = s /\ g.pc = "insert"
      BY DEF Idle
    <3> HIDE DEF g
    <3>3. QED
      BY <2>1, <3>1, <3>2
  <2>2. CASE OrderWithoutSession(r, t0, s) /\ ~OrderWithSession(r, t0, s)
    <3> DEFINE g == [Idle EXCEPT !.pc = "setSession", !.kind = "order", !.table = t0,
                                 !.session = s]
    <3>1. Begin(r, g) /\ excuses' = Overlap(g) /\ UNCHANGED <<session, active, orders>>
      BY <2>2 DEF OrderWithoutSession
    <3>2. g.table = t0 /\ g.to = NoTable /\ g.session = s /\ g.pc = "setSession"
      BY DEF Idle
    <3> HIDE DEF g
    <3>3. QED
      BY <2>2, <3>1, <3>2
  <2>3. CASE Register(r, t0, s) /\ ~OrderWithSession(r, t0, s)
    <3> DEFINE g == [Idle EXCEPT !.pc = "setSession", !.kind = "register", !.table = t0,
                                 !.session = s]
               e == Note(Overlap(g), "overwritten", {t0}, active[t0] \notin {NoSession, s})
    <3>1. Begin(r, g) /\ excuses' = Note(e, Again(s, t0), issued[s] \cup {t0}, ~Fresh(s))
          /\ UNCHANGED <<session, active, orders>>
      BY <2>3 DEF Register
    <3>2. g.table = t0 /\ g.to = NoTable /\ g.session = s /\ g.pc = "setSession"
      BY DEF Idle
    <3>3. Overlap(g)[t] \subseteq e[t]
      BY NoteGrows
    <3> HIDE DEF g, e
    <3>4. e[t] \subseteq excuses'[t]
      BY <3>1, NoteGrows
    <3>5. QED
      BY <2>3, <3>1, <3>2, <3>3, <3>4
  <2>4. QED
    BY <2>1, <2>2, <2>3
<1>2. req'[r] = h /\ \A q \in Requests \ {r} : req'[q] = req[q]
  BY <1>1 DEF Begin, TypeOK
<1>3. t \in At(h) <=> t = t0
  BY <1>1, AtOne
<1>4. CASE t # t0
  <2>1. \A q \in Requests : t \in At(req[q]) \cup At(req'[q]) => req'[q] = req[q]
    BY <1>1, <1>3, <1>4, StartApart
  <2>2. excuses[t] \subseteq excuses'[t]
    BY <1>1, OverlapTells
  <2>3. Open(t)' = Open(t)
    BY <1>1 DEF Open
  <2>4. Apart(t)
    BY <1>1, <2>1, <2>2, <2>3 DEF Apart
  <2>5. QED
    BY <2>4, ApartKeeps
<1>5. CASE t = t0
  <2> SUFFICES ASSUME Clean(t)'
               PROVE  /\ \A q \in Requests \ {r} : req'[q] = req[q] /\ t \notin At(req[q])
                      /\ t \in At(req[r])' /\ Between(r, t)'
                      /\ excuses'[t] = {} => Served(r, t)'
    BY AloneKeeps
  <2>1. /\ Quiet(t) /\ Agree(t) /\ excuses[t] \subseteq excuses'[t]
        /\ excuses[t] = {} => Covered(t)
    BY <1>1, <1>3, <1>5, StartHere
  <2>2. \A q \in Requests \ {r} : req'[q] = req[q] /\ t \notin At(req[q])
    BY <1>2, <2>1 DEF Quiet
  <2>3. t \in At(req[r])'
    BY <1>2, <1>3, <1>5 DEF At
  <2>4. Agree(t)' /\ (Covered(t) => Covered(t)') /\ Open(t)' = Open(t)
    BY <1>1, <2>1 DEF Agree, Covered, Open
  <2>5. CASE OrderWithSession(r, t0, s)
    <3>1. session[s] = t
      BY <1>5, <2>5 DEF OrderWithSession, Validated
    <3>2. active[t] = s
      BY <2>1, <3>1 DEF Agree
    <3>3. QED
      BY <1>1, <1>2, <2>1, <2>2, <2>3, <2>4, <2>5, <3>1, <3>2 DEF Between, Served
  <2>6. CASE ~OrderWithSession(r, t0, s)
    <3>1. active[t] \in {NoSession, s}
      <4>1. CASE OrderWithoutSession(r, t0, s)
        BY <1>5, <4>1 DEF OrderWithoutSession, TableFree
      <4>2. CASE Register(r, t0, s)
        <5> DEFINE g == [Idle EXCEPT !.pc = "setSession", !.kind = "register",
                                     !.table = t0, !.session = s]
                   e == Note(Overlap(g), "overwritten", {t0},
                             active[t0] \notin {NoSession, s})
        <5>1. excuses' = Note(e, Again(s, t0), issued[s] \cup {t0}, ~Fresh(s))
          BY <4>2 DEF Register
        <5>2. active[t] \notin {NoSession, s} => "overwritten" \in e[t]
          BY <1>5, NoteGrows
        <5> HIDE DEF g, e
        <5>3. e[t] \subseteq excuses'[t]
          BY <5>1, NoteGrows
        <5>4. QED
          BY <5>2, <5>3 DEF Clean, Upsets
      <4>3. QED
        BY <2>6, <4>1, <4>2
    <3>2. excuses'[t] = {} => issued[s] = {}
      <4>1. CASE OrderWithoutSession(r, t0, s)
        BY <4>1 DEF OrderWithoutSession, Fresh
      <4>2. CASE Register(r, t0, s)
        <5> DEFINE g == [Idle EXCEPT !.pc = "setSession", !.kind = "register",
                                     !.table = t0, !.session = s]
                   e == Note(Overlap(g), "overwritten", {t0},
                             active[t0] \notin {NoSession, s})
        <5>1. excuses' = Note(e, Again(s, t0), issued[s] \cup {t0}, ~Fresh(s))
          BY <4>2 DEF Register
        <5> HIDE DEF g, e
        <5>2. ~Fresh(s) => Again(s, t0) \in excuses'[t]
          BY <1>5, <5>1, NoteGrows
        <5>3. QED
          BY <5>2 DEF Fresh
      <4>3. QED
        BY <2>6, <4>1, <4>2
    <3>3. excuses'[t] = {} => active[t] = NoSession
      BY <3>1, <3>2, SessionsAssumption DEF Placed
    <3>4. excuses'[t] = {} => Open(t) = {}
      BY <2>1, <3>3, OrderSession, SessionsAssumption DEF Covered
    <3>5. Between(r, t)'
      BY <1>1, <1>2, <2>4, <2>6, <3>1 DEF Between
    <3>6. excuses'[t] = {} => Served(r, t)'
      BY <1>1, <1>2, <2>4, <2>6, <3>4 DEF Served
    <3>7. QED
      BY <2>2, <2>3, <3>5, <3>6
  <2>7. QED
    BY <2>5, <2>6
<1>6. QED
  BY <1>4, <1>5

\* Orders that are paid, or whose table becomes to.
LEMMA OpenShrinks ==
    ASSUME TypeOK, NEW f, NEW G,
           orders' = [o \in DOMAIN orders |-> IF o \in G THEN f[o] ELSE orders[o]],
           \A o \in DOMAIN orders : f[o].session = orders[o].session,
           NEW t, \A o \in G \cap DOMAIN orders : f[o].table # t \/ f[o].status # "open"
    PROVE  \A o \in Open(t)' : o \in Open(t) \ G /\ orders'[o].session = orders[o].session
<1>1. DOMAIN orders' = DOMAIN orders
  OBVIOUS
<1>2. QED
  BY <1>1 DEF Open

\* The three ways in which a session starts to end or the orders to move.
LEMMA TableLeave ==
    ASSUME TypeOK, HandlerOK, Placed, NEW t \in Tables, TableOK(t),
           NEW r \in Requests, NEW h, Begin(r, h),
           h.pc \in {"get", "move"},
           UNCHANGED <<session, active>>,
           Overlap(h)[t] \subseteq excuses'[t],
           t \in At(h) => (excuses'[t] = {} => Open(t)' = {} /\ h.pc = "get"),
           \A o \in Open(t)' : o \in Open(t) /\ orders'[o].session = orders[o].session
    PROVE  TableOK(t)'
<1>1. req'[r] = h /\ \A q \in Requests \ {r} : req'[q] = req[q]
  BY DEF Begin, TypeOK
<1>2. CASE t \notin At(h)
  <2>1. \A q \in Requests : t \in At(req[q]) \cup At(req'[q]) => req'[q] = req[q]
    BY <1>2, StartApart
  <2>2. excuses[t] \subseteq excuses'[t]
    BY OverlapTells
  <2>3. Apart(t)
    BY <2>1, <2>2 DEF Apart
  <2>4. QED
    BY <2>3, ApartKeeps
<1>3. CASE t \in At(h)
  <2> SUFFICES ASSUME Clean(t)'
               PROVE  /\ \A q \in Requests \ {r} : req'[q] = req[q] /\ t \notin At(req[q])
                      /\ t \in At(req[r])' /\ Between(r, t)'
                      /\ excuses'[t] = {} => Served(r, t)'
    BY AloneKeeps
  <2>1. Quiet(t) /\ Agree(t)
    BY <1>3, StartHere
  <2>2. \A q \in Requests \ {r} : req'[q] = req[q] /\ t \notin At(req[q])
    BY <1>1, <2>1 DEF Quiet
  <2>3. t \in At(req[r])'
    BY <1>1, <1>3 DEF At
  <2>4. Between(r, t)'
    BY <1>1, <2>1 DEF Agree, Between
  <2>5. excuses'[t] = {} => Served(r, t)'
    BY <1>1, <1>3 DEF Served
  <2>6. QED
    BY <2>2, <2>3, <2>4, <2>5
<1>4. QED
  BY <1>2, <1>3

\* The handlers that end a session, and the one that moves the orders.
LEMMA TablePay ==
    ASSUME TypeOK, HandlerOK, Placed, NEW t \in Tables, TableOK(t),
           NEW r \in Requests, NEW t0 \in Tables, NEW G \in SUBSET DOMAIN orders,
           Pay(r, t0, G)
    PROVE  TableOK(t)'
<1> DEFINE h == Clear(t0)
<1>1. Begin(r, h) /\ h.pc = "get" /\ h.table = t0 /\ h.to = NoTable
      /\ UNCHANGED <<session, active>>
  BY DEF Pay, Clear, Idle
<1>2. excuses' = Note(Overlap(h), "partly paid", {t0}, G # Open(t0))
  BY DEF Pay
<1>3. \A u \in Tables : u \in At(h) <=> u = t0
  BY <1>1, AtOne
<1> DEFINE f == [o \in DOMAIN orders |-> [orders[o] EXCEPT !.status = "paid"]]
<1>4. orders' = [o \in DOMAIN orders |-> IF o \in G THEN f[o] ELSE orders[o]]
  BY DEF Pay
<1>5. \A o \in DOMAIN orders : f[o].session = orders[o].session /\ f[o].status = "paid"
  <2>1. \A o \in DOMAIN orders : orders[o] \in Order
    BY DEF TypeOK
  <2>2. QED
    BY <2>1 DEF Order
<1> HIDE DEF f, h
<1>6. \A o \in Open(t)' : o \in Open(t) \ G /\ orders'[o].session = orders[o].session
  BY <1>4, <1>5, OpenShrinks
<1>7. Overlap(h)[t] \subseteq excuses'[t]
  BY <1>2, NoteGrows
<1>8. t = t0 /\ excuses'[t] = {} => G = Open(t)
  BY <1>2, NoteGrows
<1>9. t \in At(h) => (excuses'[t] = {} => Open(t)' = {} /\ h.pc = "get")
  BY <1>1, <1>3, <1>6, <1>8
<1>10. QED
  BY <1>1, <1>6, <1>7, <1>9, TableLeave

LEMMA TableBill ==
    ASSUME TypeOK, HandlerOK, Placed, NEW t \in Tables, TableOK(t),
           NEW r \in Requests, NEW t0 \in Tables, RequestBill(r, t0)
    PROVE  TableOK(t)'
<1> DEFINE h == Clear(t0)
<1>1. Begin(r, h) /\ h.pc = "get" /\ h.table = t0 /\ h.to = NoTable
      /\ UNCHANGED <<session, active, orders>>
  BY DEF RequestBill, Clear, Idle
<1>2. excuses' = Note(Overlap(h), "bill", {t0}, TRUE)
  BY DEF RequestBill
<1>3. \A u \in Tables : u \in At(h) <=> u = t0
  BY <1>1, AtOne
<1> HIDE DEF h
<1>4. Overlap(h)[t] \subseteq excuses'[t]
  BY <1>2, NoteGrows
<1>5. t \in At(h) => excuses'[t] # {}
  BY <1>2, <1>3, NoteGrows
<1>6. \A o \in Open(t)' : o \in Open(t) /\ orders'[o].session = orders[o].session
  BY <1>1 DEF Open
<1>7. QED
  BY <1>1, <1>4, <1>5, <1>6, TableLeave

LEMMA TableMove ==
    ASSUME TypeOK, HandlerOK, Placed, NEW t \in Tables, TableOK(t),
           NEW r \in Requests, NEW t0 \in Tables, NEW to \in Tables, MoveRead(r, t0, to)
    PROVE  TableOK(t)'
<1> DEFINE h == [Idle EXCEPT !.pc = "move", !.kind = "move", !.table = t0,
                             !.to = to, !.todo = Open(t0)]
<1>1. Begin(r, h) /\ excuses' = Note(Overlap(h), "moved", At(h), TRUE)
      /\ UNCHANGED <<session, active, orders>>
  BY DEF MoveRead
<1>2. h.pc = "move"
  BY DEF Idle
<1> HIDE DEF h
<1>4. Overlap(h)[t] \subseteq excuses'[t]
  BY <1>1, NoteGrows
<1>5. t \in At(h) => excuses'[t] # {}
  BY <1>1, NoteGrows
<1>6. \A o \in Open(t)' : o \in Open(t) /\ orders'[o].session = orders[o].session
  BY <1>1 DEF Open
<1>7. QED
  BY <1>1, <1>2, <1>4, <1>5, <1>6, TableLeave

\* A handler that goes on or ends.
LEMMA HandlerKeeps ==
    ASSUME TypeOK, HandlerOK, NEW t \in Tables, TableOK(t), NEW r \in Requests,
           Moves(r), excuses' = excuses, At(req'[r]) \subseteq At(req[r]),
           t \notin At(req[r]) =>
              /\ \A s \in Sessions : session'[s] = t <=> session[s] = t
              /\ active'[t] = active[t]
              /\ \A o \in Open(t)' : o \in Open(t) /\ orders'[o].session = orders[o].session,
           (t \in At(req[r]) /\ Between(r, t) /\ (excuses[t] = {} => Served(r, t))) =>
              /\ t \in At(req'[r]) => Between(r, t)' /\ (excuses[t] = {} => Served(r, t)')
              /\ t \notin At(req'[r]) => Agree(t)' /\ (excuses[t] = {} => Covered(t)')
    PROVE  TableOK(t)'
<1>1. CASE t \notin At(req[r])
  <2>1. \A q \in Requests : t \in At(req[q]) \cup At(req'[q]) => req'[q] = req[q]
    BY <1>1 DEF Moves
  <2>2. Apart(t)
    BY <1>1, <2>1 DEF Apart
  <2>3. QED
    BY <2>2, ApartKeeps
<1>2. CASE t \in At(req[r])
  <2> SUFFICES ASSUME Clean(t)'
               PROVE  /\ \A q \in Requests \ {r} : req'[q] = req[q] /\ t \notin At(req[q])
                      /\ t \in At(req[r])' => Between(r, t)' /\ (excuses'[t] = {} => Served(r, t)')
                      /\ t \notin At(req[r])' => Agree(t)' /\ (excuses'[t] = {} => Covered(t)')
    BY AloneKeeps
  <2>1. Clean(t)
    BY DEF Clean
  <2>2. /\ \A q \in Requests \ {r} : t \notin At(req[q])
        /\ Between(r, t)
        /\ excuses[t] = {} => Served(r, t)
    BY <1>2, <2>1, AloneHere
  <2>3. \A q \in Requests \ {r} : req'[q] = req[q] /\ t \notin At(req[q])
    BY <2>2 DEF Moves
  <2>4. At(req[r])' = At(req'[r])
    BY DEF At
  <2>5. QED
    BY <1>2, <2>2, <2>3, <2>4
<1>3. QED
  BY <1>1, <1>2

\* Where a handler that ends or goes on is.
LEMMA EndAt ==
    ASSUME TypeOK, NEW r \in Requests, End(r)
    PROVE  req'[r] = Idle /\ Moves(r) /\ At(req'[r]) = {}
<1>1. req'[r] = Idle /\ Moves(r)
  BY DEF End, Moves, TypeOK
<1>2. At(Idle) = {}
  BY SessionsAssumption DEF At, Idle
<1>3. QED
  BY <1>1, <1>2

LEMMA GotoAt ==
    ASSUME TypeOK, NEW r \in Requests, NEW pc \in {"setTable", "insert", "delTable"},
           Goto(r, pc)
    PROVE  /\ Moves(r) /\ At(req'[r]) = At(req[r])
           /\ req'[r].pc = pc /\ req'[r].session = req[r].session
<1>1. /\ req'[r].pc = pc /\ req'[r].table = req[r].table
      /\ req'[r].session = req[r].session /\ req'[r].to = req[r].to
      /\ \A q \in Requests \ {r} : req'[q] = req[q]
  BY GotoType
<1>2. QED
  BY <1>1 DEF Moves, At

\* The table of a handler that does not move orders.
LEMMA AtTable ==
    ASSUME Placed, NEW r \in Requests, req[r].pc # "move"
    PROVE  \A t \in Tables : t \in At(req[r]) <=> t = req[r].table
<1>1. req[r].to = NoTable
  BY DEF Placed
<1>2. QED
  BY <1>1, AtOne

LEMMA TableSetSession ==
    ASSUME TypeOK, HandlerOK, KeysOK, Placed, ElsewhereTold, NEW t \in Tables, TableOK(t),
           NEW r \in Requests, SetSession(r)
    PROVE  TableOK(t)'
<1> DEFINE s  == req[r].session
           t0 == req[r].table
<1>1. /\ req[r].pc = "setSession" /\ Goto(r, "setTable")
      /\ session' = [session EXCEPT ![s] = t0]
      /\ UNCHANGED <<active, orders, excuses>>
  BY DEF SetSession
<1>2. s \in Sessions /\ t0 \in Tables /\ t0 \in issued[s]
  BY <1>1 DEF HandlerOK
<1>3. t \in At(req[r]) <=> t = t0
  BY <1>1, AtTable
<1>4. /\ Moves(r) /\ At(req'[r]) = At(req[r])
      /\ req'[r].pc = "setTable" /\ req'[r].session = s
  BY <1>1, GotoAt
<1>5. session[s] \in issued[s] \cup {NoTable} /\ (t \in issued[s] /\ t # t0 => ~Clean(t))
  BY <1>2 DEF KeysOK, ElsewhereTold, Clean, Upsets
<1>6. session'[s] = t0 /\ \A u \in Sessions \ {s} : session'[u] = session[u]
  BY <1>1, <1>2 DEF TypeOK
<1>7. t # t0 /\ Clean(t) => \A u \in Sessions : session'[u] = t <=> session[u] = t
  BY <1>5, <1>6, SessionsAssumption
<1>8. Open(t)' = Open(t)
  BY <1>1 DEF Open
<1>9. ASSUME t = t0, Between(r, t)
      PROVE  Between(r, t)'
  <2>1. Agree(t) /\ active[t] \in {NoSession, s}
    BY <1>1, <1>9 DEF Between
  <2>2. \A u \in Sessions \ {s} : session[u] # t
    BY <2>1, SessionsAssumption DEF Agree
  <2>3. \A u \in Sessions : session'[u] = t <=> u = s
    BY <1>6, <1>9, <2>2
  <2> HIDE DEF s, t0
  <2>4. QED
    BY <1>4, <2>3 DEF Between
<1>10. t = t0 /\ Served(r, t) => Served(r, t)'
  BY <1>1, <1>4, <1>8 DEF Served
<1> HIDE DEF s, t0
<1>11. CASE Clean(t)
  BY <1>1, <1>3, <1>4, <1>7, <1>8, <1>9, <1>10, <1>11, HandlerKeeps DEF Open
<1>12. CASE ~Clean(t)
  BY <1>1, <1>12 DEF TableOK, Clean
<1>13. QED
  BY <1>11, <1>12

LEMMA TableSetTable ==
    ASSUME TypeOK, HandlerOK, KeysOK, Placed, NEW t \in Tables, TableOK(t),
           NEW r \in Requests, SetTable(r)
    PROVE  TableOK(t)'
<1> DEFINE s  == req[r].session
           t0 == req[r].table
<1>1. /\ req[r].pc = "setTable" /\ (Goto(r, "insert") \/ End(r))
      /\ active' = [active EXCEPT ![t0] = s]
      /\ UNCHANGED <<session, orders, excuses>>
  BY DEF SetTable, TableValue
<1>2. s \in Sessions /\ t0 \in Tables
  BY <1>1 DEF HandlerOK
<1>3. t \in At(req[r]) <=> t = t0
  BY <1>1, AtTable
<1>4. active'[t0] = s /\ (t # t0 => active'[t] = active[t])
  BY <1>1, <1>2 DEF TypeOK
<1>5. Open(t)' = Open(t)
  BY <1>1 DEF Open
<1>6. t = t0 /\ Between(r, t) => session[s] = t /\ \A u \in Sessions : session[u] = t <=> u = s
  BY <1>1, <1>2 DEF Between
<1>7. t = t0 /\ Between(r, t) => session'[s] = t /\ active'[t] = s /\ Agree(t)'
  BY <1>1, <1>4, <1>6 DEF Agree
<1>8. t = t0 /\ Served(r, t) => Open(t)' = {} /\ Covered(t)'
  BY <1>1, <1>5 DEF Served, Covered
<1>9. CASE End(r)
  <2>1. Moves(r) /\ At(req'[r]) = {}
    BY <1>9, EndAt
  <2> HIDE DEF s, t0
  <2>2. QED
    BY <1>1, <1>3, <1>4, <1>5, <1>7, <1>8, <2>1, HandlerKeeps
<1>10. CASE Goto(r, "insert")
  <2>1. /\ Moves(r) /\ At(req'[r]) = At(req[r])
        /\ req'[r].pc = "insert" /\ req'[r].session = s
    BY <1>10, GotoAt
  <2> HIDE DEF s, t0
  <2>2. t = t0 /\ Between(r, t) => Between(r, t)'
    BY <1>7, <2>1 DEF Between
  <2>3. t = t0 /\ Between(r, t) /\ Served(r, t) => Served(r, t)'
    BY <1>7, <1>8, <2>1 DEF Served
  <2>4. QED
    BY <1>1, <1>3, <1>4, <1>5, <2>1, <2>2, <2>3, HandlerKeeps
<1>11. QED
  BY <1>1, <1>9, <1>10

LEMMA TableGet ==
    ASSUME TypeOK, HandlerOK, KeysOK, Placed, NEW t \in Tables, TableOK(t),
           NEW r \in Requests, GetSession(r)
    PROVE  TableOK(t)'
<1> DEFINE t0 == req[r].table
           s  == active[t0]
<1>1. /\ req[r].pc = "get" /\ UNCHANGED <<session, active, orders, excuses>>
      /\ IF s = NoSession THEN End(r)
         ELSE req' = [req EXCEPT ![r].pc = "delSession", ![r].session = s]
  BY DEF GetSession
<1>2. t0 \in Tables
  BY <1>1 DEF HandlerOK
<1>3. t \in At(req[r]) <=> t = t0
  BY <1>1, AtTable
<1>4. Open(t)' = Open(t)
  BY <1>1 DEF Open
<1>5. Between(r, t) => Agree(t)'
  BY <1>1 DEF Between, Agree
<1>6. Served(r, t) => Open(t)' = {} /\ Covered(t)'
  BY <1>1, <1>4 DEF Served, Covered
<1>7. CASE s = NoSession
  <2>1. Moves(r) /\ At(req'[r]) = {}
    BY <1>1, <1>7, EndAt
  <2> HIDE DEF s, t0
  <2>2. QED
    BY <1>1, <1>3, <1>4, <1>5, <1>6, <2>1, HandlerKeeps
    DEF Open
<1>8. CASE s # NoSession
  <2>1. req[r] \in Handler /\ s \in Sessions
    BY <1>2, <1>8 DEF TypeOK
  <2>2. req' = [req EXCEPT ![r].pc = "delSession", ![r].session = s]
    BY <1>1, <1>8
  <2> HIDE DEF s
  <2>3. /\ req'[r].pc = "delSession" /\ req'[r].session = s
        /\ req'[r].table = req[r].table /\ req'[r].to = req[r].to /\ Moves(r)
    BY <2>1, <2>2 DEF TypeOK, Handler, Moves
  <2>4. At(req'[r]) = At(req[r])
    BY <2>3 DEF At
  <2>5. active'[t0] = s
    BY <1>1 DEF s
  <2> HIDE DEF t0
  <2>6. t = t0 /\ Between(r, t) => Between(r, t)'
    BY <1>5, <2>3, <2>5 DEF Between
  <2>7. Served(r, t) => Served(r, t)'
    BY <1>6, <2>3 DEF Served
  <2>8. QED
    BY <1>1, <1>3, <1>4, <2>3, <2>4, <2>6, <2>7, HandlerKeeps
<1>9. QED
  BY <1>7, <1>8

LEMMA TableDelSession ==
    ASSUME TypeOK, HandlerOK, KeysOK, Placed, ElsewhereTold, NEW t \in Tables, TableOK(t),
           NEW r \in Requests, DelSession(r)
    PROVE  TableOK(t)'
<1> DEFINE s  == req[r].session
           t0 == req[r].table
<1>1. /\ req[r].pc = "delSession" /\ Goto(r, "delTable")
      /\ session' = [session EXCEPT ![s] = NoTable]
      /\ UNCHANGED <<active, orders, excuses>>
  BY DEF DelSession, Without
<1>2. s \in Sessions /\ t0 \in issued[s]
  BY <1>1 DEF Placed
<1>3. t \in At(req[r]) <=> t = t0
  BY <1>1, AtTable
<1>4. /\ Moves(r) /\ At(req'[r]) = At(req[r]) /\ req'[r].pc = "delTable"
  BY <1>1, GotoAt
<1>5. session[s] \in issued[s] \cup {NoTable} /\ (t \in issued[s] /\ t # t0 => ~Clean(t))
  BY <1>2 DEF KeysOK, ElsewhereTold, Clean, Upsets
<1>6. session'[s] = NoTable /\ \A u \in Sessions \ {s} : session'[u] = session[u]
  BY <1>1, <1>2 DEF TypeOK
<1>7. t # t0 /\ Clean(t) => \A u \in Sessions : session'[u] = t <=> session[u] = t
  BY <1>5, <1>6, SessionsAssumption
<1>8. Open(t)' = Open(t)
  BY <1>1 DEF Open
<1>9. ASSUME t = t0, Between(r, t)
      PROVE  Between(r, t)'
  <2>1. Agree(t) /\ active[t] = s
    BY <1>1, <1>9 DEF Between
  <2>2. \A u \in Sessions : session'[u] # t
    BY <1>6, <2>1, SessionsAssumption DEF Agree
  <2> HIDE DEF s, t0
  <2>3. QED
    BY <1>4, <2>2 DEF Between
<1>10. t = t0 /\ Served(r, t) => Served(r, t)'
  BY <1>1, <1>4, <1>8 DEF Served
<1> HIDE DEF s, t0
<1>11. CASE Clean(t)
  BY <1>1, <1>3, <1>4, <1>7, <1>8, <1>9, <1>10, <1>11, HandlerKeeps DEF Open
<1>12. CASE ~Clean(t)
  BY <1>1, <1>12 DEF TableOK, Clean
<1>13. QED
  BY <1>11, <1>12

LEMMA TableDelTable ==
    ASSUME TypeOK, HandlerOK, KeysOK, Placed, NEW t \in Tables, TableOK(t),
           NEW r \in Requests, DelTable(r)
    PROVE  TableOK(t)'
<1> DEFINE t0 == req[r].table
<1>1. /\ req[r].pc = "delTable" /\ End(r)
      /\ active' = [active EXCEPT ![t0] = NoSession]
      /\ UNCHANGED <<session, orders, excuses>>
  BY DEF DelTable
<1>2. t0 \in Tables
  BY <1>1 DEF HandlerOK
<1>3. t \in At(req[r]) <=> t = t0
  BY <1>1, AtTable
<1>4. active'[t0] = NoSession /\ (t # t0 => active'[t] = active[t])
  BY <1>1, <1>2 DEF TypeOK
<1>5. Moves(r) /\ At(req'[r]) = {}
  BY <1>1, EndAt
<1>6. Open(t)' = Open(t)
  BY <1>1 DEF Open
<1>7. t = t0 /\ Between(r, t) => Agree(t)'
  BY <1>1, <1>4, SessionsAssumption DEF Between, Agree
<1>8. t = t0 /\ Served(r, t) => Covered(t)'
  BY <1>1, <1>6 DEF Served, Covered
<1> HIDE DEF t0
<1>9. QED
  BY <1>1, <1>3, <1>4, <1>5, <1>6, <1>7, <1>8, HandlerKeeps
  DEF Open

LEMMA TableInsert ==
    ASSUME TypeOK, HandlerOK, KeysOK, Placed, NEW t \in Tables, TableOK(t),
           NEW r \in Requests, InsertOrder(r) \/ Reject(r)
    PROVE  TableOK(t)'
<1> DEFINE row == NewRow(req[r])
<1>1. /\ req[r].pc = "insert" /\ End(r) /\ UNCHANGED <<session, active, excuses>>
      /\ orders' = Append(orders, row) \/ orders' = orders
  BY DEF InsertOrder, Reject
<1>2. /\ req[r].session \in Sessions
      /\ row.table = req[r].table /\ row.session = req[r].session
  BY <1>1 DEF HandlerOK, NewRow
<1>3. t \in At(req[r]) <=> t = req[r].table
  BY <1>1, AtTable
<1>4. Moves(r) /\ At(req'[r]) = {}
  BY <1>1, EndAt
<1> HIDE DEF row
<1>5. orders \in Seq(Order)
  BY DEF TypeOK
<1>6. ASSUME NEW o \in Open(t)'
      PROVE  \/ o \in Open(t) /\ orders'[o] = orders[o]
             \/ t = req[r].table /\ orders'[o] = row
  <2>1. CASE orders' = orders
    BY <1>6, <2>1 DEF Open
  <2>2. CASE orders' = Append(orders, row)
    <3>1. o \in DOMAIN orders' /\ orders'[o].table = t /\ orders'[o].status = "open"
      BY <1>6 DEF Open
    <3>2. CASE o \in DOMAIN orders
      <4>1. orders'[o] = orders[o]
        BY <1>5, <2>2, <3>2
      <4>2. QED
        BY <3>1, <3>2, <4>1 DEF Open
    <3>3. CASE o \notin DOMAIN orders
      <4>1. orders'[o] = row
        BY <1>5, <2>2, <3>1, <3>3
      <4>2. QED
        BY <1>2, <3>1, <4>1
    <3>4. QED
      BY <3>2, <3>3
  <2>3. QED
    BY <1>1, <2>1, <2>2
<1>7. Between(r, t) => Agree(t)'
  BY <1>1 DEF Between, Agree
<1>8. t = req[r].table /\ Served(r, t) => Covered(t)'
  BY <1>1, <1>2, <1>6 DEF Served, Covered
<1>9. t # req[r].table =>
         \A o \in Open(t)' : o \in Open(t) /\ orders'[o].session = orders[o].session
  BY <1>6
<1>10. QED
  BY <1>1, <1>3, <1>4, <1>7, <1>8, <1>9, HandlerKeeps

LEMMA TableMoved ==
    ASSUME TypeOK, HandlerOK, KeysOK, Placed, NEW t \in Tables, TableOK(t),
           NEW r \in Requests, MoveCommit(r)
    PROVE  TableOK(t)'
<1> DEFINE to == req[r].to
           f  == [o \in DOMAIN orders |-> [orders[o] EXCEPT !.table = to]]
<1>1. /\ req[r].pc = "move" /\ End(r) /\ UNCHANGED <<session, active, excuses>>
      /\ orders' = [o \in DOMAIN orders |-> IF o \in req[r].todo THEN f[o] ELSE orders[o]]
  BY DEF MoveCommit
<1>2. Moves(r) /\ At(req'[r]) = {}
  BY <1>1, EndAt
<1>3. \A o \in DOMAIN orders : f[o].session = orders[o].session /\ f[o].table = to
  <2>1. \A o \in DOMAIN orders : orders[o] \in Order
    BY DEF TypeOK
  <2>2. QED
    BY <2>1 DEF Order
<1>4. t \notin At(req[r]) => t # to
  BY DEF At
<1> HIDE DEF f, to
<1>5. t \notin At(req[r]) =>
         \A o \in Open(t)' : o \in Open(t) /\ orders'[o].session = orders[o].session
  <2> SUFFICES ASSUME t \notin At(req[r])
               PROVE  \A o \in Open(t)' : o \in Open(t) /\ orders'[o].session = orders[o].session
    OBVIOUS
  <2> DEFINE G == req[r].todo
  <2>1. orders' = [o \in DOMAIN orders |-> IF o \in G THEN f[o] ELSE orders[o]]
    BY <1>1
  <2>2. \A o \in G \cap DOMAIN orders : f[o].table # t \/ f[o].status # "open"
    BY <1>3, <1>4
  <2>3. \A o \in DOMAIN orders : f[o].session = orders[o].session
    BY <1>3
  <2> HIDE DEF G
  <2>4. DOMAIN orders' = DOMAIN orders
        /\ \A o \in DOMAIN orders : orders'[o] = IF o \in G THEN f[o] ELSE orders[o]
    BY <2>1
  <2>5. QED
    BY <2>2, <2>3, <2>4 DEF Open
<1>6. Between(r, t) => Agree(t)'
  BY <1>1 DEF Between, Agree
<1>7. ~Served(r, t)
  BY <1>1 DEF Served
<1>8. QED
  BY <1>1, <1>2, <1>5, <1>6, <1>7, HandlerKeeps

\* The other writers, and a lost command.
LEMMA TableOthers ==
    ASSUME TypeOK, HandlerOK, KeysOK, Placed, NEW t \in Tables, TableOK(t),
           \/ \E o \in DOMAIN orders : Cancel(o)
           \/ \E s \in Sessions : ExpireSession(s)
           \/ \E u \in Tables : ExpireTable(u)
    PROVE  TableOK(t)'
<1>1. ASSUME NEW o \in DOMAIN orders, Cancel(o)
      PROVE  TableOK(t)'
  <2>1. UNCHANGED <<session, active, req, excuses>>
        /\ orders' = [orders EXCEPT ![o].status = "cancelled"]
    BY <1>1 DEF Cancel
  <2>2. \A p \in Open(t)' : p \in Open(t) /\ orders'[p].session = orders[p].session
    <3>1. orders[o] \in Order /\ DOMAIN orders' = DOMAIN orders
      BY <2>1 DEF TypeOK
    <3>2. orders'[o].status = "cancelled"
      BY <2>1, <3>1 DEF Order
    <3>3. \A p \in DOMAIN orders \ {o} : orders'[p] = orders[p]
      BY <2>1
    <3>4. QED
      BY <3>1, <3>2, <3>3 DEF Open
  <2>3. Apart(t)
    BY <2>1, <2>2 DEF Apart
  <2>4. QED
    BY <2>3, ApartKeeps
<1>2. ASSUME NEW s \in Sessions, ExpireSession(s)
      PROVE  TableOK(t)'
  <2>1. /\ session[s] # NoTable /\ session' = [session EXCEPT ![s] = NoTable]
        /\ excuses' = Note(excuses, "expired", {session[s]}, TRUE)
        /\ UNCHANGED <<active, orders, req>>
    BY <1>2 DEF ExpireSession
  <2>3. /\ excuses[t] \subseteq excuses'[t]
        /\ t = session[s] => "expired" \in excuses'[t]
    BY <2>1, NoteGrows
  <2>4. CASE t = session[s]
    BY <2>3, <2>4 DEF TableOK, Clean, Upsets
  <2>5. CASE t # session[s]
    <3>1. \A u \in Sessions : session'[u] = t <=> session[u] = t
      BY <2>1, <2>5, SessionsAssumption DEF TypeOK
    <3>2. Open(t)' = Open(t)
      BY <2>1 DEF Open
    <3>3. Apart(t)
      BY <2>1, <2>3, <3>1, <3>2 DEF Apart
    <3>4. QED
      BY <3>3, ApartKeeps
  <2>6. QED
    BY <2>4, <2>5
<1>3. ASSUME NEW u \in Tables, ExpireTable(u)
      PROVE  TableOK(t)'
  <2>1. /\ active' = [active EXCEPT ![u] = NoSession]
        /\ excuses' = Note(excuses, "expired", {u}, TRUE)
        /\ UNCHANGED <<session, orders, req>>
    BY <1>3 DEF ExpireTable
  <2>2. /\ excuses[t] \subseteq excuses'[t]
        /\ t = u => "expired" \in excuses'[t]
    BY <2>1, NoteGrows
  <2>3. CASE t = u
    BY <2>2, <2>3 DEF TableOK, Clean, Upsets
  <2>4. CASE t # u
    <3>1. active'[t] = active[t]
      BY <2>1, <2>4 DEF TypeOK
    <3>2. Open(t)' = Open(t)
      BY <2>1 DEF Open
    <3>3. Apart(t)
      BY <2>1, <2>2, <3>1, <3>2 DEF Apart
    <3>4. QED
      BY <3>3, ApartKeeps
  <2>5. QED
    BY <2>3, <2>4
<1>4. QED
  BY <1>1, <1>2, <1>3

LEMMA TableLose ==
    ASSUME TypeOK, HandlerOK, KeysOK, Placed, NEW t \in Tables, TableOK(t),
           NEW r \in Requests, Lose(r)
    PROVE  TableOK(t)'
<1>1. /\ req[r].pc # "move" /\ UNCHANGED <<session, active, orders>>
      /\ excuses' = Note(excuses, "lost", {req[r].table}, TRUE)
      /\ End(r) \/ \E pc \in {"setTable", "insert", "delTable"} : Goto(r, pc)
  BY DEF Lose
<1>2. Moves(r) /\ At(req'[r]) \subseteq At(req[r])
  BY <1>1, EndAt, GotoAt
<1>3. /\ excuses[t] \subseteq excuses'[t]
      /\ t = req[r].table => "lost" \in excuses'[t]
  BY <1>1, NoteGrows
<1>4. CASE t = req[r].table
  BY <1>3, <1>4 DEF TableOK, Clean, Upsets
<1>5. CASE t # req[r].table
  <2>1. t \notin At(req[r])
    BY <1>1, <1>5, AtTable
  <2>2. \A q \in Requests : t \in At(req[q]) \cup At(req'[q]) => req'[q] = req[q]
    BY <1>2, <2>1 DEF Moves
  <2>3. Open(t)' = Open(t)
    BY <1>1 DEF Open
  <2>4. Apart(t)
    BY <1>1, <1>3, <2>2, <2>3 DEF Apart
  <2>5. QED
    BY <2>4, ApartKeeps
<1>6. QED
  BY <1>4, <1>5

LEMMA TableStep ==
    ASSUME TypeOK, HandlerOK, KeysOK, Placed, ElsewhereTold, NEW t \in Tables, TableOK(t), [Next]_vars
    PROVE  TableOK(t)'
<1>1. ASSUME NEW r \in Requests, NEW t0 \in Tables, NewRequest(r, t0)
      PROVE  TableOK(t)'
  BY <1>1, TableStart, TablePay, TableBill, TableMove DEF NewRequest
<1>2. ASSUME NEW r \in Requests, HandlerStep(r) \/ Lose(r)
      PROVE  TableOK(t)'
  BY <1>2, TableInsert, TableSetSession, TableSetTable, TableGet, TableDelSession,
     TableDelTable, TableMoved, TableLose DEF HandlerStep
<1>3. CASE UNCHANGED vars
  <2>1. UNCHANGED <<session, active, orders, req, excuses>>
    BY <1>3 DEF vars
  <2>2. Open(t)' = Open(t)
    BY <2>1 DEF Open
  <2>3. Apart(t)
    BY <2>1, <2>2 DEF Apart
  <2>4. QED
    BY <2>3, ApartKeeps
<1>4. QED
  BY <1>1, <1>2, <1>3, TableOthers DEF Next

-----------------------------------------------------------------------------
(* The theorem. *)

LEMMA InitKeys == Init => KeysInv
<1> SUFFICES ASSUME Init PROVE KeysInv
  OBVIOUS
<1>1. \A r \in Requests : req[r] = Idle
  BY DEF Init
<1>2. Placed
  BY <1>1, SessionsAssumption DEF Init, Placed, Idle
<1>3. ASSUME NEW t \in Tables PROVE TableOK(t)
  <2>1. \A r \in Requests : t \notin At(req[r])
    BY <1>1, SessionsAssumption DEF At, Idle
  <2>2. Agree(t)
    BY SessionsAssumption DEF Init, Agree
  <2>3. Covered(t)
    BY DEF Init, Covered, Open
  <2>4. QED
    BY <2>1, <2>2, <2>3 DEF TableOK
<1>4. QED
  BY <1>2, <1>3 DEF KeysInv

LEMMA KeysStep == SInv /\ KeysInv /\ [Next]_vars => KeysInv'
<1> SUFFICES ASSUME SInv, KeysInv, [Next]_vars PROVE KeysInv'
  OBVIOUS
<1>1. TypeOK /\ HandlerOK /\ KeysOK /\ Placed /\ ElsewhereTold
  BY DEF SInv, TInv, KeysInv
<1>2. Placed'
  BY <1>1, PlacedStep
<1>3. ASSUME NEW t \in Tables PROVE TableOK(t)'
  <2>1. TableOK(t)
    BY DEF KeysInv
  <2>2. QED
    BY <1>1, <2>1, TableStep
<1>4. QED
  BY <1>2, <1>3 DEF KeysInv

LEMMA KeysFollow == SInv /\ KeysInv => KeysHold
<1> SUFFICES ASSUME SInv, KeysInv PROVE KeysHold
  OBVIOUS
<1>1. \A t \in Tables : TableOK(t)
  BY DEF KeysInv
<1>2. KeysAgree
  BY <1>1 DEF KeysAgree, TableOK, Clean, Upsets, Agree
<1>3. ASSUME NEW t \in Tables, NEW o \in Open(t), Quiet(t), excuses[t] = {}
      PROVE  /\ session[orders[o].session] = t
             /\ \A s \in Sessions \cup {NoSession} : CanAccess(t, s) <=> s = orders[o].session
  <2>1. session[orders[o].session] = t /\ active[t] = orders[o].session
    BY <1>1, <1>3 DEF TableOK, Clean, Covered
  <2>2. orders[o].session \in Sessions
    <3>1. orders \in Seq(Order) /\ o \in DOMAIN orders
      BY DEF SInv, TInv, TypeOK, Open
    <3>2. orders[o] \in Order
      BY <3>1
    <3>3. QED
      BY <3>2 DEF Order
  <2>3. QED
    BY <2>1, <2>2, SessionsAssumption DEF CanAccess
<1>5. OpenOrderKeepsTable
  BY <1>3 DEF OpenOrderKeepsTable
<1>4. QED
  BY <1>2, <1>5 DEF KeysHold

\* The commands of any number of handlers may interleave: the two keys of a
\* table agree, and lead to its open orders, at every table where nobody is at
\* work and none of the named things has happened.
THEOREM SessionKeysHold == Spec => []KeysHold
<1>1. Init => SInv /\ KeysInv
  BY SInvHolds, InitKeys
<1>2. (SInv /\ KeysInv) /\ [Next]_vars => (SInv /\ KeysInv)'
  BY SInvHolds, KeysStep
<1>3. SInv /\ KeysInv => KeysHold
  BY KeysFollow
<1>4. QED
  BY <1>1, <1>2, <1>3, PTL DEF Spec

-----------------------------------------------------------------------------
(* The session of a paid order: the safety half of BillEndsSession.  A key    *)
(* may expire here, so only one direction of Agree is left: a session that    *)
(* is there is the one its table's key names.                                 *)

Leads(t) == \A s \in Sessions : session[s] = t => active[t] = s

\* The keys of table t while handler r is at work there.
Halfway(r, t) ==
    LET h == req[r] IN
    /\ h.pc \in {"setSession", "delSession"} =>
          Leads(t) /\ active[t] \in {NoSession, h.session}
    /\ h.pc = "setTable" => \A s \in Sessions : session[s] = t => s = h.session
    /\ h.pc = "delTable" => \A s \in Sessions : session[s] # t
    /\ h.pc \in {"insert", "get", "move"} => Leads(t)

Steady(t) == {"overlap", "overwritten", "lost"} \cap excuses[t] = {}

TableLeads(t) ==
    Steady(t) =>
        /\ \A q, r \in Requests : t \in At(req[q]) \cap At(req[r]) => q = r
        /\ Quiet(t) => Leads(t)
        /\ \A r \in Requests : t \in At(req[r]) => Halfway(r, t)

\* Handler h will set session s, or has set it and will order with it.
Sets(h, s)  == h.pc = "setSession" /\ h.session = s
Holds(h, s) == h.pc \in {"setSession", "setTable", "insert"} /\ h.session = s

\* A registration of a known id tells all its tables.
Unrepeated(s) == \E t \in issued[s] : {"reopened", "elsewhere"} \cap excuses[t] = {}

\* A session that was never registered again is set by one handler, before anybody
\* orders with it.
SetOnce(s) ==
    Unrepeated(s) =>
        \A r \in Requests : Sets(req[r], s) =>
            /\ session[s] = NoTable
            /\ \A o \in DOMAIN orders : orders[o].session # s
            /\ \A q \in Requests \ {r} : ~Holds(req[q], s)

\* An order that has left its table has marked the one it is at.
MovesTold ==
    /\ \A r \in Requests : req[r].pc = "move" => "moved" \in excuses[req[r].to]
    /\ \A o \in DOMAIN orders :
          orders[o].table # orders[o].first => "moved" \in excuses[orders[o].table]

\* Handler r will delete the session of order o.
Ends(r, o) ==
    \/ req[r].pc = "get" /\ req[r].table = orders[o].first
    \/ req[r].pc = "delSession" /\ req[r].session = orders[o].session

Pardoned(t) ==
    {"overlap", "overwritten", "lost", "moved", "reopened", "elsewhere"} \cap excuses[t] # {}

\* The session of an order has ended or is about to, or a table has an excuse.
Ending(o) ==
    \/ session[orders[o].session] = NoTable
    \/ Pardoned(orders[o].first) \/ Pardoned(orders[o].table)
    \/ \E r \in Requests : Ends(r, o)

\* A payment does not return before the clearing of the session is on its way.
PaidEnds == \A o \in DOMAIN orders : orders[o].status = "paid" => Ending(o)

\* Where a handler goes on its own, or when a command is lost.
LEMMA SlotSteps ==
    ASSUME TInv, NEW r \in Requests, HandlerStep(r) \/ Lose(r)
    PROVE  /\ Moves(r) /\ issued' = issued
           /\ req'[r].pc \in {"idle", "setTable", "insert", "delSession", "delTable"}
           /\ req'[r].pc \in {"setTable", "insert", "delTable"} =>
                 /\ req'[r].session = req[r].session /\ req'[r].table = req[r].table
           /\ req'[r].pc = "setTable" => req[r].pc = "setSession"
           /\ req'[r].pc = "insert" => req[r].pc = "setTable"
           /\ req'[r].pc = "delTable" => req[r].pc = "delSession"
           /\ req'[r].pc = "delSession" =>
                 /\ req[r].pc = "get" /\ req'[r].table = req[r].table
                 /\ req'[r].session = active[req[r].table]
<1>t. TypeOK /\ req \in [Requests -> Handler]
  BY DEF TInv, TypeOK
<1>1. issued' = issued
  BY DEF HandlerStep, InsertOrder, Reject, SetSession, SetTable, GetSession,
         DelSession, DelTable, MoveCommit, Lose
<1>2. CASE End(r)
  BY <1>t, <1>1, <1>2, EndAt DEF Idle
<1>3. ASSUME NEW pc \in {"setTable", "insert", "delTable"}, Goto(r, pc)
      PROVE  /\ Moves(r) /\ req'[r].pc = pc
             /\ req'[r].session = req[r].session /\ req'[r].table = req[r].table
  BY <1>t, <1>3, GotoType DEF Moves
<1>4. ASSUME GetSession(r), ~End(r)
      PROVE  /\ Moves(r) /\ req[r].pc = "get" /\ req'[r].pc = "delSession"
             /\ req'[r].table = req[r].table
             /\ req'[r].session = active[req[r].table]
  <2> DEFINE s == active[req[r].table]
             h == [req[r] EXCEPT !.pc = "delSession", !.session = s]
  <2>1. req[r].pc = "get" /\ req' = [req EXCEPT ![r] = h]
    BY <1>t, <1>4 DEF GetSession
  <2>2. h.pc = "delSession" /\ h.session = s /\ h.table = req[r].table
    BY <1>t DEF Handler
  <2> HIDE DEF h
  <2>3. req'[r] = h /\ Moves(r)
    BY <1>t, <2>1 DEF Moves
  <2>4. QED
    BY <2>1, <2>2, <2>3
<1>5. \/ End(r) \/ (GetSession(r) /\ ~End(r))
      \/ req[r].pc = "setSession" /\ Goto(r, "setTable")
      \/ req[r].pc = "setTable" /\ Goto(r, "insert")
      \/ req[r].pc = "delSession" /\ Goto(r, "delTable")
  BY DEF HandlerStep, InsertOrder, Reject, SetSession, SetTable, GetSession, DelSession,
         DelTable, MoveCommit, Lose
<1>6. QED
  BY <1>1, <1>2, <1>3, <1>4, <1>5

\* A step that gives session s to nobody new.
LEMMA SetOnceKeeps ==
    ASSUME NEW s \in Sessions, SetOnce(s), issued'[s] = issued[s],
           issued[s] \subseteq Tables, \A t \in Tables : excuses[t] \subseteq excuses'[t],
           \A q \in Requests : Sets(req'[q], s) => Sets(req[q], s),
           \A q \in Requests : Holds(req'[q], s) => Holds(req[q], s),
           session'[s] # NoTable =>
              \/ session[s] # NoTable
              \/ \E q \in Requests : Sets(req[q], s) /\ ~Sets(req'[q], s),
           \A o \in DOMAIN orders' : orders'[o].session = s =>
              \/ \E p \in DOMAIN orders : orders[p].session = s
              \/ \E q \in Requests : req[q].pc = "insert" /\ req[q].session = s
    PROVE  SetOnce(s)'
<1> SUFFICES ASSUME Unrepeated(s)',
                    NEW r \in Requests, Sets(req'[r], s)
             PROVE  /\ session'[s] = NoTable
                    /\ \A o \in DOMAIN orders' : orders'[o].session # s
                    /\ \A q \in Requests \ {r} : ~Holds(req'[q], s)
  BY DEF SetOnce
<1>1. Sets(req[r], s)
  OBVIOUS
<1>0. Unrepeated(s)
  BY DEF Unrepeated
<1>2. /\ session[s] = NoTable
      /\ \A o \in DOMAIN orders : orders[o].session # s
      /\ \A q \in Requests \ {r} : ~Holds(req[q], s)
  BY <1>0, <1>1 DEF SetOnce
<1>3. \A q \in Requests : Sets(req[q], s) => q = r
  BY <1>2 DEF Sets, Holds
<1>4. \A q \in Requests : ~(req[q].pc = "insert" /\ req[q].session = s)
  BY <1>1, <1>2 DEF Sets, Holds
<1>5. QED
  BY <1>2, <1>3, <1>4

\* A session that nobody has registered before is new to handlers, keys and orders.
LEMMA FreshIsNew ==
    ASSUME TInv, NEW s \in Sessions, Fresh(s)
    PROVE  /\ session[s] = NoTable
           /\ \A o \in DOMAIN orders : orders[o].session # s
           /\ \A q \in Requests : ~Holds(req[q], s)
<1>1. issued[s] = {}
  BY DEF Fresh
<1>2. session[s] = NoTable
  BY <1>1 DEF TInv, KeysOK
<1>3. \A o \in DOMAIN orders : orders[o] \in Order /\ orders[o].first \in issued[orders[o].session]
  BY DEF TInv, TypeOK, Placing
<1>4. \A o \in DOMAIN orders : orders[o].session # s
  BY <1>1, <1>3, SessionsAssumption DEF Order
<1>5. \A q \in Requests : ~Holds(req[q], s)
  BY <1>1, SessionsAssumption DEF TInv, HandlerOK, Holds
<1>6. QED
  BY <1>2, <1>4, <1>5

\* A new handler that is given no session, or one that is there.
LEMMA SetOnceBegin ==
    ASSUME TInv, NEW s \in Sessions, SetOnce(s), NEW r \in Requests, NEW h, Begin(r, h),
           h.pc \in {"insert", "get", "move"},
           h.pc = "insert" => session[h.session] # NoTable,
           UNCHANGED <<session, issued>>,
           \A t \in Tables : excuses[t] \subseteq excuses'[t],
           \A o \in DOMAIN orders' : o \in DOMAIN orders /\ orders'[o].session = orders[o].session
    PROVE  SetOnce(s)'
<1>1. req'[r] = h /\ \A q \in Requests \ {r} : req'[q] = req[q]
  BY DEF Begin, TInv, TypeOK
<1> SUFFICES ASSUME Unrepeated(s)',
                    NEW p \in Requests, Sets(req'[p], s)
             PROVE  /\ session'[s] = NoTable
                    /\ \A o \in DOMAIN orders' : orders'[o].session # s
                    /\ \A q \in Requests \ {p} : ~Holds(req'[q], s)
  BY DEF SetOnce
<1>2. p # r
  BY <1>1 DEF Sets
<1>3. req'[p] = req[p]
  BY <1>1, <1>2
<1>0. Unrepeated(s)
  BY DEF Unrepeated, TInv, TypeOK
<1>4. /\ session[s] = NoTable
      /\ \A o \in DOMAIN orders : orders[o].session # s
      /\ \A q \in Requests \ {p} : ~Holds(req[q], s)
  BY <1>0, <1>3 DEF SetOnce
<1>5. ~Holds(req'[r], s)
  BY <1>1, <1>4 DEF Holds
<1>6. QED
  BY <1>1, <1>4, <1>5

\* A new handler that is to set a session.
LEMMA SetOnceStarts ==
    ASSUME TInv, NEW s \in Sessions, SetOnce(s), NEW r \in Requests, NEW t \in Tables,
           NEW x \in Sessions, OrderWithoutSession(r, t, x) \/ Register(r, t, x),
           \A u \in Tables : excuses[u] \subseteq excuses'[u]
    PROVE  SetOnce(s)'
<1>1. PICK h : /\ Begin(r, h) /\ h.pc = "setSession" /\ h.session = x
  <2>1. CASE OrderWithoutSession(r, t, x)
    <3> DEFINE g == [Idle EXCEPT !.pc = "setSession", !.kind = "order", !.table = t,
                                 !.session = x]
    <3>1. Begin(r, g) /\ g.pc = "setSession" /\ g.session = x
      BY <2>1 DEF OrderWithoutSession, Idle
    <3> HIDE DEF g
    <3>2. QED
      BY <3>1
  <2>2. CASE Register(r, t, x)
    <3> DEFINE g == [Idle EXCEPT !.pc = "setSession", !.kind = "register", !.table = t,
                                 !.session = x]
    <3>1. Begin(r, g) /\ g.pc = "setSession" /\ g.session = x
      BY <2>2 DEF Register, Idle
    <3> HIDE DEF g
    <3>2. QED
      BY <3>1
  <2>3. QED
    BY <2>1, <2>2
<1>2. /\ UNCHANGED <<session, orders>> /\ issued' = [issued EXCEPT ![x] = @ \cup {t}]
      /\ issued \in [Sessions -> SUBSET Tables]
  BY DEF OrderWithoutSession, Register, Fresh, TInv, TypeOK
<1>3. ~Fresh(x) => ~Unrepeated(x)'
  <2>1. CASE OrderWithoutSession(r, t, x)
    BY <2>1 DEF OrderWithoutSession
  <2>2. CASE Register(r, t, x)
    <3>1. PICK e : excuses' = Note(e, Again(x, t), issued[x] \cup {t}, ~Fresh(x))
      BY <2>2 DEF Register
    <3>2. Again(x, t) \in {"reopened", "elsewhere"}
      BY DEF Again
    <3>3. issued'[x] = issued[x] \cup {t} /\ issued'[x] \subseteq Tables
      BY <1>2
    <3>4. ~Fresh(x) => \A u \in issued'[x] : Again(x, t) \in excuses'[u]
      BY <3>1, <3>3, NoteGrows
    <3>5. QED
      BY <3>2, <3>4 DEF Unrepeated
  <2>3. QED
    BY <2>1, <2>2
<1>4. req'[r] = h /\ \A q \in Requests \ {r} : req'[q] = req[q]
  BY <1>1 DEF Begin, TInv, TypeOK
<1> SUFFICES ASSUME Unrepeated(s)',
                    NEW p \in Requests, Sets(req'[p], s)
             PROVE  /\ session'[s] = NoTable
                    /\ \A o \in DOMAIN orders' : orders'[o].session # s
                    /\ \A q \in Requests \ {p} : ~Holds(req'[q], s)
  BY DEF SetOnce
<1>5. CASE s = x
  <2>1. Fresh(s)
    BY <1>2, <1>3, <1>5
  <2>2. /\ session[s] = NoTable
        /\ \A o \in DOMAIN orders : orders[o].session # s
        /\ \A q \in Requests : ~Holds(req[q], s)
    BY <2>1, FreshIsNew
  <2>3. p = r
    BY <1>4, <2>2 DEF Sets, Holds
  <2>4. QED
    BY <1>2, <1>4, <2>2, <2>3
<1>6. CASE s # x
  <2>1. ~Holds(req'[r], s)
    BY <1>1, <1>4, <1>6 DEF Holds
  <2>2. p # r /\ req'[p] = req[p]
    BY <1>4, <2>1 DEF Sets, Holds
  <2>3. Unrepeated(s)
    BY <1>2, <1>6 DEF Unrepeated
  <2>4. /\ session[s] = NoTable
        /\ \A o \in DOMAIN orders : orders[o].session # s
        /\ \A q \in Requests \ {p} : ~Holds(req[q], s)
    BY <2>2, <2>3 DEF SetOnce
  <2>5. QED
    BY <1>2, <1>4, <2>1, <2>4
<1>7. QED
  BY <1>5, <1>6

\* What a step makes of the orders: rows are added by an insert only, and keep
\* session and table of origin.
LEMMA OrdersStay ==
    ASSUME TInv, [Next]_vars
    PROVE  /\ \A o \in DOMAIN orders :
                 /\ o \in DOMAIN orders'
                 /\ orders'[o].session = orders[o].session
                 /\ orders'[o].first = orders[o].first
           /\ \A o \in DOMAIN orders' \ DOMAIN orders :
                 \E r \in Requests : InsertOrder(r) /\ orders'[o] = NewRow(req[r])
<1>t. orders \in Seq(Order) /\ \A o \in DOMAIN orders : orders[o] \in Order
  BY DEF TInv, TypeOK
<1>1. CASE orders' = orders
  BY <1>1
<1>2. ASSUME NEW f, NEW G, orders' = [o \in DOMAIN orders |-> IF o \in G THEN f[o] ELSE orders[o]],
             \A o \in DOMAIN orders : f[o].session = orders[o].session /\ f[o].first = orders[o].first
      PROVE  /\ DOMAIN orders' = DOMAIN orders
             /\ \A o \in DOMAIN orders : /\ orders'[o].session = orders[o].session
                                         /\ orders'[o].first = orders[o].first
  BY <1>2
<1>3. ASSUME NEW r \in Requests, NEW t \in Tables, NEW G \in SUBSET DOMAIN orders, Pay(r, t, G)
      PROVE  /\ DOMAIN orders' = DOMAIN orders
             /\ \A o \in DOMAIN orders : /\ orders'[o].session = orders[o].session
                                         /\ orders'[o].first = orders[o].first
  <2> DEFINE f == [o \in DOMAIN orders |-> [orders[o] EXCEPT !.status = "paid"]]
  <2>1. orders' = [o \in DOMAIN orders |-> IF o \in G THEN f[o] ELSE orders[o]]
    BY <1>3 DEF Pay
  <2>2. \A o \in DOMAIN orders : f[o].session = orders[o].session /\ f[o].first = orders[o].first
    BY <1>t DEF Order
  <2> HIDE DEF f
  <2>3. QED
    BY <1>2, <2>1, <2>2
<1>4. ASSUME NEW r \in Requests, MoveCommit(r)
      PROVE  /\ DOMAIN orders' = DOMAIN orders
             /\ \A o \in DOMAIN orders : /\ orders'[o].session = orders[o].session
                                         /\ orders'[o].first = orders[o].first
  <2> DEFINE f == [o \in DOMAIN orders |-> [orders[o] EXCEPT !.table = req[r].to]]
             G == req[r].todo
  <2>1. orders' = [o \in DOMAIN orders |-> IF o \in G THEN f[o] ELSE orders[o]]
    BY <1>4 DEF MoveCommit
  <2>2. \A o \in DOMAIN orders : f[o].session = orders[o].session /\ f[o].first = orders[o].first
    BY <1>t DEF Order
  <2> HIDE DEF f, G
  <2>3. QED
    BY <1>2, <2>1, <2>2
<1>5. ASSUME NEW p \in DOMAIN orders, Cancel(p)
      PROVE  /\ DOMAIN orders' = DOMAIN orders
             /\ \A o \in DOMAIN orders : /\ orders'[o].session = orders[o].session
                                         /\ orders'[o].first = orders[o].first
  <2> DEFINE f == [o \in DOMAIN orders |-> [orders[o] EXCEPT !.status = "cancelled"]]
  <2>1. orders' = [o \in DOMAIN orders |-> IF o \in {p} THEN f[o] ELSE orders[o]]
    BY <1>t, <1>5 DEF Cancel
  <2>2. \A o \in DOMAIN orders : f[o].session = orders[o].session /\ f[o].first = orders[o].first
    BY <1>t DEF Order
  <2> HIDE DEF f
  <2>3. QED
    BY <1>2, <2>1, <2>2
<1>6. ASSUME NEW r \in Requests, InsertOrder(r)
      PROVE  /\ \A o \in DOMAIN orders : o \in DOMAIN orders' /\ orders'[o] = orders[o]
             /\ \A o \in DOMAIN orders' \ DOMAIN orders : orders'[o] = NewRow(req[r])
  <2>1. PICK row : row = NewRow(req[r])
    OBVIOUS
  <2>2. orders' = Append(orders, row)
    BY <1>6, <2>1 DEF InsertOrder
  <2>3. QED
    BY <1>t, <2>1, <2>2
<1>7. ASSUME NEW r \in Requests, NEW t \in Tables, NewRequest(r, t)
      PROVE  \/ orders' = orders
             \/ \E G \in SUBSET DOMAIN orders : Pay(r, t, G)
  BY <1>7 DEF NewRequest, OrderWithSession, OrderWithoutSession, Register, RequestBill, MoveRead
<1>8. ASSUME NEW r \in Requests, HandlerStep(r) \/ Lose(r)
      PROVE  orders' = orders \/ MoveCommit(r) \/ InsertOrder(r)
  BY <1>8 DEF HandlerStep, Reject, SetSession, SetTable, GetSession, DelSession, DelTable, Lose
<1>9. \/ orders' = orders
      \/ \E r \in Requests : \/ MoveCommit(r) \/ InsertOrder(r)
                             \/ \E t \in Tables, G \in SUBSET DOMAIN orders : Pay(r, t, G)
      \/ \E p \in DOMAIN orders : Cancel(p)
  BY <1>7, <1>8 DEF Next, vars, ExpireSession, ExpireTable
<1>10. QED
  BY <1>1, <1>3, <1>4, <1>5, <1>6, <1>9

LEMMA SetOnceStep ==
    ASSUME TInv, NEW s \in Sessions, SetOnce(s), [Next]_vars
    PROVE  SetOnce(s)'
<1>t. TypeOK
  BY DEF TInv
<1>g. \A t \in Tables : excuses[t] \subseteq excuses'[t]
  BY <1>t, ExcusesGrow
<1>o. \A o \in DOMAIN orders' : \/ o \in DOMAIN orders /\ orders'[o].session = orders[o].session
                                \/ \E r \in Requests : InsertOrder(r) /\ orders'[o] = NewRow(req[r])
  BY OrdersStay
<1>p. \A o \in DOMAIN orders' : orders'[o].session = s =>
         \/ \E p \in DOMAIN orders : orders[p].session = s
         \/ \E q \in Requests : req[q].pc = "insert" /\ req[q].session = s
  <2> SUFFICES ASSUME NEW o \in DOMAIN orders', orders'[o].session = s
               PROVE  \/ \E p \in DOMAIN orders : orders[p].session = s
                      \/ \E q \in Requests : req[q].pc = "insert" /\ req[q].session = s
    OBVIOUS
  <2>1. CASE o \in DOMAIN orders /\ orders'[o].session = orders[o].session
    BY <2>1
  <2>2. ASSUME NEW r \in Requests, InsertOrder(r), orders'[o] = NewRow(req[r])
        PROVE  req[r].pc = "insert" /\ req[r].session = s
    <3>1. NewRow(req[r]).session = req[r].session
      BY DEF NewRow
    <3>2. QED
      BY <2>2, <3>1 DEF InsertOrder
  <2>3. QED
    BY <1>o, <2>1, <2>2
<1>1. ASSUME NEW r \in Requests, NEW t \in Tables, NewRequest(r, t)
      PROVE  SetOnce(s)'
  <2>1. CASE \E x \in Sessions : OrderWithSession(r, t, x)
    <3>1. PICK x \in Sessions : OrderWithSession(r, t, x)
      BY <2>1
    <3> DEFINE h == [Idle EXCEPT !.pc = "insert", !.kind = "order", !.table = t, !.session = x]
    <3>2. Begin(r, h) /\ h.pc = "insert" /\ h.session = x /\ UNCHANGED <<session, issued, orders>>
      BY <3>1 DEF OrderWithSession, Idle
    <3>3. session[x] # NoTable
      BY <3>1, SessionsAssumption DEF OrderWithSession, Validated
    <3> HIDE DEF h
    <3>4. QED
      BY <1>g, <3>2, <3>3, SetOnceBegin
  <2>2. CASE \E x \in Sessions : OrderWithoutSession(r, t, x) \/ Register(r, t, x)
    BY <1>g, <2>2, SetOnceStarts
  <2>3. CASE RequestBill(r, t) \/ \E G \in SUBSET DOMAIN orders : Pay(r, t, G)
    <3>1. Begin(r, Clear(t)) /\ Clear(t).pc = "get" /\ UNCHANGED <<session, issued>>
      BY <2>3 DEF RequestBill, Pay, Clear, Idle
    <3>2. \A r1 \in Requests : ~InsertOrder(r1)
      <4>1. req[r].pc = "idle" /\ Clear(t) # Idle
        BY <3>1 DEF Begin, Clear, Idle
      <4>2. req'[r] = Clear(t) /\ \A q \in Requests \ {r} : req'[q] = req[q]
        BY <1>t, <3>1 DEF Begin, TypeOK
      <4>3. QED
        BY <1>t, <4>1, <4>2, EndAt DEF InsertOrder, Idle, Moves
    <3>3. \A o \in DOMAIN orders' : o \in DOMAIN orders /\ orders'[o].session = orders[o].session
      BY <1>o, <3>2
    <3>4. QED
      BY <1>g, <3>1, <3>3, SetOnceBegin
  <2>4. CASE \E to \in Tables : MoveRead(r, t, to)
    <3>1. PICK to \in Tables : MoveRead(r, t, to)
      BY <2>4
    <3> DEFINE h == [Idle EXCEPT !.pc = "move", !.kind = "move", !.table = t,
                                 !.to = to, !.todo = Open(t)]
    <3>2. Begin(r, h) /\ h.pc = "move" /\ UNCHANGED <<session, issued, orders>>
      BY <3>1 DEF MoveRead, Idle
    <3> HIDE DEF h
    <3>3. QED
      BY <1>g, <3>2, SetOnceBegin
  <2>5. QED
    BY <1>1, <2>1, <2>2, <2>3, <2>4 DEF NewRequest
<1>2. ASSUME NEW r \in Requests, HandlerStep(r) \/ Lose(r)
      PROVE  SetOnce(s)'
  <2>1. /\ Moves(r) /\ issued' = issued
        /\ Holds(req'[r], s) => Holds(req[r], s)
        /\ ~Sets(req'[r], s)
    BY <1>2, SlotSteps DEF Holds, Sets
  <2>2. \A q \in Requests : /\ Sets(req'[q], s) => Sets(req[q], s)
                            /\ Holds(req'[q], s) => Holds(req[q], s)
    BY <2>1 DEF Moves
  <2>3. session'[s] # NoTable =>
           session[s] # NoTable \/ \E q \in Requests : Sets(req[q], s) /\ ~Sets(req'[q], s)
    <3>1. CASE SetSession(r)
      <4>1. CASE req[r].session = s
        BY <2>1, <3>1, <4>1 DEF SetSession, Sets
      <4>2. CASE req[r].session # s
        BY <1>t, <3>1, <4>2 DEF SetSession, TypeOK
      <4>3. QED
        BY <4>1, <4>2
    <3>2. CASE DelSession(r)
      BY <1>t, <3>2 DEF DelSession, Without, TypeOK
    <3>3. CASE session' = session
      BY <3>3
    <3>4. QED
      BY <1>2, <3>1, <3>2, <3>3 DEF HandlerStep, Lose, InsertOrder, Reject, SetTable,
                                    GetSession, DelTable, MoveCommit
  <2>4. QED
    BY <1>t, <1>g, <1>p, <2>1, <2>2, <2>3, SetOnceKeeps DEF TypeOK
<1>3. ASSUME UNCHANGED <<req, issued>>, session'[s] # NoTable => session[s] # NoTable
      PROVE  SetOnce(s)'
  BY <1>t, <1>g, <1>p, <1>3, SetOnceKeeps DEF TypeOK
<1>4. CASE \/ \E o \in DOMAIN orders : Cancel(o)
           \/ \E t \in Tables : ExpireTable(t)
           \/ UNCHANGED vars
  BY <1>3, <1>4 DEF Cancel, ExpireTable, vars
<1>5. ASSUME NEW x \in Sessions, ExpireSession(x)
      PROVE  SetOnce(s)'
  <2>1. session'[s] # NoTable => session[s] # NoTable
    BY <1>t, <1>5 DEF ExpireSession, TypeOK
  <2>2. QED
    BY <1>3, <1>5, <2>1 DEF ExpireSession
<1>6. QED
  BY <1>1, <1>2, <1>4, <1>5 DEF Next

\* What a step makes of the table and the payment of an order.
LEMMA OrdersMove ==
    ASSUME TInv, [Next]_vars
    PROVE  /\ \A o \in DOMAIN orders :
                 /\ \/ orders'[o].table = orders[o].table
                    \/ \E r \in Requests : req[r].pc = "move" /\ orders'[o].table = req[r].to
                 /\ orders'[o].status = "paid" =>
                       \/ orders[o].status = "paid"
                       \/ \E r \in Requests, t \in Tables, G \in SUBSET DOMAIN orders :
                             Pay(r, t, G) /\ o \in G
           /\ \A o \in DOMAIN orders' \ DOMAIN orders :
                 orders'[o].table = orders'[o].first /\ orders'[o].status = "open"
<1>t. orders \in Seq(Order) /\ \A o \in DOMAIN orders : orders[o] \in Order
  BY DEF TInv, TypeOK
<1>0. \A o \in DOMAIN orders' \ DOMAIN orders :
         orders'[o].table = orders'[o].first /\ orders'[o].status = "open"
  <2>1. ASSUME NEW h
        PROVE  NewRow(h).table = NewRow(h).first /\ NewRow(h).status = "open"
    BY DEF NewRow
  <2>2. QED
    BY <2>1, OrdersStay
<1> SUFFICES ASSUME NEW o \in DOMAIN orders
             PROVE  /\ \/ orders'[o].table = orders[o].table
                       \/ \E r \in Requests : req[r].pc = "move" /\ orders'[o].table = req[r].to
                    /\ orders'[o].status = "paid" =>
                          \/ orders[o].status = "paid"
                          \/ \E r \in Requests, t \in Tables, G \in SUBSET DOMAIN orders :
                                Pay(r, t, G) /\ o \in G
  BY <1>0
<1>1. CASE orders'[o] = orders[o]
  BY <1>1
<1>2. ASSUME NEW r \in Requests, NEW t \in Tables, NEW G \in SUBSET DOMAIN orders, Pay(r, t, G),
             o \in G
      PROVE  orders'[o].table = orders[o].table
  <2>1. orders'[o] = [orders[o] EXCEPT !.status = "paid"]
    BY <1>2 DEF Pay
  <2>2. QED
    BY <1>t, <2>1 DEF Order
<1>3. ASSUME NEW r \in Requests, MoveCommit(r), o \in req[r].todo
      PROVE  /\ req[r].pc = "move" /\ orders'[o].table = req[r].to
             /\ orders'[o].status = orders[o].status
  <2>1. req[r].pc = "move" /\ orders'[o] = [orders[o] EXCEPT !.table = req[r].to]
    BY <1>3 DEF MoveCommit
  <2>2. QED
    BY <1>t, <2>1 DEF Order
<1>4. ASSUME NEW p \in DOMAIN orders, Cancel(p), o = p
      PROVE  orders'[o].table = orders[o].table /\ orders'[o].status = "cancelled"
  <2>1. orders'[o] = [orders[o] EXCEPT !.status = "cancelled"]
    BY <1>4 DEF Cancel
  <2>2. QED
    BY <1>t, <2>1 DEF Order
<1>5. ASSUME NEW r \in Requests, InsertOrder(r)
      PROVE  orders'[o] = orders[o]
  <2>1. PICK row : row = NewRow(req[r])
    OBVIOUS
  <2>2. orders' = Append(orders, row)
    BY <1>5, <2>1 DEF InsertOrder
  <2>3. QED
    BY <1>t, <2>2
<1>6. ASSUME NEW r \in Requests, NEW t \in Tables, NewRequest(r, t)
      PROVE  \/ orders'[o] = orders[o]
             \/ \E G \in SUBSET DOMAIN orders : Pay(r, t, G) /\ o \in G
  <2>1. ASSUME NEW G \in SUBSET DOMAIN orders, Pay(r, t, G), o \notin G
        PROVE  orders'[o] = orders[o]
    BY <2>1 DEF Pay
  <2>2. orders' = orders \/ \E G \in SUBSET DOMAIN orders : Pay(r, t, G)
    BY <1>6 DEF NewRequest, OrderWithSession, OrderWithoutSession, Register, RequestBill, MoveRead
  <2>3. QED
    BY <2>1, <2>2
<1>7. ASSUME NEW r \in Requests, HandlerStep(r) \/ Lose(r)
      PROVE  orders'[o] = orders[o] \/ (MoveCommit(r) /\ o \in req[r].todo)
  <2>1. ASSUME MoveCommit(r), o \notin req[r].todo
        PROVE  orders'[o] = orders[o]
    BY <2>1 DEF MoveCommit
  <2>2. orders' = orders \/ MoveCommit(r) \/ InsertOrder(r)
    BY <1>7 DEF HandlerStep, Reject, SetSession, SetTable, GetSession, DelSession, DelTable, Lose
  <2>3. QED
    BY <1>5, <2>1, <2>2
<1>8. ASSUME NEW p \in DOMAIN orders, Cancel(p), o # p
      PROVE  orders'[o] = orders[o]
  BY <1>8 DEF Cancel
<1>9. \/ orders'[o] = orders[o]
      \/ \E r \in Requests : MoveCommit(r) /\ o \in req[r].todo
      \/ \E r \in Requests, t \in Tables, G \in SUBSET DOMAIN orders : Pay(r, t, G) /\ o \in G
      \/ \E p \in DOMAIN orders : Cancel(p) /\ o = p
  BY <1>6, <1>7, <1>8 DEF Next, vars, ExpireSession, ExpireTable
<1>10. QED
  BY <1>1, <1>2, <1>3, <1>4, <1>9

\* The slot of a handler that starts.
LEMMA BeginSlot ==
    ASSUME TypeOK, NEW r \in Requests, NEW h, Begin(r, h)
    PROVE  req[r].pc = "idle" /\ req'[r] = h /\ Moves(r)
  BY DEF Begin, Moves, TypeOK

\* A request that starts with anything but a move of orders.
LEMMA OthersBegin ==
    ASSUME NEW r \in Requests, NEW t \in Tables, NewRequest(r, t)
    PROVE  \/ \E h : Begin(r, h) /\ h.pc # "move"
           \/ \E to \in Tables : MoveRead(r, t, to)
<1>1. ASSUME NEW s \in Sessions, OrderWithSession(r, t, s)
      PROVE  \E h : Begin(r, h) /\ h.pc # "move"
  <2> DEFINE h == [Idle EXCEPT !.pc = "insert", !.kind = "order", !.table = t,
                               !.session = s]
  <2>1. Begin(r, h) /\ h.pc # "move"
    BY <1>1 DEF OrderWithSession, Idle
  <2> HIDE DEF h
  <2>2. QED
    BY <2>1
<1>2. ASSUME NEW s \in Sessions, OrderWithoutSession(r, t, s)
      PROVE  \E h : Begin(r, h) /\ h.pc # "move"
  <2> DEFINE h == [Idle EXCEPT !.pc = "setSession", !.kind = "order", !.table = t,
                               !.session = s]
  <2>1. Begin(r, h) /\ h.pc # "move"
    BY <1>2 DEF OrderWithoutSession, Idle
  <2> HIDE DEF h
  <2>2. QED
    BY <2>1
<1>3. ASSUME NEW s \in Sessions, Register(r, t, s)
      PROVE  \E h : Begin(r, h) /\ h.pc # "move"
  <2> DEFINE h == [Idle EXCEPT !.pc = "setSession", !.kind = "register", !.table = t,
                               !.session = s]
  <2>1. Begin(r, h) /\ h.pc # "move"
    BY <1>3 DEF Register, Idle
  <2> HIDE DEF h
  <2>2. QED
    BY <2>1
<1>4. CASE RequestBill(r, t) \/ \E G \in SUBSET DOMAIN orders : Pay(r, t, G)
  <2>1. Begin(r, Clear(t)) /\ Clear(t).pc # "move"
    BY <1>4 DEF RequestBill, Pay, Clear, Idle
  <2>2. QED
    BY <2>1
<1>5. QED
  BY <1>1, <1>2, <1>3, <1>4 DEF NewRequest

LEMMA MovesToldStep ==
    ASSUME TInv, MovesTold, [Next]_vars
    PROVE  MovesTold'
<1>t. TypeOK /\ HandlerOK
  BY DEF TInv
<1>g. \A t \in Tables : excuses[t] \subseteq excuses'[t]
  BY <1>t, ExcusesGrow
<1>m. \A r \in Requests : req[r].pc = "move" =>
         req[r].to \in Tables /\ "moved" \in excuses'[req[r].to]
  BY <1>t, <1>g DEF MovesTold, HandlerOK
<1>1. ASSUME NEW q \in Requests, req'[q].pc = "move"
      PROVE  "moved" \in excuses'[req'[q].to]
  <2>1. CASE req'[q] = req[q]
    BY <1>1, <1>m, <2>1
  <2>2. ASSUME NEW r \in Requests, HandlerStep(r) \/ Lose(r)
        PROVE  req'[q] = req[q]
    BY <1>1, <2>2, SlotSteps DEF Moves
  <2>3. ASSUME NEW r \in Requests, NEW h, Begin(r, h), h.pc # "move"
        PROVE  req'[q] = req[q]
    BY <1>t, <1>1, <2>3, BeginSlot DEF Moves
  <2>4. ASSUME NEW r \in Requests, NEW t \in Tables, NEW to \in Tables, MoveRead(r, t, to)
        PROVE  \/ req'[q] = req[q]
               \/ req'[q].to = to /\ "moved" \in excuses'[to]
    <3> DEFINE h == [Idle EXCEPT !.pc = "move", !.kind = "move", !.table = t,
                                 !.to = to, !.todo = Open(t)]
    <3>1. Begin(r, h) /\ excuses' = Note(Overlap(h), "moved", At(h), TRUE)
      BY <2>4 DEF MoveRead
    <3>2. h.to = to
      BY DEF Idle
    <3> HIDE DEF h
    <3>3. to \in At(h)
      BY <3>2 DEF At
    <3>4. "moved" \in excuses'[to]
      BY <3>1, <3>3, NoteGrows
    <3>5. req'[r] = h /\ Moves(r)
      BY <1>t, <3>1, BeginSlot
    <3>6. QED
      BY <3>2, <3>4, <3>5 DEF Moves
  <2>5. CASE \E r \in Requests, t \in Tables : NewRequest(r, t)
    BY <2>1, <2>3, <2>4, <2>5, OthersBegin
  <2>6. CASE UNCHANGED req
    BY <2>1, <2>6
  <2>7. QED
    BY <2>1, <2>2, <2>5, <2>6 DEF Next, vars, Cancel, ExpireSession, ExpireTable
<1>2. ASSUME NEW o \in DOMAIN orders', orders'[o].table # orders'[o].first
      PROVE  "moved" \in excuses'[orders'[o].table]
  <2>1. o \in DOMAIN orders
    BY <1>2, OrdersMove
  <2>2. CASE orders'[o].table = orders[o].table
    <3>1. orders[o].table # orders[o].first
      BY <1>2, <2>1, <2>2, OrdersStay
    <3>2. orders[o].table \in Tables
      <4>1. orders[o] \in Order
        BY <1>t, <2>1 DEF TypeOK
      <4>2. QED
        BY <4>1 DEF Order
    <3>3. QED
      BY <1>g, <2>1, <2>2, <3>1, <3>2 DEF MovesTold
  <2>3. CASE \E r \in Requests : req[r].pc = "move" /\ orders'[o].table = req[r].to
    BY <1>m, <2>3
  <2>4. QED
    BY <2>1, <2>2, <2>3, OrdersMove
<1>3. QED
  BY <1>1, <1>2 DEF MovesTold

\* A step elsewhere: table t gets no session, and loses no more than a stale key.
Aside(t) ==
    /\ excuses[t] \subseteq excuses'[t]
    /\ \A r \in Requests : t \in At(req[r]) \cup At(req'[r]) => req'[r] = req[r]
    /\ \A s \in Sessions : session'[s] = t => session[s] = t
    /\ \/ active'[t] = active[t]
       \/ /\ active'[t] = NoSession /\ active[t] \in Sessions
          /\ session[active[t]] = NoTable

LEMMA AsideKeeps ==
    ASSUME NEW t \in Tables, TableLeads(t), Aside(t)
    PROVE  TableLeads(t)'
<1>1. Steady(t)' => Steady(t)
  BY DEF Steady, Aside
<1>2. /\ \A r \in Requests : t \in At(req[r])' <=> t \in At(req[r])
      /\ Quiet(t)' <=> Quiet(t)
  BY DEF Aside, Quiet, At
<1>3. Leads(t) => Leads(t)'
  BY SessionsAssumption DEF Aside, Leads
<1>4. ASSUME NEW r \in Requests, t \in At(req[r]), Halfway(r, t)
      PROVE  Halfway(r, t)'
  <2>1. req'[r] = req[r]
    BY <1>4 DEF Aside
  <2>2. QED
    BY <1>3, <1>4, <2>1 DEF Aside, Halfway
<1>5. QED
  BY <1>1, <1>2, <1>3, <1>4 DEF TableLeads

\* A step of the one handler that is at table t, before it or after it.
LEMMA LeadAlone ==
    ASSUME NEW r \in Requests, NEW t \in Tables,
           Steady(t)' =>
              /\ \A q \in Requests \ {r} : req'[q] = req[q] /\ t \notin At(req[q])
              /\ t \in At(req[r])' => Halfway(r, t)'
              /\ t \notin At(req[r])' => Leads(t)'
    PROVE  TableLeads(t)'
<1> SUFFICES ASSUME Steady(t)' PROVE TableLeads(t)'
  BY DEF TableLeads
<1>1. \A q \in Requests \ {r} : t \notin At(req[q])'
  BY DEF At
<1>2. \A p, q \in Requests : t \in At(req[p])' \cap At(req[q])' => p = q
  BY <1>1
<1>3. Quiet(t)' => Leads(t)'
  BY DEF Quiet
<1>4. \A q \in Requests : t \in At(req[q])' => Halfway(q, t)'
  BY <1>1
<1>5. QED
  BY <1>2, <1>3, <1>4 DEF TableLeads

\* A handler that goes on or ends.
LEMMA LeadKeeps ==
    ASSUME NEW t \in Tables, TableLeads(t), NEW r \in Requests,
           Moves(r), excuses' = excuses, At(req'[r]) \subseteq At(req[r]),
           t \notin At(req[r]) =>
              /\ \A s \in Sessions : session'[s] = t => session[s] = t
              /\ active'[t] = active[t],
           (t \in At(req[r]) /\ Halfway(r, t)) =>
              /\ t \in At(req'[r]) => Halfway(r, t)'
              /\ t \notin At(req'[r]) => Leads(t)'
    PROVE  TableLeads(t)'
<1>1. CASE t \notin At(req[r])
  <2>1. \A q \in Requests : t \in At(req[q]) \cup At(req'[q]) => req'[q] = req[q]
    BY <1>1 DEF Moves
  <2>2. Aside(t)
    BY <1>1, <2>1 DEF Aside
  <2>3. QED
    BY <2>2, AsideKeeps
<1>2. CASE t \in At(req[r])
  <2> SUFFICES ASSUME Steady(t)'
               PROVE  /\ \A q \in Requests \ {r} : req'[q] = req[q] /\ t \notin At(req[q])
                      /\ t \in At(req[r])' => Halfway(r, t)'
                      /\ t \notin At(req[r])' => Leads(t)'
    BY LeadAlone
  <2>1. Steady(t)
    BY DEF Steady
  <2>2. /\ \A q \in Requests \ {r} : t \notin At(req[q])
        /\ Halfway(r, t)
    BY <1>2, <2>1 DEF TableLeads
  <2>3. \A q \in Requests \ {r} : req'[q] = req[q] /\ t \notin At(req[q])
    BY <2>2 DEF Moves
  <2>4. At(req[r])' = At(req'[r])
    BY DEF At
  <2>5. QED
    BY <1>2, <2>2, <2>3, <2>4
<1>3. QED
  BY <1>1, <1>2

\* A handler that starts, and will set a session only over none or itself.
LEMMA LeadStarts ==
    ASSUME TypeOK, Placed, NEW t \in Tables, TableLeads(t), NEW r \in Requests,
           NEW h, Begin(r, h), UNCHANGED <<session, active>>,
           Overlap(h)[t] \subseteq excuses'[t],
           h.pc \in {"setSession", "insert", "get", "move"},
           (t \in At(h) /\ Steady(t)' /\ h.pc = "setSession")
              => active[t] \in {NoSession, h.session}
    PROVE  TableLeads(t)'
<1>1. req'[r] = h /\ Moves(r)
  BY BeginSlot
<1>2. excuses[t] \subseteq excuses'[t]
  BY OverlapTells
<1>3. CASE t \notin At(h)
  <2>1. \A q \in Requests : t \in At(req[q]) \cup At(req'[q]) => req'[q] = req[q]
    BY <1>3, StartApart
  <2>2. Aside(t)
    BY <1>2, <2>1 DEF Aside
  <2>3. QED
    BY <2>2, AsideKeeps
<1>4. CASE t \in At(h)
  <2> SUFFICES ASSUME Steady(t)'
               PROVE  /\ \A q \in Requests \ {r} : req'[q] = req[q] /\ t \notin At(req[q])
                      /\ t \in At(req[r])' /\ Halfway(r, t)'
    BY LeadAlone
  <2>1. Steady(t)
    BY <1>2 DEF Steady
  <2>2. Quiet(t)
    BY <1>4, OverlapTells DEF Steady
  <2>3. Leads(t)
    BY <2>1, <2>2 DEF TableLeads
  <2>4. \A q \in Requests \ {r} : req'[q] = req[q] /\ t \notin At(req[q])
    BY <1>1, <2>2 DEF Moves, Quiet
  <2>5. t \in At(req[r])'
    BY <1>1, <1>4 DEF At
  <2>6. Leads(t)'
    BY <2>3 DEF Leads
  <2>7. Halfway(r, t)'
    BY <1>1, <1>4, <2>6 DEF Halfway
  <2>8. QED
    BY <2>4, <2>5, <2>7
<1>5. QED
  BY <1>3, <1>4

LEMMA LeadRequest ==
    ASSUME TypeOK, Placed, NEW t \in Tables, TableLeads(t), NEW r \in Requests,
           NEW t0 \in Tables, NewRequest(r, t0)
    PROVE  TableLeads(t)'
<1>1. ASSUME NEW s \in Sessions, OrderWithSession(r, t0, s)
      PROVE  TableLeads(t)'
  <2> DEFINE h == [Idle EXCEPT !.pc = "insert", !.kind = "order", !.table = t0,
                               !.session = s]
  <2>1. Begin(r, h) /\ h.pc = "insert" /\ excuses' = Overlap(h)
        /\ UNCHANGED <<session, active>>
    BY <1>1 DEF OrderWithSession, Idle
  <2> HIDE DEF h
  <2>2. QED
    BY <2>1, LeadStarts
<1>2. ASSUME NEW s \in Sessions, OrderWithoutSession(r, t0, s)
      PROVE  TableLeads(t)'
  <2> DEFINE h == [Idle EXCEPT !.pc = "setSession", !.kind = "order", !.table = t0,
                               !.session = s]
  <2>1. Begin(r, h) /\ h.pc = "setSession" /\ excuses' = Overlap(h)
        /\ UNCHANGED <<session, active>> /\ active[t0] = NoSession
    BY <1>2 DEF OrderWithoutSession, Idle, TableFree
  <2>2. h.table = t0 /\ h.to = NoTable
    BY DEF Idle
  <2> HIDE DEF h
  <2>3. t \in At(h) <=> t = t0
    BY <2>2, AtOne
  <2>4. QED
    BY <2>1, <2>3, LeadStarts
<1>3. ASSUME NEW s \in Sessions, Register(r, t0, s)
      PROVE  TableLeads(t)'
  <2> DEFINE h == [Idle EXCEPT !.pc = "setSession", !.kind = "register", !.table = t0,
                               !.session = s]
             e == Note(Overlap(h), "overwritten", {t0}, active[t0] \notin {NoSession, s})
  <2>1. Begin(r, h) /\ h.pc = "setSession" /\ UNCHANGED <<session, active>>
        /\ excuses' = Note(e, Again(s, t0), issued[s] \cup {t0}, ~Fresh(s))
    BY <1>3 DEF Register, Idle
  <2>2. h.table = t0 /\ h.to = NoTable /\ h.session = s
    BY DEF Idle
  <2>3. /\ Overlap(h)[t] \subseteq e[t]
        /\ t = t0 /\ active[t0] \notin {NoSession, s} => "overwritten" \in e[t]
    BY NoteGrows
  <2> HIDE DEF h, e
  <2>4. e[t] \subseteq excuses'[t]
    BY <2>1, NoteGrows
  <2>5. t \in At(h) <=> t = t0
    BY <2>2, AtOne
  <2>6. t \in At(h) /\ Steady(t)' => active[t] \in {NoSession, h.session}
    BY <2>2, <2>3, <2>4, <2>5 DEF Steady
  <2>7. Overlap(h)[t] \subseteq excuses'[t]
    BY <2>3, <2>4
  <2>8. QED
    BY <2>1, <2>6, <2>7, LeadStarts
<1>4. ASSUME NEW G \in SUBSET DOMAIN orders, Pay(r, t0, G)
      PROVE  TableLeads(t)'
  <2>1. PICK h : h = Clear(t0)
    OBVIOUS
  <2>2. /\ Begin(r, h) /\ h.pc = "get" /\ UNCHANGED <<session, active>>
        /\ excuses' = Note(Overlap(h), "partly paid", {t0}, G # Open(t0))
    BY <1>4, <2>1 DEF Pay, Clear, Idle
  <2>3. Overlap(h)[t] \subseteq excuses'[t]
    BY <2>2, NoteGrows
  <2>4. QED
    BY <2>2, <2>3, LeadStarts
<1>5. ASSUME RequestBill(r, t0)
      PROVE  TableLeads(t)'
  <2>1. PICK h : h = Clear(t0)
    OBVIOUS
  <2>2. /\ Begin(r, h) /\ h.pc = "get" /\ UNCHANGED <<session, active>>
        /\ excuses' = Note(Overlap(h), "bill", {t0}, TRUE)
    BY <1>5, <2>1 DEF RequestBill, Clear, Idle
  <2>3. Overlap(h)[t] \subseteq excuses'[t]
    BY <2>2, NoteGrows
  <2>4. QED
    BY <2>2, <2>3, LeadStarts
<1>6. ASSUME NEW to \in Tables, MoveRead(r, t0, to)
      PROVE  TableLeads(t)'
  <2> DEFINE h == [Idle EXCEPT !.pc = "move", !.kind = "move", !.table = t0,
                               !.to = to, !.todo = Open(t0)]
  <2>1. Begin(r, h) /\ h.pc = "move" /\ UNCHANGED <<session, active>>
        /\ excuses' = Note(Overlap(h), "moved", At(h), TRUE)
    BY <1>6 DEF MoveRead, Idle
  <2> HIDE DEF h
  <2>2. Overlap(h)[t] \subseteq excuses'[t]
    BY <2>1, NoteGrows
  <2>3. QED
    BY <2>1, <2>2, LeadStarts
<1>7. QED
  BY <1>1, <1>2, <1>3, <1>4, <1>5, <1>6 DEF NewRequest

LEMMA LeadSetSession ==
    ASSUME TypeOK, HandlerOK, Placed, NEW t \in Tables, TableLeads(t),
           NEW r \in Requests, SetSession(r)
    PROVE  TableLeads(t)'
<1>1. PICK s \in Sessions, t0 \in Tables :
         /\ req[r].pc = "setSession" /\ Goto(r, "setTable")
         /\ s = req[r].session /\ t0 = req[r].table
         /\ session' = [session EXCEPT ![s] = t0]
         /\ UNCHANGED <<active, excuses>>
  BY DEF SetSession, HandlerOK
<1>2. t \in At(req[r]) <=> t = t0
  BY <1>1, AtTable
<1>3. /\ Moves(r) /\ At(req'[r]) = At(req[r])
      /\ req'[r].pc = "setTable" /\ req'[r].session = s
  BY <1>1, GotoAt
<1>4. session'[s] = t0 /\ \A u \in Sessions \ {s} : session'[u] = session[u]
  BY <1>1 DEF TypeOK
<1>5. t # t0 => \A u \in Sessions : session'[u] = t => session[u] = t
  BY <1>4
<1>6. ASSUME t = t0, Halfway(r, t)
      PROVE  Halfway(r, t)'
  <2>1. Leads(t) /\ active[t] \in {NoSession, s}
    BY <1>1, <1>6 DEF Halfway
  <2>2. \A u \in Sessions : session'[u] = t => u = s
    BY <1>4, <2>1, SessionsAssumption DEF Leads
  <2>3. QED
    BY <1>3, <2>2 DEF Halfway
<1>7. QED
  BY <1>1, <1>2, <1>3, <1>5, <1>6, LeadKeeps

LEMMA LeadSetTable ==
    ASSUME TypeOK, HandlerOK, Placed, NEW t \in Tables, TableLeads(t),
           NEW r \in Requests, SetTable(r)
    PROVE  TableLeads(t)'
<1>1. PICK s \in Sessions, t0 \in Tables :
         /\ req[r].pc = "setTable" /\ (Goto(r, "insert") \/ End(r))
         /\ s = req[r].session /\ t0 = req[r].table
         /\ active' = [active EXCEPT ![t0] = s]
         /\ UNCHANGED <<session, excuses>>
  BY DEF SetTable, TableValue, HandlerOK
<1>2. t \in At(req[r]) <=> t = t0
  BY <1>1, AtTable
<1>3. active'[t0] = s /\ (t # t0 => active'[t] = active[t])
  BY <1>1 DEF TypeOK
<1>4. t = t0 /\ Halfway(r, t) => Leads(t)'
  BY <1>1, <1>3 DEF Halfway, Leads
<1>5. CASE End(r)
  <2>1. Moves(r) /\ At(req'[r]) = {}
    BY <1>5, EndAt
  <2>2. QED
    BY <1>1, <1>2, <1>3, <1>4, <2>1, LeadKeeps
<1>6. CASE Goto(r, "insert")
  <2>1. Moves(r) /\ At(req'[r]) = At(req[r]) /\ req'[r].pc = "insert"
    BY <1>6, GotoAt
  <2>2. t = t0 /\ Halfway(r, t) => Halfway(r, t)'
    BY <1>4, <2>1 DEF Halfway
  <2>3. QED
    BY <1>1, <1>2, <1>3, <2>1, <2>2, LeadKeeps
<1>7. QED
  BY <1>1, <1>5, <1>6

LEMMA LeadGet ==
    ASSUME TInv, Placed, NEW t \in Tables, TableLeads(t), NEW r \in Requests, GetSession(r)
    PROVE  TableLeads(t)'
<1>t. TypeOK /\ HandlerOK
  BY DEF TInv
<1>1. /\ req[r].pc = "get" /\ UNCHANGED <<session, active, excuses>>
      /\ \A u \in Tables : u \in At(req[r]) <=> u = req[r].table
  BY AtTable DEF GetSession
<1>2. /\ Moves(r) /\ At(req'[r]) \subseteq At(req[r])
      /\ req'[r].pc \in {"idle", "delSession"}
      /\ req'[r].pc = "delSession" => req'[r].session = active[req[r].table]
  <2>1. CASE End(r)
    BY <1>t, <2>1, EndAt DEF Idle
  <2>2. CASE ~End(r)
    <3> DEFINE s == active[req[r].table]
               h == [req[r] EXCEPT !.pc = "delSession", !.session = s]
    <3>1. req \in [Requests -> Handler] /\ req[r] \in Handler
      BY <1>t DEF TypeOK
    <3>2. req' = [req EXCEPT ![r] = h]
      BY <2>2, <3>1 DEF GetSession
    <3>3. /\ h.pc = "delSession" /\ h.session = s
          /\ h.table = req[r].table /\ h.to = req[r].to
      BY <3>1 DEF Handler
    <3> HIDE DEF h
    <3>4. req'[r] = h /\ Moves(r)
      BY <3>1, <3>2 DEF Moves
    <3>5. At(h) = At(req[r])
      BY <3>3 DEF At
    <3>6. QED
      BY <3>3, <3>4, <3>5
  <2>3. QED
    BY <2>1, <2>2
<1>3. ASSUME t \in At(req[r]), Halfway(r, t)
      PROVE  Leads(t)' /\ (t \in At(req'[r]) => Halfway(r, t)')
  <2>1. Leads(t) /\ t = req[r].table
    BY <1>1, <1>3 DEF Halfway
  <2>2. Leads(t)' /\ active'[t] = active[t]
    BY <1>1, <2>1 DEF Leads
  <2>3. QED
    BY <1>2, <2>1, <2>2 DEF Halfway
<1>4. \A s \in Sessions : session'[s] = t => session[s] = t
  BY <1>1
<1>5. QED
  BY <1>1, <1>2, <1>3, <1>4, LeadKeeps

LEMMA LeadDelSession ==
    ASSUME TypeOK, HandlerOK, Placed, NEW t \in Tables, TableLeads(t),
           NEW r \in Requests, DelSession(r)
    PROVE  TableLeads(t)'
<1>1. PICK s \in Sessions :
         /\ req[r].pc = "delSession" /\ Goto(r, "delTable")
         /\ s = req[r].session
         /\ session' = [session EXCEPT ![s] = NoTable]
         /\ UNCHANGED <<active, excuses>>
  BY DEF DelSession, Without, Placed
<1>2. /\ Moves(r) /\ At(req'[r]) = At(req[r]) /\ req'[r].pc = "delTable"
  BY <1>1, GotoAt
<1>3. session'[s] = NoTable /\ \A u \in Sessions \ {s} : session'[u] = session[u]
  BY <1>1 DEF TypeOK
<1>4. \A u \in Sessions : session'[u] = t => session[u] = t /\ u # s
  BY <1>3, SessionsAssumption
<1>5. ASSUME Halfway(r, t)
      PROVE  Halfway(r, t)'
  <2>1. Leads(t) /\ active[t] \in {NoSession, s}
    BY <1>1, <1>5 DEF Halfway
  <2>2. \A u \in Sessions : session'[u] # t
    BY <1>4, <2>1, SessionsAssumption DEF Leads
  <2>3. QED
    BY <1>2, <2>2 DEF Halfway
<1>6. QED
  BY <1>1, <1>2, <1>4, <1>5, LeadKeeps

LEMMA LeadDelTable ==
    ASSUME TypeOK, HandlerOK, Placed, NEW t \in Tables, TableLeads(t),
           NEW r \in Requests, DelTable(r)
    PROVE  TableLeads(t)'
<1>1. PICK t0 \in Tables :
         /\ req[r].pc = "delTable" /\ End(r) /\ t0 = req[r].table
         /\ active' = [active EXCEPT ![t0] = NoSession]
         /\ UNCHANGED <<session, excuses>>
  BY DEF DelTable, HandlerOK
<1>2. t \in At(req[r]) <=> t = t0
  BY <1>1, AtTable
<1>3. t # t0 => active'[t] = active[t]
  BY <1>1 DEF TypeOK
<1>4. Moves(r) /\ At(req'[r]) = {}
  BY <1>1, EndAt
<1>5. Halfway(r, t) => Leads(t)'
  BY <1>1 DEF Halfway, Leads
<1>6. QED
  BY <1>1, <1>2, <1>3, <1>4, <1>5, LeadKeeps

LEMMA LeadEnds ==
    ASSUME TypeOK, NEW t \in Tables, TableLeads(t),
           NEW r \in Requests, InsertOrder(r) \/ Reject(r) \/ MoveCommit(r)
    PROVE  TableLeads(t)'
<1>1. /\ req[r].pc \in {"insert", "move"} /\ End(r)
      /\ UNCHANGED <<session, active, excuses>>
  BY DEF InsertOrder, Reject, MoveCommit
<1>2. Moves(r) /\ At(req'[r]) = {}
  BY <1>1, EndAt
<1>3. Halfway(r, t) => Leads(t)'
  BY <1>1 DEF Halfway, Leads
<1>4. QED
  BY <1>1, <1>2, <1>3, LeadKeeps

LEMMA LeadLose ==
    ASSUME TypeOK, Placed, NEW t \in Tables, TableLeads(t), NEW r \in Requests, Lose(r)
    PROVE  TableLeads(t)'
<1>1. /\ req[r].pc # "move" /\ UNCHANGED <<session, active>>
      /\ excuses' = Note(excuses, "lost", {req[r].table}, TRUE)
      /\ End(r) \/ \E pc \in {"setTable", "insert", "delTable"} : Goto(r, pc)
  BY DEF Lose
<1>2. Moves(r) /\ At(req'[r]) \subseteq At(req[r])
  BY <1>1, EndAt, GotoAt
<1>3. /\ excuses[t] \subseteq excuses'[t]
      /\ t = req[r].table => "lost" \in excuses'[t]
  BY <1>1, NoteGrows
<1>4. CASE t = req[r].table
  BY <1>3, <1>4 DEF TableLeads, Steady
<1>5. CASE t # req[r].table
  <2>1. t \notin At(req[r])
    BY <1>1, <1>5, AtTable
  <2>2. \A q \in Requests : t \in At(req[q]) \cup At(req'[q]) => req'[q] = req[q]
    BY <1>2, <2>1 DEF Moves
  <2>3. Aside(t)
    BY <1>1, <1>3, <2>2 DEF Aside
  <2>4. QED
    BY <2>3, AsideKeeps
<1>6. QED
  BY <1>4, <1>5

LEMMA LeadOthers ==
    ASSUME TypeOK, NEW t \in Tables, TableLeads(t),
           \/ \E o \in DOMAIN orders : Cancel(o)
           \/ \E s \in Sessions : ExpireSession(s)
           \/ \E u \in Tables : ExpireTable(u)
           \/ UNCHANGED vars
    PROVE  TableLeads(t)'
<1>1. CASE (\E o \in DOMAIN orders : Cancel(o)) \/ UNCHANGED vars
  <2>1. UNCHANGED <<session, active, req, excuses>>
    BY <1>1 DEF Cancel, vars
  <2>2. Aside(t)
    BY <2>1 DEF Aside
  <2>3. QED
    BY <2>2, AsideKeeps
<1>2. ASSUME NEW s \in Sessions, ExpireSession(s)
      PROVE  TableLeads(t)'
  <2>1. /\ session' = [session EXCEPT ![s] = NoTable]
        /\ excuses' = Note(excuses, "expired", {session[s]}, TRUE)
        /\ UNCHANGED <<active, req>>
    BY <1>2 DEF ExpireSession
  <2>2. excuses[t] \subseteq excuses'[t]
    BY <2>1, NoteGrows
  <2>3. \A u \in Sessions : session'[u] = t => session[u] = t
    BY <2>1, SessionsAssumption DEF TypeOK
  <2>4. Aside(t)
    BY <2>1, <2>2, <2>3 DEF Aside
  <2>5. QED
    BY <2>4, AsideKeeps
<1>3. ASSUME NEW u \in Tables, ExpireTable(u)
      PROVE  TableLeads(t)'
  <2>1. /\ active' = [active EXCEPT ![u] = NoSession]
        /\ active[u] # NoSession /\ session[active[u]] = NoTable
        /\ excuses' = Note(excuses, "expired", {u}, TRUE)
        /\ UNCHANGED <<session, req>>
    BY <1>3 DEF ExpireTable
  <2>2. excuses[t] \subseteq excuses'[t]
    BY <2>1, NoteGrows
  <2>3. \/ active'[t] = active[t]
        \/ /\ active'[t] = NoSession /\ active[t] \in Sessions
           /\ session[active[t]] = NoTable
    BY <2>1 DEF TypeOK
  <2>4. Aside(t)
    BY <2>1, <2>2, <2>3 DEF Aside
  <2>5. QED
    BY <2>4, AsideKeeps
<1>4. QED
  BY <1>1, <1>2, <1>3

LEMMA LeadStep ==
    ASSUME TInv, Placed, NEW t \in Tables, TableLeads(t), [Next]_vars
    PROVE  TableLeads(t)'
<1>t. TypeOK /\ HandlerOK
  BY DEF TInv
<1>1. ASSUME NEW r \in Requests, NEW t0 \in Tables, NewRequest(r, t0)
      PROVE  TableLeads(t)'
  BY <1>t, <1>1, LeadRequest
<1>2. ASSUME NEW r \in Requests, HandlerStep(r) \/ Lose(r)
      PROVE  TableLeads(t)'
  BY <1>t, <1>2, LeadEnds, LeadSetSession, LeadSetTable, LeadGet, LeadDelSession,
     LeadDelTable, LeadLose DEF HandlerStep
<1>3. QED
  BY <1>t, <1>1, <1>2, LeadOthers DEF Next

\* Where the session of order o is ended, or about to be, in terms of its id.
LEMMA EndingStays ==
    ASSUME TInv, Placed, [Next]_vars, NEW s \in Sessions, NEW t \in Tables,
           issued[s] = {t},
           ~Pardoned(t)', SetOnce(s), TableLeads(t),
           \E o \in DOMAIN orders : orders[o].session = s,
           \/ session[s] = NoTable
           \/ \E r \in Requests : \/ req[r].pc = "get" /\ req[r].table = t
                                  \/ req[r].pc = "delSession" /\ req[r].session = s
    PROVE  \/ session'[s] = NoTable
           \/ \E r \in Requests : \/ req'[r].pc = "get" /\ req'[r].table = t
                                  \/ req'[r].pc = "delSession" /\ req'[r].session = s
<1>t. TypeOK /\ HandlerOK /\ KeysOK
  BY DEF TInv
<1>g. /\ excuses[t] \subseteq excuses'[t]
      /\ {"overlap", "overwritten", "lost", "moved", "reopened", "elsewhere"}
            \cap excuses'[t] = {}
  BY <1>t, ExcusesGrow DEF Pardoned
<1>1. ASSUME session[s] = NoTable, NEW r \in Requests, SetSession(r)
      PROVE  session'[s] = NoTable
  <2>0. Unrepeated(s)
    BY <1>g DEF Unrepeated
  <2>1. ~Sets(req[r], s)
    BY <2>0 DEF SetOnce
  <2>2. req[r].session # s
    BY <1>1, <2>1 DEF SetSession, Sets
  <2>3. QED
    BY <1>t, <1>1, <2>2 DEF SetSession, TypeOK
<1>2. ASSUME session[s] = NoTable, NEW x \in Sessions, session' = [session EXCEPT ![x] = NoTable]
      PROVE  session'[s] = NoTable
  BY <1>t, <1>2 DEF TypeOK
<1>3. ASSUME NEW r \in Requests, DelSession(r)
      PROVE  /\ req[r].session \in Sessions
             /\ session' = [session EXCEPT ![req[r].session] = NoTable]
  BY <1>3 DEF DelSession, Without, Placed
<1>4. CASE session[s] = NoTable
  <2>1. \/ session' = session
        \/ \E r \in Requests : SetSession(r) \/ DelSession(r)
        \/ \E x \in Sessions : ExpireSession(x)
    <3>1. ASSUME NEW r \in Requests, NEW t0 \in Tables, NewRequest(r, t0)
          PROVE  session' = session
      BY <3>1 DEF NewRequest, OrderWithSession, OrderWithoutSession, Register, Pay,
                  RequestBill, MoveRead
    <3>2. ASSUME NEW r \in Requests, HandlerStep(r) \/ Lose(r)
          PROVE  session' = session \/ SetSession(r) \/ DelSession(r)
      BY <3>2 DEF HandlerStep, InsertOrder, Reject, SetTable, GetSession, DelTable,
                  MoveCommit, Lose
    <3>3. ASSUME \/ \E o \in DOMAIN orders : Cancel(o)
                 \/ \E u \in Tables : ExpireTable(u)
                 \/ UNCHANGED vars
          PROVE  session' = session
      BY <3>3 DEF Cancel, ExpireTable, vars
    <3>4. QED
      BY <3>1, <3>2, <3>3 DEF Next
  <2>2. QED
    BY <1>1, <1>2, <1>3, <1>4, <2>1 DEF ExpireSession
<1>5. ASSUME NEW r \in Requests,
             \/ req[r].pc = "get" /\ req[r].table = t
             \/ req[r].pc = "delSession" /\ req[r].session = s,
             session[s] # NoTable
      PROVE  \/ session'[s] = NoTable
             \/ req'[r].pc = "get" /\ req'[r].table = t
             \/ req'[r].pc = "delSession" /\ req'[r].session = s
  <2>1. session[s] = t
    BY <1>t, <1>5 DEF KeysOK
  <2>2. req[r].table = t
    BY <1>5 DEF Placed
  <2>3. CASE req'[r] = req[r]
    BY <1>5, <2>3
  <2>4. ~Lose(r)
    <3>1. SUFFICES ASSUME Lose(r) PROVE FALSE
      OBVIOUS
    <3>2. excuses' = Note(excuses, "lost", {t}, TRUE)
      BY <2>2, <3>1 DEF Lose
    <3>3. "lost" \in excuses'[t]
      BY <3>2 DEF Note
    <3>4. QED
      BY <1>g, <3>3
  <2>5. CASE DelSession(r)
    <3>1. req[r].session = s
      BY <1>5, <2>5 DEF DelSession
    <3>2. QED
      BY <1>t, <1>3, <2>5, <3>1 DEF TypeOK
  <2>6. CASE GetSession(r)
    <3>1. Steady(t)
      BY <1>g DEF Steady
    <3>2. req[r].pc = "get" /\ t \in At(req[r])
      BY <2>2, <2>6, AtTable DEF GetSession
    <3>3. Leads(t)
      BY <3>1, <3>2 DEF TableLeads, Halfway
    <3>4. active[t] = s
      BY <2>1, <3>3 DEF Leads
    <3>5. req'[r].pc # "idle"
      <4>1. active[req[r].table] # NoSession
        BY <2>2, <3>4, SessionsAssumption
      <4>2. req' = [req EXCEPT ![r].pc = "delSession", ![r].session = active[req[r].table]]
        BY <2>6, <4>1 DEF GetSession
      <4>3. QED
        BY <1>t, <4>2 DEF TypeOK, Handler
    <3>6. req'[r].pc = "delSession"
      BY <2>6, <3>2, <3>5, SlotSteps DEF HandlerStep
    <3>7. QED
      BY <2>2, <2>6, <3>4, <3>6, SlotSteps DEF HandlerStep
  <2>7. ASSUME NEW q \in Requests, NEW t0 \in Tables, NewRequest(q, t0)
        PROVE  req'[r] = req[r]
    <3>1. \E h : Begin(q, h)
      BY <2>7, OthersBegin DEF MoveRead
    <3>2. QED
      BY <1>t, <1>5, <3>1, BeginSlot DEF Moves
  <2>8. ASSUME NEW q \in Requests, HandlerStep(q) \/ Lose(q), q # r
        PROVE  req'[r] = req[r]
    BY <2>8, SlotSteps DEF Moves
  <2>9. HandlerStep(r) => GetSession(r) \/ DelSession(r)
    BY <1>5 DEF HandlerStep, InsertOrder, Reject, SetSession, SetTable, DelTable, MoveCommit
  <2>10. \/ req'[r] = req[r]
         \/ GetSession(r) \/ DelSession(r)
    BY <2>4, <2>7, <2>8, <2>9 DEF Next, vars, Cancel, ExpireSession, ExpireTable
  <2>11. QED
    BY <2>3, <2>5, <2>6, <2>10
<1>6. QED
  BY <1>4, <1>5

LEMMA PaidEndsStep ==
    ASSUME SInv, Placed, [Next]_vars, \A t \in Tables : TableLeads(t),
           \A s \in Sessions : SetOnce(s), MovesTold, MovesTold', PaidEnds
    PROVE  PaidEnds'
<1>t. TInv /\ TypeOK /\ \A o \in DOMAIN orders : orders[o] \in Order
  BY DEF SInv, TInv, TypeOK
<1>g. \A t \in Tables : excuses[t] \subseteq excuses'[t]
  BY <1>t, ExcusesGrow
<1> SUFFICES ASSUME NEW o \in DOMAIN orders', orders'[o].status = "paid"
             PROVE  Ending(o)'
  BY DEF PaidEnds
<1>1. o \in DOMAIN orders
  BY <1>t, OrdersMove
<1>2. PICK s \in Sessions, t \in Tables :
         s = orders[o].session /\ t = orders[o].first /\ t \in issued[s]
  BY <1>t, <1>1 DEF Order, TInv, Placing
<1>3. orders'[o].session = s /\ orders'[o].first = t
  BY <1>t, <1>1, <1>2, OrdersStay
<1> SUFFICES ASSUME ~Pardoned(t)', ~Pardoned(orders[o].table)'
             PROVE  \/ session'[s] = NoTable
                    \/ \E r \in Requests :
                          \/ req'[r].pc = "get" /\ req'[r].table = t
                          \/ req'[r].pc = "delSession" /\ req'[r].session = s
  BY <1>3 DEF Ending, Ends, Pardoned
<1>s. issued[s] = {t}
  <2>1. "elsewhere" \notin excuses[t]
    BY <1>g DEF Pardoned
  <2>2. QED
    BY <1>2, <2>1 DEF SInv, ElsewhereTold
<1>4. orders'[o].table = t
  <2>1. orders'[o].table # t => "moved" \in excuses'[orders'[o].table]
    BY <1>3 DEF MovesTold
  <2>2. QED
    BY <2>1 DEF Pardoned
<1>5. orders[o].table = t
  <2>1. ASSUME NEW r \in Requests, req[r].pc = "move", req[r].to = t
        PROVE  FALSE
    <3>1. "moved" \in excuses[t]
      BY <2>1 DEF MovesTold
    <3>2. QED
      BY <1>g, <3>1 DEF Pardoned
  <2>2. QED
    BY <1>t, <1>1, <1>4, <2>1, OrdersMove
<1>6. CASE orders[o].status = "paid"
  <2>1. Ending(o)
    BY <1>1, <1>6 DEF PaidEnds
  <2>2. ~Pardoned(t)
    BY <1>g DEF Pardoned
  <2>3. \/ session[s] = NoTable
        \/ \E r \in Requests : \/ req[r].pc = "get" /\ req[r].table = t
                               \/ req[r].pc = "delSession" /\ req[r].session = s
    BY <1>2, <1>5, <2>1, <2>2 DEF Ending, Ends
  <2>4. QED
    BY <1>t, <1>1, <1>2, <1>s, <2>3, EndingStays
<1>7. CASE orders[o].status # "paid"
  <2>1. PICK r \in Requests, t0 \in Tables, G \in SUBSET DOMAIN orders :
           Pay(r, t0, G) /\ o \in G
    BY <1>t, <1>1, <1>7, OrdersMove
  <2>2. t0 = t
    BY <1>5, <2>1 DEF Pay, Open
  <2>3. req'[r] = Clear(t)
    BY <1>t, <2>1, <2>2, BeginSlot DEF Pay
  <2>4. Clear(t).pc = "get" /\ Clear(t).table = t
    BY DEF Clear, Idle
  <2>5. QED
    BY <2>3, <2>4
<1>8. QED
  BY <1>6, <1>7

\* What a payment can rely on.
Leading == /\ \A t \in Tables : TableLeads(t)
           /\ \A s \in Sessions : SetOnce(s)
           /\ MovesTold
           /\ PaidEnds

LEMMA InitLeading == Init => Placed /\ Leading
<1> SUFFICES ASSUME Init PROVE Placed /\ Leading
  OBVIOUS
<1>1. \A r \in Requests : req[r] = Idle
  BY DEF Init
<1>2. Placed
  BY <1>1, SessionsAssumption DEF Init, Placed, Idle
<1>3. Idle.pc = "idle" /\ At(Idle) = {}
  BY SessionsAssumption DEF Idle, At
<1>4. ASSUME NEW t \in Tables PROVE TableLeads(t)
  <2>1. Leads(t)
    BY SessionsAssumption DEF Init, Leads
  <2>2. QED
    BY <1>1, <1>3, <2>1 DEF TableLeads
<1>5. ASSUME NEW s \in Sessions PROVE SetOnce(s)
  BY <1>1, <1>3 DEF SetOnce, Sets
<1>6. DOMAIN orders = {}
  BY DEF Init
<1>7. MovesTold /\ PaidEnds
  BY <1>1, <1>3, <1>6 DEF MovesTold, PaidEnds
<1>8. QED
  BY <1>2, <1>4, <1>5, <1>7 DEF Leading

LEMMA LeadingStep ==
    ASSUME SInv, Placed, Leading, [Next]_vars
    PROVE  Leading'
<1>1. /\ \A t \in Tables : TableLeads(t)
      /\ \A s \in Sessions : SetOnce(s)
      /\ MovesTold /\ PaidEnds
  BY DEF Leading
<1>t. TInv
  BY DEF SInv
<1>2. MovesTold'
  BY <1>t, <1>1, MovesToldStep
<1>3. ASSUME NEW t \in Tables PROVE TableLeads(t)'
  BY <1>t, <1>1, LeadStep
<1>4. ASSUME NEW s \in Sessions PROVE SetOnce(s)'
  BY <1>t, <1>1, SetOnceStep
<1>5. PaidEnds'
  BY <1>1, <1>2, PaidEndsStep
<1>6. QED
  BY <1>2, <1>3, <1>4, <1>5 DEF Leading

\* A payment answers before the session of its table is cleared: from then on
\* the session of each paid order is gone, or a handler is on its way that will
\* delete it, or its table has one of the excuses.
THEOREM PaidSessionsEnd == Spec => []PaidEnds
<1>1. Init => SInv /\ Placed /\ Leading
  BY SInvHolds, InitLeading
<1>2. (SInv /\ Placed /\ Leading) /\ [Next]_vars => (SInv /\ Placed /\ Leading)'
  <2> SUFFICES ASSUME SInv, Placed, Leading, [Next]_vars
               PROVE  SInv' /\ Placed' /\ Leading'
    OBVIOUS
  <2>1. SInv'
    BY SInvHolds
  <2>2. Placed'
    BY PlacedStep DEF SInv, TInv
  <2>3. QED
    BY <2>1, <2>2, LeadingStep
<1>3. SInv /\ Placed /\ Leading => PaidEnds
  BY DEF Leading
<1>4. QED
  BY <1>1, <1>2, <1>3, PTL DEF Spec
=============================================================================
