----------------------------- MODULE FloorProofs -----------------------------
(***************************************************************************)
(* Proofs about Floor for every value of its constants: the type           *)
(* invariant; that a table has at most one session and shows it, and that  *)
(* the orders of guests who are moved go with them; that the last dish     *)
(* completes its order and no earlier one, and a cancelled order stays     *)
(* cancelled.                                                              *)
(*                                                                         *)
(* The operators that describe a handler take the tables they speak about  *)
(* as parameters, so that the same operator describes it before and after  *)
(* a step.                                                                 *)
(***************************************************************************)
EXTENDS Floor, FiniteSetTheorems, TLAPS

OpenPcs    == {"openCheck", "openInsert", "openMark"}
ClosePcs   == {"closeWrite", "closeMark"}
MovePcs    == {"moveTo", "moveSession", "moveOrders", "moveCommit"}
UnmergePcs == {"unmergeFree", "unmergeWrite"}
BumpPcs    == {"bumpWrite", "bumpCheck", "bumpComplete"}

\* The rows and tables that handler h holds, for the sessions S and orders O.
Shape(h, S, O) ==
    /\ h.pc = "idle" => h.at = {}
    /\ h.pc \in OpenPcs \cup ClosePcs \cup {"billMark"} =>
          h.table \in Tables /\ h.at = {h.table}
    /\ h.pc \in ClosePcs =>
          h.session \in DOMAIN S /\ S[h.session].table = h.table
    /\ h.pc \in MovePcs =>
          h.table \in Tables /\ h.to \in Tables /\ h.table # h.to /\ h.at = {h.table, h.to}
    /\ h.pc \in {"moveOrders", "moveCommit"} /\ h.session # 0 =>
          h.session \in DOMAIN S /\ S[h.session].table = h.table
    /\ h.pc \in UnmergePcs => h.table \in h.at
    /\ h.pc \in BumpPcs => h.order \in DOMAIN O
    /\ h.pc \notin BumpPcs => h.order = 0

TInv == TypeOK /\ \A r \in Requests : Shape(req[r], sessions, orders)

-----------------------------------------------------------------------------
LEMMA IdleType ==
    ASSUME NEW S, NEW O
    PROVE  Idle \in Handler /\ Idle.pc = "idle" /\ Idle.at = {} /\ Shape(Idle, S, O)
  BY DEF Idle, Handler, Shape, OpenPcs, ClosePcs, MovePcs, UnmergePcs, BumpPcs

\* Rows are only added, and a session stays at its table.
LEMMA ShapeKept ==
    ASSUME NEW S \in Seq(Session), NEW T \in Seq(Session), NEW O \in Seq(Order),
           NEW P \in Seq(Order), Len(S) <= Len(T), Len(O) <= Len(P),
           \A i \in DOMAIN S : T[i].table = S[i].table,
           NEW h, Shape(h, S, O)
    PROVE  Shape(h, T, P)
<1>1. DOMAIN S \subseteq DOMAIN T /\ DOMAIN O \subseteq DOMAIN P
  OBVIOUS
<1>2. QED
  BY <1>1 DEF Shape

\* A step that sets one slot.
LEMMA SlotSet ==
    ASSUME TInv, NEW r \in Requests, NEW h \in Handler,
           req' = [req EXCEPT ![r] = h],
           Shape(h, sessions', orders'),
           sessions' \in Seq(Session), orders' \in Seq(Order),
           Len(sessions) <= Len(sessions'), Len(orders) <= Len(orders'),
           \A i \in DOMAIN sessions : sessions'[i].table = sessions[i].table
    PROVE  /\ req' \in [Requests -> Handler]
           /\ \A q \in Requests : Shape(req'[q], sessions', orders')
<1>1. req' \in [Requests -> Handler]
  BY DEF TInv, TypeOK
<1>2. ASSUME NEW q \in Requests PROVE Shape(req'[q], sessions', orders')
  <2>1. CASE q = r
    BY <2>1 DEF TInv, TypeOK
  <2>2. CASE q # r
    <3>1. req'[q] = req[q] /\ Shape(req[q], sessions, orders)
      BY <2>2 DEF TInv, TypeOK
    <3>2. sessions \in Seq(Session) /\ orders \in Seq(Order)
      BY DEF TInv, TypeOK
    <3>3. QED
      BY <3>1, <3>2, ShapeKept
  <2>3. QED
    BY <2>1, <2>2
<1>3. QED
  BY <1>1, <1>2

\* A step that sets none.
LEMMA SlotsKept ==
    ASSUME TInv, req' = req,
           sessions' \in Seq(Session), orders' \in Seq(Order),
           Len(sessions) <= Len(sessions'), Len(orders) <= Len(orders'),
           \A i \in DOMAIN sessions : sessions'[i].table = sessions[i].table
    PROVE  /\ req' \in [Requests -> Handler]
           /\ \A q \in Requests : Shape(req'[q], sessions', orders')
<1>1. sessions \in Seq(Session) /\ orders \in Seq(Order)
  BY DEF TInv, TypeOK
<1>2. QED
  BY <1>1, ShapeKept DEF TInv, TypeOK

\* What Goto makes of a slot.
LEMMA GotoSlot ==
    ASSUME TInv, NEW r \in Requests,
           NEW pc \in {"openInsert", "openMark", "closeMark", "moveSession",
                       "unmergeWrite", "bumpCheck", "bumpComplete"}, Goto(r, pc)
    PROVE  \E h \in Handler :
              /\ req' = [req EXCEPT ![r] = h]
              /\ h = [req[r] EXCEPT !.pc = pc]
              /\ h.pc = pc /\ h.table = req[r].table /\ h.to = req[r].to
              /\ h.at = req[r].at /\ h.session = req[r].session
              /\ h.order = req[r].order /\ h.preparing = req[r].preparing
              /\ h.todo = req[r].todo
<1> DEFINE h == [req[r] EXCEPT !.pc = pc]
<1>1. req \in [Requests -> Handler] /\ req[r] \in Handler
  BY DEF TInv, TypeOK
<1>2. /\ h \in Handler
      /\ h.pc = pc /\ h.table = req[r].table /\ h.to = req[r].to
      /\ h.at = req[r].at /\ h.session = req[r].session
      /\ h.order = req[r].order /\ h.preparing = req[r].preparing
      /\ h.todo = req[r].todo
  BY <1>1 DEF Handler
<1>3. req' = [req EXCEPT ![r] = h]
  BY <1>1 DEF Goto
<1>4. QED
  BY <1>2, <1>3

\* What an action other than a commit adds to the history of the tables.
LEMMA NoteType ==
    ASSUME NEW e \in [Tables -> SUBSET Excuses], NEW why \in Excuses, NEW T, NEW c
    PROVE  Note(e, why, T, c) \in [Tables -> SUBSET Excuses]
  BY DEF Note

LEMMA OverlapType ==
    ASSUME TypeOK, NEW T
    PROVE  Overlap(T) \in [Tables -> SUBSET Excuses]
<1>1. "overlap" \in Excuses
  BY DEF Excuses
<1>2. QED
  BY <1>1, NoteType DEF Overlap, TypeOK

LEMMA SpendType ==
    ASSUME TypeOK, NEW k \in Kinds, Spend(k)
    PROVE  budget' \in [Kinds -> Nat]
  BY DEF TypeOK, Spend

\* Rows that are changed one by one.
LEMMA ChangedType ==
    ASSUME TypeOK, NEW P, P = [o \in DOMAIN orders |-> P[o]],
           \A o \in DOMAIN orders : P[o] \in Order
    PROVE  P \in Seq(Order) /\ Len(P) = Len(orders) /\ DOMAIN P = DOMAIN orders
<1>1. orders \in Seq(Order) /\ Len(orders) \in Nat /\ DOMAIN orders = 1..Len(orders)
  BY DEF TypeOK
<1>2. P \in [1..Len(orders) -> Order]
  BY <1>1
<1>3. QED
  BY <1>1, <1>2

-----------------------------------------------------------------------------
\* An end of a handler that writes no order and adds no session.
LEMMA EndSlot ==
    ASSUME TInv, NEW r \in Requests, End(r),
           sessions' = sessions, orders' \in Seq(Order), Len(orders) <= Len(orders')
    PROVE  /\ req' \in [Requests -> Handler]
           /\ \A q \in Requests : Shape(req'[q], sessions', orders')
<1>1. sessions \in Seq(Session)
  BY DEF TInv, TypeOK
<1>2. req' = [req EXCEPT ![r] = Idle]
  BY DEF End
<1>3. Idle \in Handler /\ Shape(Idle, sessions', orders')
  BY IdleType
<1>4. /\ sessions' \in Seq(Session) /\ Len(sessions) <= Len(sessions')
      /\ \A i \in DOMAIN sessions : sessions'[i].table = sessions[i].table
  BY <1>1
<1>5. QED
  BY <1>2, <1>3, <1>4, SlotSet

\* A step of a handler to its next query that writes no order and adds no session.
LEMMA GotoShape ==
    ASSUME TInv, NEW r \in Requests,
           NEW pc \in {"openInsert", "openMark", "closeMark", "moveSession",
                       "unmergeWrite", "bumpCheck", "bumpComplete"}, Goto(r, pc),
           \/ req[r].pc \in OpenPcs /\ pc \in OpenPcs
           \/ req[r].pc \in ClosePcs /\ pc \in ClosePcs
           \/ req[r].pc \in MovePcs /\ pc = "moveSession"
           \/ req[r].pc \in UnmergePcs /\ pc \in UnmergePcs
           \/ req[r].pc \in BumpPcs /\ pc \in BumpPcs,
           sessions' \in Seq(Session), Len(sessions) <= Len(sessions'),
           \A i \in DOMAIN sessions : sessions'[i].table = sessions[i].table,
           orders' \in Seq(Order), Len(orders) <= Len(orders')
    PROVE  /\ req' \in [Requests -> Handler]
           /\ \A q \in Requests : Shape(req'[q], sessions', orders')
<1>1. PICK h \in Handler :
              /\ req' = [req EXCEPT ![r] = h]
              /\ h.pc = pc /\ h.table = req[r].table /\ h.to = req[r].to
              /\ h.at = req[r].at /\ h.session = req[r].session
              /\ h.order = req[r].order
  BY GotoSlot
<1>2. Shape(req[r], sessions, orders) /\ sessions \in Seq(Session) /\ orders \in Seq(Order)
  BY DEF TInv, TypeOK
<1>3. Shape(req[r], sessions', orders')
  BY <1>2, ShapeKept
<1>4. Shape(h, sessions', orders')
  BY <1>1, <1>3 DEF Shape, OpenPcs, ClosePcs, MovePcs, UnmergePcs, BumpPcs
<1>5. QED
  BY <1>1, <1>4, SlotSet

\* The same for steps that change neither sessions nor orders.
LEMMA SameRows ==
    ASSUME TInv, sessions' = sessions, orders' = orders
    PROVE  /\ sessions' \in Seq(Session) /\ orders' \in Seq(Order)
           /\ Len(sessions) <= Len(sessions') /\ Len(orders) <= Len(orders')
           /\ \A i \in DOMAIN sessions : sessions'[i].table = sessions[i].table
<1>1. sessions \in Seq(Session) /\ orders \in Seq(Order)
  BY DEF TInv, TypeOK
<1>2. Len(sessions) \in Nat /\ Len(orders) \in Nat
  BY <1>1
<1>3. QED
  BY <1>1, <1>2

LEMMA BeginSame ==
    ASSUME TInv, NEW r \in Requests, NEW h \in Handler,
           req' = [req EXCEPT ![r] = h], Shape(h, sessions, orders),
           sessions' = sessions, orders' = orders
    PROVE  /\ req' \in [Requests -> Handler]
           /\ \A q \in Requests : Shape(req'[q], sessions', orders')
<1>1. Shape(h, sessions', orders')
  OBVIOUS
<1>2. QED
  BY <1>1, SameRows, SlotSet

LEMMA EndSame ==
    ASSUME TInv, NEW r \in Requests, End(r), sessions' = sessions, orders' = orders
    PROVE  /\ req' \in [Requests -> Handler]
           /\ \A q \in Requests : Shape(req'[q], sessions', orders')
  BY SameRows, EndSlot

LEMMA GotoSame ==
    ASSUME TInv, NEW r \in Requests,
           NEW pc \in {"openInsert", "openMark", "closeMark", "moveSession",
                       "unmergeWrite", "bumpCheck", "bumpComplete"}, Goto(r, pc),
           \/ req[r].pc \in OpenPcs /\ pc \in OpenPcs
           \/ req[r].pc \in ClosePcs /\ pc \in ClosePcs
           \/ req[r].pc \in MovePcs /\ pc = "moveSession"
           \/ req[r].pc \in UnmergePcs /\ pc \in UnmergePcs
           \/ req[r].pc \in BumpPcs /\ pc \in BumpPcs,
           sessions' = sessions, orders' = orders
    PROVE  /\ req' \in [Requests -> Handler]
           /\ \A q \in Requests : Shape(req'[q], sessions', orders')
  BY SameRows, GotoShape

LEMMA OpenSteps ==
    ASSUME TInv, NEW r \in Requests,
           \/ \E t \in Tables : Open(r, t)
           \/ OpenCheck(r) \/ OpenInsert(r) \/ OpenMark(r)
    PROVE  TInv'
<1> USE DEF TInv
<1>0. sessions \in Seq(Session) /\ orders \in Seq(Order)
  BY DEF TypeOK
<1>1. ASSUME NEW t \in Tables, Open(r, t) PROVE TInv'
  <2> DEFINE h == [Idle EXCEPT
                    !.pc = IF status[t] = "OCCUPIED" THEN "openCheck" ELSE "openInsert",
                    !.table = t, !.at = {t}]
  <2>1. h \in Handler
    BY DEF Idle, Handler
  <2>2. Shape(h, sessions, orders)
    BY DEF Idle, Shape, OpenPcs, ClosePcs, MovePcs, UnmergePcs, BumpPcs
  <2>3. req' = [req EXCEPT ![r] = h] /\ UNCHANGED <<status, merged, sessions, orders, bills>>
    BY <1>1 DEF Open, Begin
  <2> HIDE DEF h
  <2>4. /\ req' \in [Requests -> Handler]
        /\ \A q \in Requests : Shape(req'[q], sessions', orders')
    BY <2>1, <2>2, <2>3, BeginSame
  <2>5. excuses' \in [Tables -> SUBSET Excuses] /\ budget' \in [Kinds -> Nat]
    BY <1>1, OverlapType, SpendType DEF Open, Kinds
  <2>6. QED
    BY <2>3, <2>4, <2>5 DEF TypeOK
<1>2. ASSUME OpenCheck(r) PROVE TInv'
  <2>1. UNCHANGED <<status, merged, sessions, orders, bills, excuses, budget>>
    BY <1>2 DEF OpenCheck
  <2>2. /\ req' \in [Requests -> Handler]
        /\ \A q \in Requests : Shape(req'[q], sessions', orders')
    BY <1>2, <2>1, EndSame, GotoSame DEF OpenCheck, OpenPcs
  <2>3. QED
    BY <2>1, <2>2 DEF TypeOK
<1>3. ASSUME OpenInsert(r) PROVE TInv'
  <2>1. UNCHANGED <<status, merged, orders, bills, excuses, budget>>
    BY <1>3 DEF OpenInsert
  <2>2. req[r].table \in Tables /\ req[r].pc = "openInsert"
    BY <1>3 DEF OpenInsert, Shape, OpenPcs
  <2>3. /\ sessions' \in Seq(Session) /\ Len(sessions) <= Len(sessions')
        /\ \A i \in DOMAIN sessions : sessions'[i].table = sessions[i].table
    BY <1>0, <1>3, <2>2 DEF OpenInsert, Session
  <2>4. /\ req' \in [Requests -> Handler]
        /\ \A q \in Requests : Shape(req'[q], sessions', orders')
    <3>1. orders' \in Seq(Order) /\ Len(orders) <= Len(orders')
      BY <1>0, <2>1
    <3>2. Goto(r, "openMark")
      BY <1>3 DEF OpenInsert
    <3>3. QED
      BY <2>2, <2>3, <3>1, <3>2, GotoShape DEF OpenPcs
  <2>5. QED
    BY <2>1, <2>3, <2>4 DEF TypeOK
<1>4. ASSUME OpenMark(r) PROVE TInv'
  <2>1. UNCHANGED <<merged, sessions, orders, bills, excuses, budget>>
    BY <1>4 DEF OpenMark
  <2>2. /\ req' \in [Requests -> Handler]
        /\ \A q \in Requests : Shape(req'[q], sessions', orders')
    BY <1>4, <2>1, EndSame DEF OpenMark
  <2>3. status' \in [Tables -> TableStatus]
    BY <1>4 DEF OpenMark, TypeOK, TableStatus
  <2>4. QED
    BY <2>1, <2>2, <2>3 DEF TypeOK
<1>5. QED
  BY <1>1, <1>2, <1>3, <1>4

LEMMA CloseSteps ==
    ASSUME TInv, NEW r \in Requests,
           \/ \E t \in Tables : \E i \in DOMAIN sessions : Close(r, t, i)
           \/ CloseWrite(r) \/ CloseMark(r)
    PROVE  TInv'
<1> USE DEF TInv
<1>0. sessions \in Seq(Session) /\ orders \in Seq(Order)
  BY DEF TypeOK
<1>1. ASSUME NEW t \in Tables, NEW i \in DOMAIN sessions, Close(r, t, i) PROVE TInv'
  <2> DEFINE h == [Idle EXCEPT !.pc = "closeWrite", !.table = t, !.at = {t},
                               !.session = i]
  <2>0. i \in Nat /\ sessions[i].table = t
    <3>1. DOMAIN sessions = 1..Len(sessions) /\ Len(sessions) \in Nat
      BY <1>0
    <3>2. i \in OpenAt(t)
      BY <1>1 DEF Close
    <3>3. QED
      BY <3>1, <3>2 DEF OpenAt
  <2>1. h \in Handler
    BY <2>0 DEF Idle, Handler
  <2>2. Shape(h, sessions, orders)
    BY <2>0 DEF Idle, Shape, OpenPcs, ClosePcs, MovePcs, UnmergePcs, BumpPcs
  <2>3. req' = [req EXCEPT ![r] = h] /\ UNCHANGED <<status, merged, sessions, orders, bills>>
    BY <1>1 DEF Close, Begin
  <2> HIDE DEF h
  <2>4. /\ req' \in [Requests -> Handler]
        /\ \A q \in Requests : Shape(req'[q], sessions', orders')
    BY <2>1, <2>2, <2>3, BeginSame
  <2>5. excuses' \in [Tables -> SUBSET Excuses] /\ budget' \in [Kinds -> Nat]
    BY <1>1, OverlapType, SpendType DEF Close, Kinds
  <2>6. QED
    BY <2>3, <2>4, <2>5 DEF TypeOK
<1>2. ASSUME CloseWrite(r) PROVE TInv'
  <2>1. UNCHANGED <<status, merged, orders, bills, excuses, budget>>
    BY <1>2 DEF CloseWrite
  <2>2. req[r].session \in DOMAIN sessions /\ req[r].pc = "closeWrite"
    BY <1>2 DEF CloseWrite, Shape, ClosePcs
  <2>3. sessions' = [sessions EXCEPT ![req[r].session] =
                        [sessions[req[r].session] EXCEPT !.open = FALSE]]
    BY <1>2 DEF CloseWrite
  <2>4. sessions[req[r].session] \in Session
    BY <1>0, <2>2
  <2>5. /\ [sessions[req[r].session] EXCEPT !.open = FALSE] \in Session
        /\ [sessions[req[r].session] EXCEPT !.open = FALSE].table
             = sessions[req[r].session].table
    BY <2>4 DEF Session
  <2>6. /\ sessions' \in Seq(Session) /\ Len(sessions) <= Len(sessions')
        /\ \A i \in DOMAIN sessions : sessions'[i].table = sessions[i].table
    BY <1>0, <2>2, <2>3, <2>5
  <2>7. /\ req' \in [Requests -> Handler]
        /\ \A q \in Requests : Shape(req'[q], sessions', orders')
    <3>1. orders' \in Seq(Order) /\ Len(orders) <= Len(orders')
      BY <1>0, <2>1
    <3>2. Goto(r, "closeMark")
      BY <1>2 DEF CloseWrite
    <3>3. QED
      BY <2>2, <2>6, <3>1, <3>2, GotoShape DEF ClosePcs
  <2>8. QED
    BY <2>1, <2>6, <2>7 DEF TypeOK
<1>3. ASSUME CloseMark(r) PROVE TInv'
  <2>1. UNCHANGED <<merged, sessions, orders, bills, excuses, budget>>
    BY <1>3 DEF CloseMark
  <2>2. /\ req' \in [Requests -> Handler]
        /\ \A q \in Requests : Shape(req'[q], sessions', orders')
    BY <1>3, <2>1, EndSame DEF CloseMark
  <2>3. status' \in [Tables -> TableStatus]
    BY <1>3 DEF CloseMark, TypeOK, TableStatus
  <2>4. QED
    BY <2>1, <2>2, <2>3 DEF TypeOK
<1>4. QED
  BY <1>1, <1>2, <1>3

LEMMA MoveSteps ==
    ASSUME TInv, NEW r \in Requests,
           \/ \E t, to \in Tables : Move(r, t, to)
           \/ MoveTo(r) \/ MoveSession(r) \/ MoveOrders(r)
    PROVE  TInv'
<1> USE DEF TInv
<1>0. /\ sessions \in Seq(Session) /\ orders \in Seq(Order)
      /\ DOMAIN sessions \subseteq Nat \ {0} /\ DOMAIN orders \subseteq Nat
      /\ req[r] \in Handler /\ Shape(req[r], sessions, orders)
  <2>1. sessions \in Seq(Session) /\ orders \in Seq(Order)
    BY DEF TypeOK
  <2>2. /\ DOMAIN sessions = 1..Len(sessions) /\ Len(sessions) \in Nat
        /\ DOMAIN orders = 1..Len(orders) /\ Len(orders) \in Nat
    BY <2>1
  <2>3. QED
    BY <2>1, <2>2 DEF TypeOK
<1>1. ASSUME NEW t \in Tables, NEW to \in Tables, Move(r, t, to) PROVE TInv'
  <2> DEFINE h == [Idle EXCEPT !.pc = "moveTo", !.table = t, !.to = to, !.at = {t, to}]
  <2>0. t # to
    BY <1>1 DEF Move
  <2>1. h \in Handler
    BY DEF Idle, Handler
  <2>2. Shape(h, sessions, orders)
    BY <2>0 DEF Idle, Shape, OpenPcs, ClosePcs, MovePcs, UnmergePcs, BumpPcs
  <2>3. req' = [req EXCEPT ![r] = h] /\ UNCHANGED <<status, merged, sessions, orders, bills>>
    BY <1>1 DEF Move, Begin
  <2> HIDE DEF h
  <2>4. /\ req' \in [Requests -> Handler]
        /\ \A q \in Requests : Shape(req'[q], sessions', orders')
    BY <2>1, <2>2, <2>3, BeginSame
  <2>5. excuses' \in [Tables -> SUBSET Excuses] /\ budget' \in [Kinds -> Nat]
    BY <1>1, OverlapType, SpendType DEF Move, Kinds
  <2>6. QED
    BY <2>3, <2>4, <2>5 DEF TypeOK
<1>2. ASSUME MoveTo(r) PROVE TInv'
  <2>1. UNCHANGED <<status, merged, sessions, orders, bills, excuses, budget>>
    BY <1>2 DEF MoveTo
  <2>2. /\ req' \in [Requests -> Handler]
        /\ \A q \in Requests : Shape(req'[q], sessions', orders')
    BY <1>2, <2>1, EndSame, GotoSame DEF MoveTo, MovePcs
  <2>3. QED
    BY <2>1, <2>2 DEF TypeOK
<1>3. ASSUME MoveSession(r) PROVE TInv'
  <2>1. UNCHANGED <<status, merged, sessions, orders, bills, excuses, budget>>
    BY <1>3 DEF MoveSession
  <2>2. PICK i \in {0} \cup OpenAt(req[r].table) :
           req' = [req EXCEPT ![r] = [req[r] EXCEPT !.pc = "moveOrders", !.session = i]]
    <3>1. PICK i \in IF OpenAt(req[r].table) = {} THEN {0} ELSE OpenAt(req[r].table) :
             req' = [req EXCEPT ![r].pc = "moveOrders", ![r].session = i]
      BY <1>3 DEF MoveSession
    <3>2. [req EXCEPT ![r].pc = "moveOrders", ![r].session = i]
            = [req EXCEPT ![r] = [req[r] EXCEPT !.pc = "moveOrders", !.session = i]]
      BY DEF TypeOK
    <3>3. i \in {0} \cup OpenAt(req[r].table)
      BY <3>1
    <3>4. QED
      BY <3>1, <3>2, <3>3
  <2> DEFINE h == [req[r] EXCEPT !.pc = "moveOrders", !.session = i]
  <2>3. i \in Nat /\ (i # 0 => i \in DOMAIN sessions /\ sessions[i].table = req[r].table)
    BY <1>0 DEF OpenAt
  <2>4. h \in Handler
    BY <1>0, <2>3 DEF Handler
  <2>5. Shape(h, sessions, orders)
    <3>1. /\ h.pc = "moveOrders" /\ h.table = req[r].table /\ h.to = req[r].to
          /\ h.at = req[r].at /\ h.session = i /\ h.order = req[r].order
      BY <1>0 DEF Handler
    <3>2. req[r].pc = "moveSession"
      BY <1>3 DEF MoveSession
    <3> HIDE DEF h
    <3>3. QED
      BY <1>0, <2>3, <3>1, <3>2 DEF Shape, OpenPcs, ClosePcs, MovePcs, UnmergePcs, BumpPcs
  <2> HIDE DEF h
  <2>6. /\ req' \in [Requests -> Handler]
        /\ \A q \in Requests : Shape(req'[q], sessions', orders')
    <3>1. req' = [req EXCEPT ![r] = h]
      BY <2>2 DEF h
    <3>2. QED
      BY <2>1, <2>4, <2>5, <3>1, BeginSame
  <2>7. QED
    BY <2>1, <2>6 DEF TypeOK
<1>4. ASSUME MoveOrders(r) PROVE TInv'
  <2>1. UNCHANGED <<status, merged, sessions, orders, bills, excuses, budget>>
    BY <1>4 DEF MoveOrders
  <2> DEFINE S == Owed(req[r].table)
             h == [req[r] EXCEPT !.pc = "moveCommit", !.todo = S]
  <2>2. S \subseteq Nat
    BY <1>0 DEF Owed, ActiveAt
  <2>3. h \in Handler
    BY <1>0, <2>2 DEF Handler
  <2>4. Shape(h, sessions, orders)
    <3>1. /\ h.pc = "moveCommit" /\ h.table = req[r].table /\ h.to = req[r].to
          /\ h.at = req[r].at /\ h.session = req[r].session /\ h.order = req[r].order
      BY <1>0 DEF Handler
    <3>2. req[r].pc = "moveOrders"
      BY <1>4 DEF MoveOrders
    <3> HIDE DEF h
    <3>3. QED
      BY <1>0, <3>1, <3>2 DEF Shape, OpenPcs, ClosePcs, MovePcs, UnmergePcs, BumpPcs
  <2>5. /\ req' \in [Requests -> Handler]
        /\ \A q \in Requests : Shape(req'[q], sessions', orders')
    <3>1. CASE End(r)
      BY <2>1, <3>1, EndSame
    <3>2. CASE req' = [req EXCEPT ![r] = h]
      <4> HIDE DEF h
      <4>1. QED
        BY <2>1, <2>3, <2>4, <3>2, BeginSame
    <3>3. End(r) \/ req' = [req EXCEPT ![r] = h]
      <4>1. [req EXCEPT ![r].pc = "moveCommit", ![r].todo = S] = [req EXCEPT ![r] = h]
        BY DEF TypeOK
      <4>2. QED
        BY <1>4, <4>1 DEF MoveOrders
    <3>4. QED
      BY <3>1, <3>2, <3>3
  <2>6. QED
    BY <2>1, <2>5 DEF TypeOK
<1>5. QED
  BY <1>1, <1>2, <1>3, <1>4

MovedTo(x, t, n) == [x EXCEPT !.table = t, !.seat = n]

LEMMA OrderMoved ==
    ASSUME NEW x \in Order, NEW t \in Tables, NEW n \in Nat
    PROVE  LET y == MovedTo(x, t, n) IN
              /\ y \in Order /\ y.table = t /\ y.seat = n
              /\ y.status = x.status /\ y.done = x.done /\ y.paid = x.paid
              /\ y.cancelled = x.cancelled /\ y.notes = x.notes
  BY DEF Order, MovedTo

\* The rows after the transaction of a transfer.
LEMMA CommitRows ==
    ASSUME TInv, NEW r \in Requests, MoveCommit(r)
    PROVE  /\ sessions' \in Seq(Session) /\ orders' \in Seq(Order)
           /\ Len(sessions') = Len(sessions) + 1 /\ Len(sessions) \in Nat
           /\ DOMAIN sessions = 1..Len(sessions) /\ DOMAIN orders = 1..Len(orders)
           /\ Len(orders') = Len(orders) /\ DOMAIN orders' = DOMAIN orders
           /\ \A i \in DOMAIN sessions :
                 /\ sessions'[i].table = sessions[i].table
                 /\ sessions'[i].open = (sessions[i].open /\ i # req[r].session)
           /\ sessions'[Len(sessions) + 1] = [table |-> req[r].to, open |-> TRUE]
           /\ \A o \in DOMAIN orders :
                 /\ orders'[o].table = IF o \in req[r].todo THEN req[r].to
                                                            ELSE orders[o].table
                 /\ orders'[o].seat = IF req[r].session # 0
                                         /\ orders[o].seat = req[r].session /\ Active(o)
                                      THEN Len(sessions) + 1 ELSE orders[o].seat
                 /\ orders'[o].status = orders[o].status
                 /\ orders'[o].done = orders[o].done
                 /\ orders'[o].paid = orders[o].paid
                 /\ orders'[o].cancelled = orders[o].cancelled
                 /\ orders'[o].notes = orders[o].notes
<1>0. /\ sessions \in Seq(Session) /\ orders \in Seq(Order)
      /\ req[r].to \in Tables /\ req[r].pc = "moveCommit"
  BY DEF TInv, TypeOK, MoveCommit, Shape, MovePcs
<1>1. /\ DOMAIN sessions = 1..Len(sessions) /\ Len(sessions) \in Nat
      /\ DOMAIN orders = 1..Len(orders) /\ Len(orders) \in Nat
      /\ \A i \in DOMAIN sessions : sessions[i] \in Session
      /\ \A o \in DOMAIN orders : orders[o] \in Order
  BY <1>0
<1> DEFINE T == [i \in DOMAIN sessions |->
                    IF i = req[r].session THEN [sessions[i] EXCEPT !.open = FALSE]
                                          ELSE sessions[i]]
           x == [table |-> req[r].to, open |-> TRUE]
           f == [o \in DOMAIN orders |->
                    [orders[o] EXCEPT
                        !.table = IF o \in req[r].todo THEN req[r].to ELSE @,
                        !.seat  = IF req[r].session # 0 /\ @ = req[r].session /\ Active(o)
                                  THEN Len(sessions) + 1 ELSE @]]
<1>2. sessions' = Append(T, x) /\ orders' = f
  BY DEF MoveCommit
<1>3. \A i \in DOMAIN sessions : /\ T[i] \in Session /\ T[i].table = sessions[i].table
                                 /\ T[i].open = (sessions[i].open /\ i # req[r].session)
  BY <1>1 DEF Session
<1>4. x \in Session
  BY <1>0 DEF Session
<1>5. \A o \in DOMAIN orders :
         /\ f[o] \in Order
         /\ f[o].table = IF o \in req[r].todo THEN req[r].to ELSE orders[o].table
         /\ f[o].seat = IF req[r].session # 0
                           /\ orders[o].seat = req[r].session /\ Active(o)
                        THEN Len(sessions) + 1 ELSE orders[o].seat
         /\ f[o].status = orders[o].status /\ f[o].done = orders[o].done
         /\ f[o].paid = orders[o].paid /\ f[o].cancelled = orders[o].cancelled
         /\ f[o].notes = orders[o].notes
  <2> SUFFICES ASSUME NEW o \in DOMAIN orders
               PROVE  /\ f[o] \in Order
                      /\ f[o].table = IF o \in req[r].todo THEN req[r].to
                                                           ELSE orders[o].table
                      /\ f[o].seat = IF req[r].session # 0
                                        /\ orders[o].seat = req[r].session /\ Active(o)
                                     THEN Len(sessions) + 1 ELSE orders[o].seat
                      /\ f[o].status = orders[o].status /\ f[o].done = orders[o].done
                      /\ f[o].paid = orders[o].paid
                      /\ f[o].cancelled = orders[o].cancelled
                      /\ f[o].notes = orders[o].notes
    OBVIOUS
  <2> DEFINE P == IF o \in req[r].todo THEN req[r].to ELSE orders[o].table
             N == IF req[r].session # 0 /\ orders[o].seat = req[r].session /\ Active(o)
                  THEN Len(sessions) + 1 ELSE orders[o].seat
  <2>1. orders[o] \in Order /\ orders[o].table \in Tables /\ orders[o].seat \in Nat
    BY <1>1 DEF Order
  <2>2. P \in Tables /\ N \in Nat
    BY <1>0, <1>1, <2>1
  <2>3. f[o] = MovedTo(orders[o], P, N)
    BY DEF MovedTo
  <2> HIDE DEF f
  <2> SUFFICES /\ f[o] \in Order /\ f[o].table = P /\ f[o].seat = N
               /\ f[o].status = orders[o].status /\ f[o].done = orders[o].done
               /\ f[o].paid = orders[o].paid /\ f[o].cancelled = orders[o].cancelled
               /\ f[o].notes = orders[o].notes
    OBVIOUS
  <2> HIDE DEF P, N
  <2>4. QED
    BY <2>1, <2>2, <2>3, OrderMoved
<1>6. T \in Seq(Session) /\ Len(T) = Len(sessions) /\ DOMAIN T = DOMAIN sessions
  <2>1. T \in [1..Len(sessions) -> Session]
    BY <1>1, <1>3
  <2>2. QED
    BY <1>1, <2>1
<1>7. f = [o \in DOMAIN orders |-> f[o]]
  OBVIOUS
<1> HIDE DEF T, x, f
<1>8. f \in Seq(Order) /\ Len(f) = Len(orders) /\ DOMAIN f = DOMAIN orders
  BY <1>5, <1>7, ChangedType DEF TInv
<1>9. /\ Append(T, x) \in Seq(Session) /\ Len(Append(T, x)) = Len(sessions) + 1
      /\ \A i \in DOMAIN sessions : Append(T, x)[i] = T[i]
      /\ Append(T, x)[Len(sessions) + 1] = x
  BY <1>1, <1>4, <1>6
<1>10. /\ sessions' \in Seq(Session) /\ Len(sessions') = Len(sessions) + 1
       /\ \A i \in DOMAIN sessions :
             /\ sessions'[i].table = sessions[i].table
             /\ sessions'[i].open = (sessions[i].open /\ i # req[r].session)
       /\ sessions'[Len(sessions) + 1] = [table |-> req[r].to, open |-> TRUE]
  <2>1. sessions' = Append(T, x)
    BY <1>2
  <2>2. x = [table |-> req[r].to, open |-> TRUE]
    BY DEF x
  <2>3. \A i \in DOMAIN sessions :
           /\ T[i].table = sessions[i].table
           /\ T[i].open = (sessions[i].open /\ i # req[r].session)
    BY <1>3
  <2>4. /\ sessions' \in Seq(Session) /\ Len(sessions') = Len(sessions) + 1
        /\ \A i \in DOMAIN sessions : sessions'[i] = T[i]
        /\ sessions'[Len(sessions) + 1] = x
    BY <1>9, <2>1
  <2>5. QED
    BY <2>2, <2>3, <2>4
<1>11. orders' \in Seq(Order) /\ Len(orders') = Len(orders) /\ DOMAIN orders' = DOMAIN orders
  BY <1>2, <1>8
<1>12. QED
  BY <1>1, <1>2, <1>5, <1>10, <1>11, Zenon

LEMMA CommitStep ==
    ASSUME TInv, NEW r \in Requests, MoveCommit(r)
    PROVE  TInv'
<1>1. /\ sessions' \in Seq(Session) /\ orders' \in Seq(Order)
      /\ Len(sessions) <= Len(sessions') /\ Len(orders) <= Len(orders')
      /\ \A i \in DOMAIN sessions : sessions'[i].table = sessions[i].table
  <2>1. orders \in Seq(Order) /\ sessions \in Seq(Session)
    BY DEF TInv, TypeOK
  <2>2. Len(orders) \in Nat /\ Len(sessions) \in Nat
    BY <2>1
  <2>3. /\ sessions' \in Seq(Session) /\ orders' \in Seq(Order)
        /\ Len(sessions') = Len(sessions) + 1 /\ Len(orders') = Len(orders)
        /\ \A i \in DOMAIN sessions : sessions'[i].table = sessions[i].table
    BY CommitRows
  <2>4. QED
    BY <2>2, <2>3
<1>2. Idle \in Handler /\ Shape(Idle, sessions', orders') /\ req' = [req EXCEPT ![r] = Idle]
  BY IdleType DEF MoveCommit, End
<1>3. /\ req' \in [Requests -> Handler]
      /\ \A q \in Requests : Shape(req'[q], sessions', orders')
  BY <1>1, <1>2, SlotSet
<1>4. status' \in [Tables -> TableStatus] /\ excuses' \in [Tables -> SUBSET Excuses]
  <2>1. req[r].table \in Tables /\ req[r].to \in Tables
    BY DEF MoveCommit, TInv, Shape, MovePcs
  <2>2. QED
    BY <2>1 DEF MoveCommit, TInv, TypeOK, TableStatus
<1>5. UNCHANGED <<merged, bills, budget>>
  BY DEF MoveCommit
<1>6. QED
  BY <1>1, <1>3, <1>4, <1>5 DEF TInv, TypeOK

-----------------------------------------------------------------------------
(* What the other actions make of the orders. *)

\* The order stays where it was, with the history it had.
SamePlace(x, y) == y.table = x.table /\ y.seat = x.seat /\ x.notes \subseteq y.notes

SameRowsKept == /\ orders' \in Seq(Order) /\ Len(orders') = Len(orders)
                /\ DOMAIN orders' = DOMAIN orders
                /\ \A o \in DOMAIN orders : SamePlace(orders[o], orders'[o])

LEMMA OrderRow ==
    ASSUME TypeOK
    PROVE  /\ Len(orders) \in Nat /\ DOMAIN orders = 1..Len(orders)
           /\ \A o \in DOMAIN orders : orders[o] \in Order
<1>1. orders \in Seq(Order)
  BY DEF TypeOK
<1>2. QED
  BY <1>1

LEMMA FinishRows ==
    ASSUME TypeOK, NEW t, Finish(t)
    PROVE  /\ SameRowsKept
           /\ \A o \in DOMAIN orders :
                 /\ orders'[o].done = orders[o].done /\ orders'[o].paid = orders[o].paid
                 /\ orders'[o].cancelled = orders[o].cancelled
                 /\ Finishable(o, t) => /\ orders'[o].status = "COMPLETED"
                                        /\ orders'[o].notes = orders[o].notes \cup {"bill"}
                 /\ ~Finishable(o, t) => /\ orders'[o].status = orders[o].status
                                         /\ orders'[o].notes = orders[o].notes
<1> DEFINE f == [o \in DOMAIN orders |->
                    IF o \in {p \in DOMAIN orders : Finishable(p, t)}
                    THEN [orders[o] EXCEPT !.status = "COMPLETED",
                                           !.notes = @ \cup {"bill"}]
                    ELSE orders[o]]
<1>1. orders' = f
  BY DEF Finish, Changed
<1>2. ASSUME NEW o \in DOMAIN orders
      PROVE  /\ f[o] \in Order /\ SamePlace(orders[o], f[o])
             /\ f[o].done = orders[o].done /\ f[o].paid = orders[o].paid
             /\ f[o].cancelled = orders[o].cancelled
             /\ Finishable(o, t) => /\ f[o].status = "COMPLETED"
                                    /\ f[o].notes = orders[o].notes \cup {"bill"}
             /\ ~Finishable(o, t) => /\ f[o].status = orders[o].status
                                     /\ f[o].notes = orders[o].notes
  <2>1. orders[o] \in Order
    BY OrderRow
  <2>2. CASE Finishable(o, t)
    <3>1. f[o] = [orders[o] EXCEPT !.status = "COMPLETED", !.notes = @ \cup {"bill"}]
      BY <2>2
    <3>2. QED
      BY <2>1, <2>2, <3>1 DEF Order, OrderStatus, SamePlace
  <2>3. CASE ~Finishable(o, t)
    BY <2>1, <2>3 DEF SamePlace
  <2>4. QED
    BY <2>2, <2>3
<1>3. f = [o \in DOMAIN orders |-> f[o]]
  OBVIOUS
<1> HIDE DEF f
<1>4. QED
  BY <1>1, <1>2, <1>3, ChangedType DEF SameRowsKept

LEMMA CookedType ==
    ASSUME NEW x \in Order, NEW D, NEW b \in BOOLEAN
    PROVE  LET y == Cooked(x, D, b) IN
           /\ y \in Order /\ y.table = x.table /\ y.seat = x.seat /\ y.notes = x.notes
           /\ y.status = x.status /\ y.paid = x.paid /\ y.cancelled = x.cancelled
           /\ \A d \in Dishes : y.done[d] = IF d \in D THEN b ELSE x.done[d]
  BY DEF Order, Cooked

LEMMA BumpWriteRows ==
    ASSUME TInv, NEW r \in Requests, BumpWrite(r)
    PROVE  /\ SameRowsKept
           /\ \A o \in DOMAIN orders :
                 /\ orders'[o].paid = orders[o].paid
                 /\ orders'[o].status = orders[o].status
                 /\ orders'[o].cancelled = orders[o].cancelled
                 /\ o # req[r].order => orders'[o] = orders[o]
                 /\ o = req[r].order =>
                       /\ orders'[o].notes \ {"undone"} = orders[o].notes \ {"undone"}
                       /\ \/ "undone" \in orders'[o].notes
                          \/ \A d \in Dishes : orders[o].done[d] => orders'[o].done[d]
                       /\ ~req[r].done =>
                             \A d \in Dishes : orders'[o].done[d] => orders[o].done[d]
<1> DEFINE h == req[r]
           y(x) == [Cooked(x, h.dish, h.done) EXCEPT
                      !.notes = IF ~h.done /\ \E d \in h.dish : x.done[d]
                                THEN @ \cup {"undone"} ELSE @]
           f == [o \in DOMAIN orders |-> IF o \in {h.order} THEN y(orders[o]) ELSE orders[o]]
<1>1. orders' = f
  BY DEF BumpWrite, Changed
<1>2. h.done \in BOOLEAN /\ h.dish \subseteq Dishes
  BY DEF TInv, TypeOK, Handler
<1>3. ASSUME NEW o \in DOMAIN orders
      PROVE  /\ f[o] \in Order /\ SamePlace(orders[o], f[o])
             /\ f[o].paid = orders[o].paid /\ f[o].status = orders[o].status
             /\ f[o].cancelled = orders[o].cancelled
             /\ o # h.order => f[o] = orders[o]
             /\ o = h.order =>
                  /\ f[o].notes \ {"undone"} = orders[o].notes \ {"undone"}
                  /\ \/ "undone" \in f[o].notes
                     \/ \A d \in Dishes : orders[o].done[d] => f[o].done[d]
                  /\ ~h.done => \A d \in Dishes : f[o].done[d] => orders[o].done[d]
  <2>1. orders[o] \in Order
    BY OrderRow DEF TInv
  <2>2. CASE o # h.order
    BY <2>1, <2>2 DEF SamePlace
  <2>3. CASE o = h.order
    <3> DEFINE z == Cooked(orders[o], h.dish, h.done)
    <3>1. /\ z \in Order /\ z.table = orders[o].table /\ z.seat = orders[o].seat
          /\ z.notes = orders[o].notes
          /\ z.status = orders[o].status /\ z.paid = orders[o].paid
          /\ z.cancelled = orders[o].cancelled
          /\ \A d \in Dishes : z.done[d] = IF d \in h.dish THEN h.done ELSE orders[o].done[d]
      BY <1>2, <2>1, CookedType
    <3>2. f[o] = [z EXCEPT !.notes = IF ~h.done /\ \E d \in h.dish : orders[o].done[d]
                                     THEN @ \cup {"undone"} ELSE @]
      BY <2>3
    <3> HIDE DEF z, h, f
    <3>3. /\ f[o] \in Order /\ f[o].table = z.table /\ f[o].seat = z.seat
          /\ f[o].status = z.status /\ f[o].paid = z.paid /\ f[o].cancelled = z.cancelled
          /\ f[o].done = z.done
          /\ f[o].notes = IF ~h.done /\ \E d \in h.dish : orders[o].done[d]
                          THEN z.notes \cup {"undone"} ELSE z.notes
      <4>1. CASE ~h.done /\ \E d \in h.dish : orders[o].done[d]
        <5>1. f[o] = [z EXCEPT !.notes = @ \cup {"undone"}]
          BY <3>2, <4>1
        <5>2. QED
          BY <3>1, <4>1, <5>1 DEF Order
      <4>2. CASE ~(~h.done /\ \E d \in h.dish : orders[o].done[d])
        <5>1. f[o] = z
          BY <3>1, <3>2, <4>2 DEF Order
        <5>2. QED
          BY <3>1, <4>2, <5>1
      <4>3. QED
        BY <4>1, <4>2
    <3>4. /\ f[o].notes \ {"undone"} = orders[o].notes \ {"undone"}
          /\ SamePlace(orders[o], f[o])
      BY <3>1, <3>3 DEF SamePlace
    <3>5. \/ "undone" \in f[o].notes
          \/ \A d \in Dishes : orders[o].done[d] => f[o].done[d]
      BY <1>2, <3>1, <3>3
    <3>6. ~h.done => \A d \in Dishes : f[o].done[d] => orders[o].done[d]
      BY <1>2, <3>1, <3>3
    <3>7. QED
      BY <2>3, <3>1, <3>3, <3>4, <3>5, <3>6
  <2>4. QED
    BY <2>2, <2>3
<1>4. f = [o \in DOMAIN orders |-> f[o]]
  OBVIOUS
<1> HIDE DEF f
<1>5. QED
  BY <1>1, <1>3, <1>4, ChangedType DEF SameRowsKept, TInv

LEMMA BumpCompleteRows ==
    ASSUME TypeOK, NEW r \in Requests, BumpComplete(r)
    PROVE  /\ SameRowsKept
           /\ \A o \in DOMAIN orders :
                 /\ orders'[o].done = orders[o].done /\ orders'[o].paid = orders[o].paid
                 /\ orders'[o].cancelled = orders[o].cancelled
                 /\ orders'[o].notes = orders[o].notes
                 /\ orders'[o].status = IF o = req[r].order THEN "COMPLETED"
                                                            ELSE orders[o].status
<1> DEFINE f == [o \in DOMAIN orders |->
                    IF o \in {req[r].order} THEN [orders[o] EXCEPT !.status = "COMPLETED"]
                                            ELSE orders[o]]
<1>1. orders' = f
  BY DEF BumpComplete, Changed
<1>2. ASSUME NEW o \in DOMAIN orders
      PROVE  /\ f[o] \in Order /\ SamePlace(orders[o], f[o])
             /\ f[o].done = orders[o].done /\ f[o].paid = orders[o].paid
             /\ f[o].cancelled = orders[o].cancelled
             /\ f[o].notes = orders[o].notes
             /\ f[o].status = IF o = req[r].order THEN "COMPLETED" ELSE orders[o].status
  <2>1. orders[o] \in Order
    BY OrderRow
  <2>2. CASE o = req[r].order
    <3>1. f[o] = [orders[o] EXCEPT !.status = "COMPLETED"]
      BY <2>2
    <3>2. QED
      BY <2>1, <2>2, <3>1 DEF Order, OrderStatus, SamePlace
  <2>3. CASE o # req[r].order
    BY <2>1, <2>3 DEF SamePlace
  <2>4. QED
    BY <2>2, <2>3
<1>3. f = [o \in DOMAIN orders |-> f[o]]
  OBVIOUS
<1> HIDE DEF f
<1>4. QED
  BY <1>1, <1>2, <1>3, ChangedType DEF SameRowsKept

LEMMA AbortRows ==
    ASSUME TypeOK, NEW r \in Requests, Abort(r)
    PROVE  /\ SameRowsKept
           /\ \A o \in DOMAIN orders :
                 /\ orders'[o].done = orders[o].done /\ orders'[o].paid = orders[o].paid
                 /\ orders'[o].cancelled = orders[o].cancelled
                 /\ orders'[o].status = orders[o].status
                 /\ orders'[o].notes = IF o = req[r].order THEN orders[o].notes \cup {"fault"}
                                                           ELSE orders[o].notes
<1> DEFINE f == [o \in DOMAIN orders |->
                    IF o \in {req[r].order}
                    THEN [orders[o] EXCEPT !.notes = @ \cup {"fault"}] ELSE orders[o]]
<1>1. orders' = f
  BY DEF Abort, Changed
<1>2. ASSUME NEW o \in DOMAIN orders
      PROVE  /\ f[o] \in Order /\ SamePlace(orders[o], f[o])
             /\ f[o].done = orders[o].done /\ f[o].paid = orders[o].paid
             /\ f[o].cancelled = orders[o].cancelled
             /\ f[o].status = orders[o].status
             /\ f[o].notes = IF o = req[r].order THEN orders[o].notes \cup {"fault"}
                                                 ELSE orders[o].notes
  <2>1. orders[o] \in Order
    BY OrderRow
  <2>2. CASE o = req[r].order
    <3>1. f[o] = [orders[o] EXCEPT !.notes = @ \cup {"fault"}]
      BY <2>2
    <3>2. QED
      BY <2>1, <2>2, <3>1 DEF Order, SamePlace
  <2>3. CASE o # req[r].order
    BY <2>1, <2>3 DEF SamePlace
  <2>4. QED
    BY <2>2, <2>3
<1>3. f = [o \in DOMAIN orders |-> f[o]]
  OBVIOUS
<1> HIDE DEF f
<1>4. QED
  BY <1>1, <1>2, <1>3, ChangedType DEF SameRowsKept

\* A write to one order.
LEMMA OneRow ==
    ASSUME TypeOK, NEW o \in DOMAIN orders, NEW x \in Order, SamePlace(orders[o], x),
           orders' = [orders EXCEPT ![o] = x]
    PROVE  SameRowsKept /\ orders'[o] = x
           /\ \A p \in DOMAIN orders : p # o => orders'[p] = orders[p]
<1>1. orders' = [p \in DOMAIN orders |-> IF p = o THEN x ELSE orders[p]]
  BY OrderRow
<1> DEFINE f == [p \in DOMAIN orders |-> IF p = o THEN x ELSE orders[p]]
<1>2. \A p \in DOMAIN orders : f[p] \in Order /\ SamePlace(orders[p], f[p])
  BY OrderRow DEF SamePlace
<1>3. f = [p \in DOMAIN orders |-> f[p]] /\ f[o] = x
      /\ \A p \in DOMAIN orders : p # o => f[p] = orders[p]
  OBVIOUS
<1>4. orders' = f
  BY <1>1
<1> HIDE DEF f
<1>5. QED
  BY <1>2, <1>3, <1>4, ChangedType DEF SameRowsKept

LEMMA SetStatusRows ==
    ASSUME TypeOK, NEW o \in DOMAIN orders, NEW s \in OrderStatus, SetOrderStatus(o, s)
    PROVE  /\ SameRowsKept
           /\ \A p \in DOMAIN orders : p # o => orders'[p] = orders[p]
           /\ orders'[o].done = orders[o].done /\ orders'[o].paid = orders[o].paid
           /\ orders'[o].status = s
           /\ orders'[o].cancelled = (orders[o].cancelled \/ s = "CANCELLED")
           /\ orders'[o].notes = orders[o].notes \cup
                 (IF s # "CANCELLED" THEN {"staff"}
                  ELSE IF Bumping(o) THEN {"overtaken"} ELSE {})
<1> DEFINE why == IF s # "CANCELLED" THEN {"staff"}
                  ELSE IF Bumping(o) THEN {"overtaken"} ELSE {}
           c == orders[o].cancelled \/ s = "CANCELLED"
           x == [orders[o] EXCEPT !.status = s, !.cancelled = c, !.notes = @ \cup why]
<1>1. orders[o] \in Order
  BY OrderRow
<1>2. why \subseteq {"staff", "overtaken"} /\ c \in BOOLEAN
  BY <1>1 DEF Order
<1>3. orders' = [orders EXCEPT ![o] = x]
  BY DEF SetOrderStatus
<1> HIDE DEF why, c
<1>4. /\ x \in Order /\ x.table = orders[o].table /\ x.seat = orders[o].seat
      /\ x.status = s /\ x.done = orders[o].done /\ x.paid = orders[o].paid
      /\ x.cancelled = c /\ x.notes = orders[o].notes \cup why
  BY <1>1, <1>2 DEF Order
<1> HIDE DEF x
<1>5. SamePlace(orders[o], x)
  BY <1>4 DEF SamePlace
<1>6. QED
  BY <1>3, <1>4, <1>5, OneRow DEF why, c

LEMMA SetDishRows ==
    ASSUME TypeOK, NEW o \in DOMAIN orders, NEW d \in Dishes, NEW b \in BOOLEAN,
           SetDish(o, d, b)
    PROVE  /\ SameRowsKept
           /\ \A p \in DOMAIN orders : p # o => orders'[p] = orders[p]
           /\ orders'[o].status = orders[o].status /\ orders'[o].paid = orders[o].paid
           /\ orders'[o].cancelled = orders[o].cancelled
           /\ orders'[o].notes = orders[o].notes \cup {"staff"}
<1> DEFINE z == Cooked(orders[o], {d}, b)
           x == [z EXCEPT !.notes = @ \cup {"staff"}]
<1>1. orders[o] \in Order
  BY OrderRow
<1>2. /\ z \in Order /\ z.table = orders[o].table /\ z.seat = orders[o].seat
      /\ z.notes = orders[o].notes /\ z.status = orders[o].status
      /\ z.paid = orders[o].paid /\ z.cancelled = orders[o].cancelled
  BY <1>1, CookedType
<1>3. orders' = [orders EXCEPT ![o] = x]
  BY DEF SetDish
<1> HIDE DEF z
<1>4. /\ x \in Order /\ x.table = z.table /\ x.seat = z.seat
      /\ x.status = z.status /\ x.paid = z.paid
      /\ x.cancelled = z.cancelled /\ x.notes = z.notes \cup {"staff"}
  BY <1>2 DEF Order
<1> HIDE DEF x
<1>5. SamePlace(orders[o], x)
  BY <1>2, <1>4 DEF SamePlace
<1>6. QED
  BY <1>2, <1>3, <1>4, <1>5, OneRow

LEMMA PayRows ==
    ASSUME TypeOK, NEW o \in DOMAIN orders, Pay(o)
    PROVE  /\ SameRowsKept
           /\ \A p \in DOMAIN orders : p # o => orders'[p] = orders[p]
           /\ orders'[o].done = orders[o].done
           /\ orders'[o].status = orders[o].status
           /\ orders'[o].cancelled = orders[o].cancelled
           /\ orders'[o].notes = orders[o].notes
<1> DEFINE x == [orders[o] EXCEPT !.paid = ~@]
<1>1. orders[o] \in Order
  BY OrderRow
<1>2. orders' = [orders EXCEPT ![o] = x]
  BY DEF Pay
<1>3. /\ x \in Order /\ x.table = orders[o].table /\ x.seat = orders[o].seat
      /\ x.status = orders[o].status /\ x.done = orders[o].done
      /\ x.cancelled = orders[o].cancelled /\ x.notes = orders[o].notes
  BY <1>1 DEF Order
<1> HIDE DEF x
<1>4. SamePlace(orders[o], x)
  BY <1>3 DEF SamePlace
<1>5. QED
  BY <1>2, <1>3, <1>4, OneRow

LEMMA CreateRows ==
    ASSUME TInv, NEW t \in Tables, CreateOrder(t)
    PROVE  /\ orders' \in Seq(Order) /\ Len(orders') = Len(orders) + 1
           /\ DOMAIN orders' = DOMAIN orders \cup {Len(orders) + 1}
           /\ Len(orders) + 1 \notin DOMAIN orders
           /\ \A o \in DOMAIN orders : orders'[o] = orders[o]
           /\ LET x == orders'[Len(orders) + 1] IN
              /\ x.table = t /\ x.status = "PREPARING" /\ ~x.cancelled
              /\ x.done = [d \in Dishes |-> FALSE] /\ x.seat \in {0} \cup OpenAt(t)
<1>1. orders \in Seq(Order) /\ sessions \in Seq(Session)
  BY DEF TInv, TypeOK
<1>2. DOMAIN sessions = 1..Len(sessions) /\ Len(sessions) \in Nat
  BY <1>1
<1>3. PICK i \in {0} \cup OpenAt(t) :
         orders' = Append(orders,
                       [ table |-> t, status |-> "PREPARING",
                         done |-> [d \in Dishes |-> FALSE], paid |-> FALSE,
                         seat |-> i, cancelled |-> FALSE, notes |-> {} ])
  BY DEF CreateOrder
<1>4. i \in Nat
  BY <1>2 DEF OpenAt
<1> DEFINE x == [ table |-> t, status |-> "PREPARING",
                  done |-> [d \in Dishes |-> FALSE], paid |-> FALSE,
                  seat |-> i, cancelled |-> FALSE, notes |-> {} ]
<1>5. /\ x \in Order /\ x.table = t /\ x.status = "PREPARING" /\ ~x.cancelled
      /\ x.done = [d \in Dishes |-> FALSE] /\ x.seat = i
  BY <1>4 DEF Order, OrderStatus
<1>6. orders' = Append(orders, x)
  BY <1>3
<1> HIDE DEF x
<1>7. /\ orders' \in Seq(Order) /\ Len(orders') = Len(orders) + 1
      /\ DOMAIN orders' = DOMAIN orders \cup {Len(orders) + 1}
      /\ Len(orders) + 1 \notin DOMAIN orders
      /\ \A o \in DOMAIN orders : orders'[o] = orders[o]
      /\ orders'[Len(orders) + 1] = x
  <2>1. Len(orders) \in Nat /\ DOMAIN orders = 1..Len(orders)
    BY <1>1
  <2>2. orders' \in Seq(Order) /\ Len(orders') = Len(orders) + 1
    BY <1>1, <1>5, <1>6
  <2>3. DOMAIN orders' = 1..(Len(orders) + 1)
    BY <2>2
  <2>4. /\ \A o \in DOMAIN orders : orders'[o] = orders[o]
        /\ orders'[Len(orders) + 1] = x
    BY <1>1, <1>5, <1>6, <2>1
  <2>5. QED
    BY <2>1, <2>2, <2>3, <2>4
<1>8. QED
  BY <1>3, <1>5, <1>7

-----------------------------------------------------------------------------
\* A step that only changes orders in their place leaves the handlers fit.
LEMMA EditedShape ==
    ASSUME TInv, SameRowsKept, sessions' = sessions
    PROVE  /\ sessions' \in Seq(Session) /\ orders' \in Seq(Order)
           /\ Len(sessions) <= Len(sessions') /\ Len(orders) <= Len(orders')
           /\ \A i \in DOMAIN sessions : sessions'[i].table = sessions[i].table
<1>1. sessions \in Seq(Session) /\ orders \in Seq(Order)
  BY DEF TInv, TypeOK
<1>2. Len(sessions) \in Nat /\ Len(orders) \in Nat
  BY <1>1
<1>3. QED
  BY <1>1, <1>2 DEF SameRowsKept

LEMMA UnmergeSteps ==
    ASSUME TInv, NEW r \in Requests,
           \/ \E t \in Tables : Unmerge(r, t)
           \/ UnmergeFree(r) \/ UnmergeWrite(r)
    PROVE  TInv'
<1> USE DEF TInv
<1>1. ASSUME NEW t \in Tables, Unmerge(r, t) PROVE TInv'
  <2> DEFINE h == [Idle EXCEPT
                    !.pc = IF merged[t] = {} THEN "unmergeWrite" ELSE "unmergeFree",
                    !.table = t, !.at = {t} \cup merged[t]]
  <2>0. merged[t] \subseteq Tables
    BY DEF TypeOK
  <2>1. h \in Handler
    BY <2>0 DEF Idle, Handler
  <2>2. Shape(h, sessions, orders)
    BY DEF Idle, Shape, OpenPcs, ClosePcs, MovePcs, UnmergePcs, BumpPcs
  <2>3. req' = [req EXCEPT ![r] = h] /\ UNCHANGED <<status, merged, sessions, orders, bills>>
    BY <1>1 DEF Unmerge, Begin
  <2> HIDE DEF h
  <2>4. /\ req' \in [Requests -> Handler]
        /\ \A q \in Requests : Shape(req'[q], sessions', orders')
    BY <2>1, <2>2, <2>3, BeginSame
  <2>5. excuses' \in [Tables -> SUBSET Excuses]
    <3>1. Overlap({t} \cup merged[t]) \in [Tables -> SUBSET Excuses]
      BY OverlapType
    <3>2. excuses' = Note(Overlap({t} \cup merged[t]), "unmerged", {t} \cup merged[t], TRUE)
      BY <1>1 DEF Unmerge
    <3>3. "unmerged" \in Excuses
      BY DEF Excuses
    <3>4. QED
      BY <3>1, <3>2, <3>3, NoteType
  <2>6. budget' \in [Kinds -> Nat]
    BY <1>1, SpendType DEF Unmerge, Kinds
  <2>7. QED
    BY <2>3, <2>4, <2>5, <2>6 DEF TypeOK
<1>2. ASSUME UnmergeFree(r) PROVE TInv'
  <2>1. UNCHANGED <<merged, sessions, orders, bills, excuses, budget>>
    BY <1>2 DEF UnmergeFree
  <2>2. /\ req' \in [Requests -> Handler]
        /\ \A q \in Requests : Shape(req'[q], sessions', orders')
    BY <1>2, <2>1, GotoSame DEF UnmergeFree, UnmergePcs
  <2>3. status' \in [Tables -> TableStatus]
    BY <1>2 DEF UnmergeFree, TypeOK, TableStatus
  <2>4. QED
    BY <2>1, <2>2, <2>3 DEF TypeOK
<1>3. ASSUME UnmergeWrite(r) PROVE TInv'
  <2>1. UNCHANGED <<sessions, orders, bills, excuses, budget>>
    BY <1>3 DEF UnmergeWrite
  <2>2. /\ req' \in [Requests -> Handler]
        /\ \A q \in Requests : Shape(req'[q], sessions', orders')
    BY <1>3, <2>1, EndSame DEF UnmergeWrite
  <2>3. status' \in [Tables -> TableStatus] /\ merged' \in [Tables -> SUBSET Tables]
    BY <1>3 DEF UnmergeWrite, TypeOK, TableStatus
  <2>4. QED
    BY <2>1, <2>2, <2>3 DEF TypeOK
<1>4. QED
  BY <1>1, <1>2, <1>3

LEMMA BillSteps ==
    ASSUME TInv, NEW r \in Requests,
           \/ \E t \in Tables : CreateBill(r, t)
           \/ \E b \in DOMAIN bills, s \in {"PENDING", "COMPLETED"} : AnswerBill(r, b, s)
           \/ BillMark(r) \/ AnswerOrders(r)
    PROVE  TInv'
<1> USE DEF TInv
<1>0. bills \in Seq(Bill)
  BY DEF TypeOK
<1>1. ASSUME NEW t \in Tables, CreateBill(r, t) PROVE TInv'
  <2> DEFINE h == [Idle EXCEPT !.pc = "billMark", !.table = t, !.at = {t}]
  <2>1. h \in Handler
    BY DEF Idle, Handler
  <2>2. Shape(h, sessions, orders)
    BY DEF Idle, Shape, OpenPcs, ClosePcs, MovePcs, UnmergePcs, BumpPcs
  <2>3. req' = [req EXCEPT ![r] = h] /\ UNCHANGED <<status, merged, sessions, orders>>
    BY <1>1 DEF CreateBill, Begin
  <2> HIDE DEF h
  <2>4. /\ req' \in [Requests -> Handler]
        /\ \A q \in Requests : Shape(req'[q], sessions', orders')
    BY <2>1, <2>2, <2>3, BeginSame
  <2>5. excuses' \in [Tables -> SUBSET Excuses]
    <3>1. Overlap({t}) \in [Tables -> SUBSET Excuses] /\ "bill" \in Excuses
      BY OverlapType DEF Excuses
    <3>2. excuses' = Note(Overlap({t}), "bill", {t}, TRUE)
      BY <1>1 DEF CreateBill
    <3>3. QED
      BY <3>1, <3>2, NoteType
  <2>6. budget' \in [Kinds -> Nat]
    BY <1>1, SpendType DEF CreateBill, Kinds
  <2>7. bills' \in Seq(Bill)
    <3>1. [table |-> t, status |-> "PENDING"] \in Bill
      BY DEF Bill
    <3>2. bills' = Append(bills, [table |-> t, status |-> "PENDING"])
      BY <1>1 DEF CreateBill
    <3>3. QED
      BY <1>0, <3>1, <3>2
  <2>8. QED
    BY <2>3, <2>4, <2>5, <2>6, <2>7 DEF TypeOK
<1>2. ASSUME NEW b \in DOMAIN bills, NEW s \in {"PENDING", "COMPLETED"}, AnswerBill(r, b, s)
      PROVE  TInv'
  <2>1. UNCHANGED <<status, merged, sessions, orders, excuses>>
    BY <1>2 DEF AnswerBill
  <2>2. bills[b] \in Bill
    BY <1>0
  <2>3. bills' \in Seq(Bill)
    <3>1. [bills[b] EXCEPT !.status = s] \in Bill
      BY <2>2 DEF Bill
    <3>2. bills' = [bills EXCEPT ![b] = [bills[b] EXCEPT !.status = s]]
      BY <1>2 DEF AnswerBill
    <3>3. QED
      BY <1>0, <3>1, <3>2
  <2>4. budget' \in [Kinds -> Nat]
    BY <1>2, SpendType DEF AnswerBill, Kinds
  <2>5. /\ req' \in [Requests -> Handler]
        /\ \A q \in Requests : Shape(req'[q], sessions', orders')
    <3> DEFINE h == [Idle EXCEPT !.pc = "answerOrders", !.table = bills[b].table]
    <3>1. bills[b].table \in Tables
      BY <2>2 DEF Bill
    <3>2. h \in Handler /\ Shape(h, sessions, orders)
      BY <3>1 DEF Idle, Handler, Shape, OpenPcs, ClosePcs, MovePcs, UnmergePcs, BumpPcs
    <3>3. req' = req \/ req' = [req EXCEPT ![r] = h]
      BY <1>2 DEF AnswerBill, Begin
    <3> HIDE DEF h
    <3>4. CASE req' = req
      BY <2>1, <3>4 DEF TypeOK
    <3>5. CASE req' = [req EXCEPT ![r] = h]
      BY <2>1, <3>2, <3>5, BeginSame
    <3>6. QED
      BY <3>3, <3>4, <3>5
  <2>6. QED
    BY <2>1, <2>3, <2>4, <2>5 DEF TypeOK
<1>3. ASSUME BillMark(r) PROVE TInv'
  <2>1. UNCHANGED <<merged, sessions, orders, bills, excuses, budget>>
    BY <1>3 DEF BillMark
  <2>2. /\ req' \in [Requests -> Handler]
        /\ \A q \in Requests : Shape(req'[q], sessions', orders')
    BY <1>3, <2>1, EndSame DEF BillMark
  <2>3. status' \in [Tables -> TableStatus]
    BY <1>3 DEF BillMark, TypeOK, TableStatus
  <2>4. QED
    BY <2>1, <2>2, <2>3 DEF TypeOK
<1>4. ASSUME AnswerOrders(r) PROVE TInv'
  <2>1. UNCHANGED <<status, merged, sessions, bills, excuses, budget>>
    BY <1>4 DEF AnswerOrders
  <2>2. SameRowsKept
    BY <1>4, FinishRows DEF AnswerOrders
  <2>3. /\ req' \in [Requests -> Handler]
        /\ \A q \in Requests : Shape(req'[q], sessions', orders')
    BY <1>4, <2>1, <2>2, EditedShape, EndSlot DEF AnswerOrders
  <2>4. QED
    BY <2>1, <2>2, <2>3 DEF TypeOK, SameRowsKept
<1>5. QED
  BY <1>1, <1>2, <1>3, <1>4

LEMMA BumpSteps ==
    ASSUME TInv, NEW r \in Requests,
           \/ \E o \in DOMAIN orders, d \in Dishes, done \in BOOLEAN : Bump(r, o, d, done)
           \/ BumpWrite(r) \/ BumpCheck(r) \/ BumpComplete(r)
    PROVE  TInv'
<1> USE DEF TInv
<1>1. ASSUME NEW o \in DOMAIN orders, NEW d \in Dishes, NEW b \in BOOLEAN, Bump(r, o, d, b)
      PROVE  TInv'
  <2> DEFINE h == [Idle EXCEPT !.pc = "bumpWrite", !.order = o, !.dish = {d},
                               !.done = b,
                               !.preparing = orders[o].status = "PREPARING"]
  <2>0. o \in Nat
    BY OrderRow
  <2>1. h \in Handler
    BY <2>0 DEF Idle, Handler
  <2>2. Shape(h, sessions, orders)
    BY DEF Idle, Shape, OpenPcs, ClosePcs, MovePcs, UnmergePcs, BumpPcs
  <2>3. /\ req' = [req EXCEPT ![r] = h]
        /\ UNCHANGED <<status, merged, sessions, orders, bills, excuses>>
    BY <1>1 DEF Bump, Begin
  <2> HIDE DEF h
  <2>4. /\ req' \in [Requests -> Handler]
        /\ \A q \in Requests : Shape(req'[q], sessions', orders')
    BY <2>1, <2>2, <2>3, BeginSame
  <2>5. budget' \in [Kinds -> Nat]
    BY <1>1, SpendType DEF Bump, Kinds
  <2>6. QED
    BY <2>3, <2>4, <2>5 DEF TypeOK
<1>2. ASSUME BumpWrite(r) PROVE TInv'
  <2>1. UNCHANGED <<status, merged, sessions, bills, excuses, budget>> /\ Goto(r, "bumpCheck")
        /\ req[r].pc = "bumpWrite"
    BY <1>2 DEF BumpWrite
  <2>2. SameRowsKept
    BY <1>2, BumpWriteRows
  <2>3. /\ req' \in [Requests -> Handler]
        /\ \A q \in Requests : Shape(req'[q], sessions', orders')
    BY <2>1, <2>2, EditedShape, GotoShape DEF BumpPcs
  <2>4. QED
    BY <2>1, <2>2, <2>3 DEF TypeOK, SameRowsKept
<1>3. ASSUME BumpCheck(r) PROVE TInv'
  <2>1. UNCHANGED <<status, merged, sessions, orders, bills, excuses, budget>>
    BY <1>3 DEF BumpCheck
  <2>2. /\ req' \in [Requests -> Handler]
        /\ \A q \in Requests : Shape(req'[q], sessions', orders')
    BY <1>3, <2>1, EndSame, GotoSame DEF BumpCheck, BumpPcs
  <2>3. QED
    BY <2>1, <2>2 DEF TypeOK
<1>4. ASSUME BumpComplete(r) PROVE TInv'
  <2>1. UNCHANGED <<status, merged, sessions, bills, excuses, budget>> /\ End(r)
    BY <1>4 DEF BumpComplete
  <2>2. SameRowsKept
    BY <1>4, BumpCompleteRows
  <2>3. /\ req' \in [Requests -> Handler]
        /\ \A q \in Requests : Shape(req'[q], sessions', orders')
    BY <2>1, <2>2, EditedShape, EndSlot
  <2>4. QED
    BY <2>1, <2>2, <2>3 DEF TypeOK, SameRowsKept
<1>5. QED
  BY <1>1, <1>2, <1>3, <1>4

LEMMA AbortStep ==
    ASSUME TInv, NEW r \in Requests, Abort(r)
    PROVE  TInv'
<1> USE DEF TInv
<1>1. UNCHANGED <<status, merged, sessions, bills>> /\ End(r)
  BY DEF Abort
<1>2. SameRowsKept
  BY AbortRows
<1>3. /\ req' \in [Requests -> Handler]
      /\ \A q \in Requests : Shape(req'[q], sessions', orders')
  BY <1>1, <1>2, EditedShape, EndSlot
<1>4. excuses' \in [Tables -> SUBSET Excuses]
  <2>1. excuses \in [Tables -> SUBSET Excuses] /\ "fault" \in Excuses
    BY DEF TypeOK, Excuses
  <2>2. excuses' = Note(excuses, "fault", req[r].at, TRUE)
    BY DEF Abort
  <2>3. QED
    BY <2>1, <2>2, NoteType
<1>5. budget' \in [Kinds -> Nat]
  BY SpendType DEF Abort, Kinds
<1>6. QED
  BY <1>1, <1>2, <1>3, <1>4, <1>5 DEF TypeOK, SameRowsKept

LEMMA TableSteps ==
    ASSUME TInv, NEW t \in Tables, TableStep(t)
    PROVE  TInv'
<1> USE DEF TInv
<1>1. ASSUME NEW S \in SUBSET Tables, Merge(t, S) PROVE TInv'
  <2>1. UNCHANGED <<sessions, orders, bills, req, excuses>>
    BY <1>1 DEF Merge
  <2>2. merged' \in [Tables -> SUBSET Tables] /\ status' \in [Tables -> TableStatus]
    BY <1>1 DEF Merge, TypeOK, TableStatus
  <2>3. budget' \in [Kinds -> Nat]
    BY <1>1, SpendType DEF Merge, Kinds
  <2>4. QED
    BY <2>1, <2>2, <2>3 DEF TypeOK
<1>2. ASSUME NEW s \in TableStatus, NEW S \in SUBSET Tables, SetTableStatus(t, s, S)
      PROVE  TInv'
  <2>1. UNCHANGED <<sessions, orders, bills, req>>
    BY <1>2 DEF SetTableStatus
  <2>2. status' \in [Tables -> TableStatus] /\ merged' \in [Tables -> SUBSET Tables]
    BY <1>2 DEF SetTableStatus, TypeOK
  <2>3. budget' \in [Kinds -> Nat]
    BY <1>2, SpendType DEF SetTableStatus, Kinds
  <2>4. excuses' \in [Tables -> SUBSET Excuses]
    <3>1. excuses \in [Tables -> SUBSET Excuses] /\ "staff" \in Excuses
      BY DEF TypeOK, Excuses
    <3>2. \E c : excuses' = Note(excuses, "staff", {t}, c)
      BY <1>2 DEF SetTableStatus
    <3>3. QED
      BY <3>1, <3>2, NoteType
  <2>5. QED
    BY <2>1, <2>2, <2>3, <2>4 DEF TypeOK
<1>3. ASSUME CompleteOrdersByTable(t) PROVE TInv'
  <2>1. UNCHANGED <<status, merged, sessions, bills, req, excuses>>
    BY <1>3 DEF CompleteOrdersByTable
  <2>2. SameRowsKept
    BY <1>3, FinishRows DEF CompleteOrdersByTable
  <2>3. /\ req' \in [Requests -> Handler]
        /\ \A q \in Requests : Shape(req'[q], sessions', orders')
    BY <2>1, <2>2, EditedShape, SlotsKept
  <2>4. budget' \in [Kinds -> Nat]
    BY <1>3, SpendType DEF CompleteOrdersByTable, Kinds
  <2>5. QED
    BY <2>1, <2>2, <2>3, <2>4 DEF TypeOK, SameRowsKept
<1>4. ASSUME CreateOrder(t) PROVE TInv'
  <2>1. UNCHANGED <<status, merged, sessions, bills, req>>
    BY <1>4 DEF CreateOrder
  <2>2. /\ sessions' \in Seq(Session) /\ orders' \in Seq(Order)
        /\ Len(sessions) <= Len(sessions') /\ Len(orders) <= Len(orders')
        /\ \A i \in DOMAIN sessions : sessions'[i].table = sessions[i].table
    <3>1. orders' \in Seq(Order) /\ Len(orders') = Len(orders) + 1
      BY <1>4, CreateRows
    <3>2. sessions \in Seq(Session) /\ Len(orders) \in Nat
      BY OrderRow DEF TypeOK
    <3>3. Len(sessions) \in Nat
      BY <3>2
    <3>4. QED
      BY <2>1, <3>1, <3>2, <3>3
  <2>3. /\ req' \in [Requests -> Handler]
        /\ \A q \in Requests : Shape(req'[q], sessions', orders')
    BY <2>1, <2>2, SlotsKept
  <2>4. budget' \in [Kinds -> Nat] /\ excuses' \in [Tables -> SUBSET Excuses]
    BY <1>4, SpendType, OverlapType DEF CreateOrder, Kinds
  <2>5. QED
    BY <2>1, <2>2, <2>3, <2>4 DEF TypeOK
<1>5. QED
  BY <1>1, <1>2, <1>3, <1>4 DEF TableStep

LEMMA OrderSteps ==
    ASSUME TInv, NEW o \in DOMAIN orders, OrderStep(o)
    PROVE  TInv'
<1> USE DEF TInv
<1>1. SameRowsKept
  BY SetStatusRows, SetDishRows, PayRows DEF OrderStep
<1>2. UNCHANGED <<status, merged, sessions, bills, req>>
  BY DEF OrderStep, SetOrderStatus, SetDish, Pay
<1>3. budget' \in [Kinds -> Nat]
  <2>1. \E k \in Kinds : Spend(k)
    BY DEF OrderStep, SetOrderStatus, SetDish, Pay, Kinds
  <2>2. QED
    BY <2>1, SpendType
<1>4. excuses' \in [Tables -> SUBSET Excuses]
  <2>1. excuses' = excuses \/ \E T : excuses' = Overlap(T)
    BY DEF OrderStep, SetOrderStatus, SetDish, Pay
  <2>2. QED
    BY <2>1, OverlapType DEF TypeOK
<1>5. /\ req' \in [Requests -> Handler]
      /\ \A q \in Requests : Shape(req'[q], sessions', orders')
  BY <1>1, <1>2, EditedShape, SlotsKept
<1>6. QED
  BY <1>1, <1>2, <1>3, <1>4, <1>5 DEF TypeOK, SameRowsKept

-----------------------------------------------------------------------------
LEMMA TInvInit == Init => TInv
<1> SUFFICES ASSUME Init PROVE TInv
  OBVIOUS
<1>1. TypeOK
  <2>1. req \in [Requests -> Handler]
    BY IdleType DEF Init
  <2>2. budget \in [Kinds -> Nat]
    BY FloorAssumption DEF Init
  <2>3. QED
    BY <2>1, <2>2 DEF Init, TypeOK, TableStatus
<1>2. \A r \in Requests : Shape(req[r], sessions, orders)
  BY IdleType DEF Init
<1>3. QED
  BY <1>1, <1>2 DEF TInv

LEMMA TInvNext == TInv /\ [Next]_vars => TInv'
<1> SUFFICES ASSUME TInv, [Next]_vars PROVE TInv'
  OBVIOUS
<1>1. ASSUME NEW r \in Requests, HandlerStep(r) PROVE TInv'
  BY <1>1, OpenSteps, CloseSteps, MoveSteps, CommitStep, UnmergeSteps, BillSteps, BumpSteps
     DEF HandlerStep
<1>2. ASSUME NEW r \in Requests, Abort(r) PROVE TInv'
  BY <1>2, AbortStep
<1>3. ASSUME NEW r \in Requests, KitchenRequest(r) PROVE TInv'
  BY <1>3, BillSteps, BumpSteps DEF KitchenRequest
<1>4. ASSUME NEW r \in Requests, NEW t \in Tables, NewRequest(r, t) PROVE TInv'
  BY <1>4, OpenSteps, CloseSteps, MoveSteps, UnmergeSteps, BillSteps DEF NewRequest
<1>5. ASSUME NEW t \in Tables, TableStep(t) PROVE TInv'
  BY <1>5, TableSteps
<1>6. ASSUME NEW o \in DOMAIN orders, OrderStep(o) PROVE TInv'
  BY <1>6, OrderSteps
<1>7. CASE UNCHANGED vars
  BY <1>7 DEF TInv, TypeOK, vars
<1>8. QED
  BY <1>1, <1>2, <1>3, <1>4, <1>5, <1>6, <1>7 DEF Next

\* The tables, the sessions, the orders with their dishes, the requests for the
\* bill and the running handlers keep their types.
THEOREM TypeCorrect == Spec => []TypeOK
<1>1. TInv => TypeOK
  BY DEF TInv
<1>2. QED
  BY TInvInit, TInvNext, <1>1, PTL DEF Spec

-----------------------------------------------------------------------------
\* The steps of handlers that are no bumps.
OtherStep(r) ==
    \/ \E t \in Tables : NewRequest(r, t)
    \/ \E b \in DOMAIN bills, s \in {"PENDING", "COMPLETED"} : AnswerBill(r, b, s)
    \/ OpenCheck(r) \/ OpenInsert(r) \/ OpenMark(r)
    \/ CloseWrite(r) \/ CloseMark(r)
    \/ MoveTo(r) \/ MoveSession(r) \/ MoveOrders(r) \/ MoveCommit(r)
    \/ UnmergeFree(r) \/ UnmergeWrite(r) \/ BillMark(r) \/ AnswerOrders(r)

OtherPcs == OpenPcs \cup ClosePcs \cup UnmergePcs
              \cup {"idle", "moveTo", "moveSession", "moveOrders", "billMark", "answerOrders"}

\* Where they are afterwards.
LEMMA OtherSlots ==
    ASSUME TInv, NEW r \in Requests, OtherStep(r)
    PROVE  /\ req[r].pc \notin BumpPcs
           /\ req' # req => \E h :
                 /\ req' = [req EXCEPT ![r] = h]
                 /\ \/ h.pc \in OtherPcs
                    \/ /\ h.pc = "moveCommit" /\ MoveOrders(r) /\ h.table = req[r].table
                       /\ h.todo = Owed(req[r].table)
<1>1. req \in [Requests -> Handler]
  BY DEF TInv, TypeOK
<1>2. ASSUME NEW t \in Tables, NewRequest(r, t)
      PROVE  \E h : Begin(r, h) /\ h.pc \in OtherPcs
  <2>1. CASE Open(r, t)
    <3> DEFINE h == [Idle EXCEPT
                       !.pc = IF status[t] = "OCCUPIED" THEN "openCheck" ELSE "openInsert",
                       !.table = t, !.at = {t}]
    <3>1. Begin(r, h) /\ h.pc \in {"openCheck", "openInsert"}
      BY <2>1 DEF Open, Idle
    <3> HIDE DEF h
    <3>2. QED
      BY <3>1 DEF OtherPcs, OpenPcs, UnmergePcs
  <2>2. CASE \E i \in DOMAIN sessions : Close(r, t, i)
    <3>1. PICK i : Begin(r, [Idle EXCEPT !.pc = "closeWrite", !.table = t, !.at = {t},
                                         !.session = i])
      BY <2>2 DEF Close
    <3>2. [Idle EXCEPT !.pc = "closeWrite", !.table = t, !.at = {t}, !.session = i].pc
             \in OtherPcs
      BY DEF Idle, OtherPcs, ClosePcs
    <3>3. QED
      BY <3>1, <3>2
  <2>3. CASE \E to \in Tables : Move(r, t, to)
    <3>1. PICK to : Begin(r, [Idle EXCEPT !.pc = "moveTo", !.table = t, !.to = to,
                                          !.at = {t, to}])
      BY <2>3 DEF Move
    <3>2. [Idle EXCEPT !.pc = "moveTo", !.table = t, !.to = to, !.at = {t, to}].pc
             \in OtherPcs
      BY DEF Idle, OtherPcs, ClosePcs
    <3>3. QED
      BY <3>1, <3>2
  <2>4. CASE Unmerge(r, t)
    <3> DEFINE h == [Idle EXCEPT
                       !.pc = IF merged[t] = {} THEN "unmergeWrite" ELSE "unmergeFree",
                       !.table = t, !.at = {t} \cup merged[t]]
    <3>1. Begin(r, h) /\ h.pc \in {"unmergeWrite", "unmergeFree"}
      BY <2>4 DEF Unmerge, Idle
    <3> HIDE DEF h
    <3>2. QED
      BY <3>1 DEF OtherPcs, OpenPcs, UnmergePcs
  <2>5. CASE CreateBill(r, t)
    <3> DEFINE h == [Idle EXCEPT !.pc = "billMark", !.table = t, !.at = {t}]
    <3>1. Begin(r, h) /\ h.pc = "billMark"
      BY <2>5 DEF CreateBill, Idle
    <3> HIDE DEF h
    <3>2. QED
      BY <3>1 DEF OtherPcs, OpenPcs, UnmergePcs
  <2>6. QED
    BY <1>2, <2>1, <2>2, <2>3, <2>4, <2>5 DEF NewRequest
<1>3. ASSUME NEW b \in DOMAIN bills, NEW s \in {"PENDING", "COMPLETED"},
             AnswerBill(r, b, s)
      PROVE  \/ \E h : Begin(r, h) /\ h.pc \in OtherPcs
             \/ req[r].pc = "idle" /\ req' = req
  <2> DEFINE h == [Idle EXCEPT !.pc = "answerOrders", !.table = bills[b].table]
  <2>1. h.pc \in OtherPcs
    BY DEF Idle, OtherPcs
  <2>2. Begin(r, h) \/ (req[r].pc = "idle" /\ req' = req)
    BY <1>3 DEF AnswerBill
  <2>3. QED
    BY <2>1, <2>2
<1>4. CASE \/ OpenCheck(r) \/ OpenInsert(r) \/ OpenMark(r)
           \/ CloseWrite(r) \/ CloseMark(r) \/ MoveTo(r)
           \/ UnmergeFree(r) \/ UnmergeWrite(r) \/ BillMark(r) \/ AnswerOrders(r)
  <2>1. req[r].pc \notin BumpPcs
    BY <1>4 DEF OpenCheck, OpenInsert, OpenMark, CloseWrite, CloseMark, MoveTo,
                UnmergeFree, UnmergeWrite, BillMark, AnswerOrders, BumpPcs
  <2>2. \/ req' = [req EXCEPT ![r] = Idle]
        \/ \E pc \in {"openInsert", "openMark", "closeMark", "moveSession", "unmergeWrite"} :
              Goto(r, pc)
    BY <1>4 DEF OpenCheck, OpenInsert, OpenMark, CloseWrite, CloseMark, MoveTo,
                UnmergeFree, UnmergeWrite, BillMark, AnswerOrders, End
  <2>3. Idle.pc \in OtherPcs
    BY DEF Idle, OtherPcs
  <2>4. CASE req' = [req EXCEPT ![r] = Idle]
    BY <2>1, <2>3, <2>4
  <2>5. ASSUME NEW pc \in {"openInsert", "openMark", "closeMark", "moveSession",
                           "unmergeWrite"}, Goto(r, pc)
        PROVE  \E h : req' = [req EXCEPT ![r] = h] /\ h.pc \in OtherPcs
    <3>1. \E h \in Handler : req' = [req EXCEPT ![r] = h] /\ h.pc = pc
      BY <2>5, GotoSlot
    <3>2. pc \in OtherPcs
      BY DEF OtherPcs, OpenPcs, ClosePcs, UnmergePcs
    <3>3. QED
      BY <3>1, <3>2
  <2>6. QED
    BY <2>1, <2>2, <2>4, <2>5
<1>5. CASE MoveSession(r)
  <2>1. PICK i : req' = [req EXCEPT ![r].pc = "moveOrders", ![r].session = i]
    BY <1>5 DEF MoveSession
  <2>2. req' = [req EXCEPT ![r] = [req[r] EXCEPT !.pc = "moveOrders", !.session = i]]
    BY <1>1, <2>1
  <2>3. [req[r] EXCEPT !.pc = "moveOrders", !.session = i].pc = "moveOrders"
    BY <1>1 DEF Handler
  <2>4. QED
    BY <1>5, <2>2, <2>3 DEF MoveSession, BumpPcs, OtherPcs
<1>6. CASE MoveOrders(r)
  <2> DEFINE g == [req[r] EXCEPT !.pc = "moveCommit", !.todo = Owed(req[r].table)]
  <2>1. req' = [req EXCEPT ![r] = Idle] \/ req' = [req EXCEPT ![r] = g]
    BY <1>1, <1>6 DEF MoveOrders, End
  <2>2. /\ g.pc = "moveCommit" /\ g.table = req[r].table /\ g.todo = Owed(req[r].table)
        /\ Idle.pc = "idle"
    BY <1>1 DEF Handler, Idle
  <2> HIDE DEF g
  <2>3. QED
    BY <1>6, <2>1, <2>2 DEF MoveOrders, BumpPcs, OtherPcs
<1>7. CASE MoveCommit(r)
  <2>1. req' = [req EXCEPT ![r] = Idle] /\ req[r].pc = "moveCommit"
    BY <1>7 DEF MoveCommit, End
  <2>2. Idle.pc = "idle"
    BY DEF Idle
  <2>3. QED
    BY <2>1, <2>2 DEF BumpPcs, OtherPcs
<1>8. "idle" \notin BumpPcs
  BY DEF BumpPcs
<1>9. QED
  BY <1>2, <1>3, <1>4, <1>5, <1>6, <1>7, <1>8 DEF Begin, OtherStep

-----------------------------------------------------------------------------
(* The invariant of the tables. *)

OpenIn(S, t) == {i \in DOMAIN S : S[i].table = t /\ S[i].open}

\* Handlers that share a table have excused it.
Alone(R, e) ==
    \A q, r \in Requests : \A t \in Tables :
        q # r /\ t \in R[q].at /\ t \in R[r].at => e[t] # {}

\* So have the handlers that take off the mark of a table with guests.
Marked(h, e) == h.pc \in UnmergePcs \cup {"billMark"} => \A t \in h.at : e[t] # {}

\* One session at a table, and whoever opened it shows it, or is about to.
Single(S, e) == \A t \in Tables : e[t] = {} => \A i, j \in OpenIn(S, t) : i = j

Shown(R, S, st, e) ==
    \A t \in Tables :
        e[t] = {} /\ OpenIn(S, t) # {} /\ st[t] # "OCCUPIED" =>
            \E r \in Requests : R[r].pc = "openMark" /\ R[r].table = t

\* What a handler has found out about the sessions of its tables.
Knows(h, S, e) ==
    /\ h.pc \in {"openInsert", "closeMark"} /\ e[h.table] = {} => OpenIn(S, h.table) = {}
    /\ h.pc = "closeWrite" /\ e[h.table] = {} => OpenIn(S, h.table) \subseteq {h.session}
    /\ h.pc \in {"moveSession", "moveOrders", "moveCommit"} /\ e[h.to] = {} =>
          OpenIn(S, h.to) = {}
    /\ h.pc \in {"moveOrders", "moveCommit"} /\ e[h.table] = {} =>
          OpenIn(S, h.table) = IF h.session = 0 THEN {} ELSE {h.session}

SInv ==
    /\ TInv
    /\ Alone(req, excuses)
    /\ Single(sessions, excuses)
    /\ Shown(req, sessions, status, excuses)
    /\ \A r \in Requests : Marked(req[r], excuses) /\ Knows(req[r], sessions, excuses)

\* History only grows.
Grown == \A t \in Tables : excuses'[t] = {} => excuses[t] = {}

\* The tables in T have as many sessions as before.
SeatsSame(T) == \A t \in T : OpenIn(sessions', t) = OpenIn(sessions, t)

-----------------------------------------------------------------------------
LEMMA KnowsKept ==
    ASSUME NEW h, NEW S, NEW O, Shape(h, S, O), NEW T, NEW e, NEW f, Knows(h, S, e),
           h.at \subseteq Tables,
           \A t \in h.at : f[t] = {} => e[t] = {} /\ OpenIn(T, t) = OpenIn(S, t)
    PROVE  Knows(h, T, f)
<1>1. CASE h.pc \in {"openInsert", "closeMark", "closeWrite"}
  <2>1. h.table \in h.at
    BY <1>1 DEF Shape, OpenPcs, ClosePcs
  <2>2. QED
    BY <1>1, <2>1 DEF Knows
<1>2. CASE h.pc \in {"moveSession", "moveOrders", "moveCommit"}
  <2>1. h.table \in h.at /\ h.to \in h.at
    BY <1>2 DEF Shape, MovePcs
  <2>2. QED
    BY <1>2, <2>1 DEF Knows
<1>3. QED
  BY <1>1, <1>2 DEF Knows

\* A step of the handler in slot r.  Its tables are the only ones whose sessions it
\* changes, or whose mark it takes off without an excuse.
LEMMA SlotStep ==
    ASSUME SInv, TInv', NEW r \in Requests, NEW h, req' = [req EXCEPT ![r] = h], Grown,
           SeatsSame(Tables \ req[r].at),
           \A t \in Tables \ req[r].at :
              status'[t] = status[t] \/ status'[t] = "OCCUPIED" \/ excuses'[t] # {},
           \A t \in req[r].at : excuses'[t] = {} =>
              /\ \A i, j \in OpenIn(sessions', t) : i = j
              /\ \/ OpenIn(sessions', t) = {} \/ status'[t] = "OCCUPIED"
                 \/ h.pc = "openMark" /\ h.table = t
                 \/ /\ status'[t] = status[t] /\ OpenIn(sessions', t) = OpenIn(sessions, t)
                    /\ req[r].pc # "openMark",
           \A t \in h.at \ req[r].at : Quiet(t) \/ excuses'[t] # {},
           Marked(h, excuses'), Knows(h, sessions', excuses')
    PROVE  SInv'
<1>0. /\ req \in [Requests -> Handler] /\ TInv
      /\ \A q \in Requests : req[q].at \subseteq Tables /\ Shape(req[q], sessions, orders)
  BY DEF SInv, TInv, TypeOK, Handler
<1>1. req'[r] = h /\ \A q \in Requests : q # r => req'[q] = req[q]
  BY <1>0
<1>2. Alone(req', excuses')
  <2> SUFFICES ASSUME NEW p \in Requests, NEW q \in Requests, NEW t \in Tables,
                      p # q, t \in req'[p].at, t \in req'[q].at, excuses'[t] = {}
               PROVE  FALSE
    BY DEF Alone
  <2>1. excuses[t] = {}
    BY DEF Grown
  <2>2. \A x, y \in Requests : x # y => ~(t \in req[x].at /\ t \in req[y].at)
    BY <2>1 DEF SInv, Alone
  <2>3. CASE p = r
    <3>1. t \in req[q].at /\ t \in h.at
      BY <1>1, <2>3
    <3>2. t \notin req[r].at /\ ~Quiet(t)
      BY <2>2, <2>3, <3>1 DEF Quiet
    <3>3. QED
      BY <3>1, <3>2
  <2>4. CASE q = r
    <3>1. t \in req[p].at /\ t \in h.at
      BY <1>1, <2>4
    <3>2. t \notin req[r].at /\ ~Quiet(t)
      BY <2>2, <2>4, <3>1 DEF Quiet
    <3>3. QED
      BY <3>1, <3>2
  <2>5. CASE p # r /\ q # r
    BY <1>1, <2>2, <2>5
  <2>6. QED
    BY <2>3, <2>4, <2>5
<1>3. Single(sessions', excuses')
  BY DEF Single, SInv, SeatsSame, Grown
<1>4. Shown(req', sessions', status', excuses')
  <2> SUFFICES ASSUME NEW t \in Tables, excuses'[t] = {}, OpenIn(sessions', t) # {},
                      status'[t] # "OCCUPIED"
               PROVE  \E q \in Requests : req'[q].pc = "openMark" /\ req'[q].table = t
    BY DEF Shown
  <2>1. CASE h.pc = "openMark" /\ h.table = t
    BY <1>1, <2>1
  <2>2. CASE ~(h.pc = "openMark" /\ h.table = t)
    <3>1. /\ status'[t] = status[t] /\ OpenIn(sessions', t) = OpenIn(sessions, t)
          /\ ~(req[r].pc = "openMark" /\ req[r].table = t)
      <4>1. CASE t \in req[r].at
        BY <2>2, <4>1
      <4>2. CASE t \notin req[r].at
        <5>1. req[r].pc = "openMark" => req[r].table \in req[r].at
          BY <1>0 DEF Shape, OpenPcs
        <5>2. QED
          BY <4>2, <5>1 DEF SeatsSame
      <4>3. QED
        BY <4>1, <4>2
    <3>2. PICK q \in Requests : req[q].pc = "openMark" /\ req[q].table = t
      BY <3>1 DEF Grown, SInv, Shown
    <3>3. QED
      BY <1>1, <3>1, <3>2
  <2>3. QED
    BY <2>1, <2>2
<1>5. ASSUME NEW q \in Requests
      PROVE  Marked(req'[q], excuses') /\ Knows(req'[q], sessions', excuses')
  <2>1. CASE q = r
    BY <1>1, <2>1
  <2>2. CASE q # r
    <3>1. req'[q] = req[q] /\ Marked(req[q], excuses) /\ Knows(req[q], sessions, excuses)
      BY <1>1, <2>2 DEF SInv
    <3>2. Marked(req[q], excuses')
      BY <1>0, <3>1 DEF Marked, Grown
    <3>3. \A t \in req[q].at : excuses'[t] = {} =>
             excuses[t] = {} /\ OpenIn(sessions', t) = OpenIn(sessions, t)
      BY <1>0, <2>2 DEF Grown, SInv, Alone, SeatsSame
    <3>4. Knows(req[q], sessions', excuses')
      BY <1>0, <3>1, <3>3, KnowsKept
    <3>5. QED
      BY <3>1, <3>2, <3>4
  <2>3. QED
    BY <2>1, <2>2
<1>6. QED
  BY <1>2, <1>3, <1>4, <1>5
     DEF SInv, Alone, Single, Shown, Marked, Knows, OpenIn

\* A step without a handler.
LEMMA NoSlotStep ==
    ASSUME SInv, TInv', req' = req, sessions' = sessions, Grown,
           \A t \in Tables :
              \/ status'[t] = status[t] \/ status'[t] = "OCCUPIED"
              \/ status[t] # "OCCUPIED" \/ excuses'[t] # {}
    PROVE  SInv'
<1>0. \A q \in Requests : req[q].at \subseteq Tables /\ Shape(req[q], sessions, orders)
  BY DEF SInv, TInv, TypeOK, Handler
<1>1. Alone(req, excuses') /\ Single(sessions, excuses')
  BY DEF SInv, Alone, Single, Grown
<1>2. Shown(req, sessions, status', excuses')
  BY DEF SInv, Shown, Grown
<1>3. ASSUME NEW q \in Requests
      PROVE  Marked(req[q], excuses') /\ Knows(req[q], sessions, excuses')
  <2>1. Marked(req[q], excuses')
    BY <1>0 DEF SInv, Marked, Grown
  <2>2. Knows(req[q], sessions, excuses')
    BY <1>0, KnowsKept DEF SInv, Grown
  <2>3. QED
    BY <2>1, <2>2
<1>4. QED
  BY <1>1, <1>2, <1>3 DEF SInv, Alone, Single, Shown, Marked, Knows, OpenIn

\* The history that the start of a handler leaves.
LEMMA OverlapKnown ==
    ASSUME TypeOK, NEW T \in SUBSET Tables,
           excuses' = Overlap(T) \/ \E why : excuses' = Note(Overlap(T), why, T, TRUE)
    PROVE  /\ Grown
           /\ \A t \in T : Quiet(t) \/ excuses'[t] # {}
           /\ (\E why : excuses' = Note(Overlap(T), why, T, TRUE))
                 => \A t \in T : excuses'[t] # {}
<1>1. /\ \A t \in Tables : Overlap(T)[t] = {} => excuses[t] = {}
      /\ \A t \in T : Quiet(t) \/ Overlap(T)[t] # {}
  BY DEF Overlap, Note
<1>2. ASSUME NEW why, excuses' = Note(Overlap(T), why, T, TRUE)
      PROVE  /\ \A t \in T : excuses'[t] # {}
             /\ \A t \in Tables : excuses'[t] = {} => Overlap(T)[t] = {}
  BY <1>2 DEF Note
<1>3. QED
  BY <1>1, <1>2 DEF Grown

\* A handler starts.
LEMMA StartStep ==
    ASSUME SInv, TInv', NEW r \in Requests, NEW h, req[r].pc = "idle",
           req' = [req EXCEPT ![r] = h],
           sessions' = sessions, status' = status, Grown,
           \A t \in h.at : Quiet(t) \/ excuses'[t] # {},
           Marked(h, excuses'), Knows(h, sessions, excuses')
    PROVE  SInv'
<1>1. req[r].at = {}
  BY DEF SInv, TInv, Shape
<1>2. SeatsSame(Tables \ req[r].at)
  BY DEF SeatsSame
<1>3. Knows(h, sessions', excuses')
  OBVIOUS
<1>4. QED
  BY <1>1, <1>2, <1>3, SlotStep

\* A handler goes on, or ends, and changes neither sessions nor marks.
LEMMA ReadStep ==
    ASSUME SInv, TInv', NEW r \in Requests, NEW h, req[r].pc # "openMark",
           req' = [req EXCEPT ![r] = h],
           sessions' = sessions, status' = status, excuses' = excuses,
           h.at \subseteq req[r].at,
           Marked(h, excuses), Knows(h, sessions, excuses)
    PROVE  SInv'
<1>1. Grown /\ SeatsSame(Tables \ req[r].at)
  BY DEF Grown, SeatsSame
<1>2. req[r].at \subseteq Tables
  BY DEF SInv, TInv, TypeOK, Handler
<1>3. \A t \in req[r].at : excuses[t] = {} => \A i, j \in OpenIn(sessions, t) : i = j
  BY <1>2 DEF SInv, Single
<1>4. QED
  BY <1>1, <1>3, SlotStep

\* A slot without a handler knows nothing.
LEMMA IdleKnows ==
    ASSUME NEW S, NEW e
    PROVE  /\ Idle.at = {} /\ Idle.pc = "idle"
           /\ Marked(Idle, e) /\ Knows(Idle, S, e)
  BY DEF Idle, Marked, Knows, UnmergePcs

\* The current sessions of a table.
LEMMA OpenAtIn == \A t : OpenAt(t) = OpenIn(sessions, t)
  BY DEF OpenAt, OpenIn

\* An open session of a table without excuse, that no handler is at work on, shows.
LEMMA SeatedShown ==
    ASSUME SInv, NEW t \in Tables, excuses[t] = {}, Quiet(t), OpenIn(sessions, t) # {}
    PROVE  status[t] = "OCCUPIED"
<1>1. SUFFICES ASSUME NEW q \in Requests, req[q].pc = "openMark", req[q].table = t
               PROVE  FALSE
  BY DEF SInv, Shown
<1>2. t \in req[q].at
  BY <1>1 DEF SInv, TInv, Shape, OpenPcs
<1>3. QED
  BY <1>2 DEF Quiet

-----------------------------------------------------------------------------
LEMMA OpenSeats ==
    ASSUME SInv, TInv', NEW r \in Requests, NEW t \in Tables, Open(r, t)
    PROVE  SInv'
<1> DEFINE h == [Idle EXCEPT
                   !.pc = IF status[t] = "OCCUPIED" THEN "openCheck" ELSE "openInsert",
                   !.table = t, !.at = {t}]
<1>1. /\ req[r].pc = "idle" /\ req' = [req EXCEPT ![r] = h]
      /\ sessions' = sessions /\ status' = status /\ excuses' = Overlap({t})
  BY DEF Open, Begin
<1>2. /\ h.pc = IF status[t] = "OCCUPIED" THEN "openCheck" ELSE "openInsert"
      /\ h.table = t /\ h.at = {t}
  BY DEF Idle
<1> HIDE DEF h
<1>3. Grown /\ (Quiet(t) \/ excuses'[t] # {})
  BY <1>1, OverlapKnown DEF SInv, TInv
<1>4. Marked(h, excuses')
  BY <1>2 DEF Marked, UnmergePcs
<1>5. excuses'[t] = {} /\ status[t] # "OCCUPIED" => OpenIn(sessions, t) = {}
  BY <1>3, SeatedShown DEF Grown
<1>6. Knows(h, sessions, excuses')
  BY <1>2, <1>5 DEF Knows
<1>7. QED
  BY <1>1, <1>2, <1>3, <1>4, <1>6, StartStep

LEMMA CloseSeats ==
    ASSUME SInv, TInv', NEW r \in Requests, NEW t \in Tables, NEW i, Close(r, t, i)
    PROVE  SInv'
<1> DEFINE h == [Idle EXCEPT !.pc = "closeWrite", !.table = t, !.at = {t}, !.session = i]
<1>1. /\ req[r].pc = "idle" /\ req' = [req EXCEPT ![r] = h]
      /\ sessions' = sessions /\ status' = status /\ excuses' = Overlap({t})
      /\ i \in OpenIn(sessions, t)
  BY OpenAtIn DEF Close, Begin
<1>2. h.pc = "closeWrite" /\ h.table = t /\ h.at = {t} /\ h.session = i
  BY DEF Idle
<1> HIDE DEF h
<1>3. Grown /\ (Quiet(t) \/ excuses'[t] # {})
  BY <1>1, OverlapKnown DEF SInv, TInv
<1>4. Marked(h, excuses')
  BY <1>2 DEF Marked, UnmergePcs
<1>5. excuses'[t] = {} => OpenIn(sessions, t) \subseteq {i}
  BY <1>1, <1>3 DEF Grown, SInv, Single
<1>6. Knows(h, sessions, excuses')
  BY <1>2, <1>5 DEF Knows
<1>7. QED
  BY <1>1, <1>2, <1>3, <1>4, <1>6, StartStep

LEMMA MoveSeats ==
    ASSUME SInv, TInv', NEW r \in Requests, NEW t \in Tables, NEW to \in Tables,
           Move(r, t, to)
    PROVE  SInv'
<1> DEFINE h == [Idle EXCEPT !.pc = "moveTo", !.table = t, !.to = to, !.at = {t, to}]
<1>1. /\ req[r].pc = "idle" /\ req' = [req EXCEPT ![r] = h]
      /\ sessions' = sessions /\ status' = status /\ excuses' = Overlap({t, to})
  BY DEF Move, Begin
<1>2. h.pc = "moveTo" /\ h.at = {t, to}
  BY DEF Idle
<1> HIDE DEF h
<1>3. Grown /\ \A x \in {t, to} : Quiet(x) \/ excuses'[x] # {}
  BY <1>1, OverlapKnown DEF SInv, TInv
<1>4. Marked(h, excuses') /\ Knows(h, sessions, excuses')
  BY <1>2 DEF Marked, Knows, UnmergePcs
<1>5. QED
  BY <1>1, <1>2, <1>3, <1>4, StartStep

LEMMA UnmergeSeats ==
    ASSUME SInv, TInv', NEW r \in Requests, NEW t \in Tables, Unmerge(r, t)
    PROVE  SInv'
<1> DEFINE T == {t} \cup merged[t]
           h == [Idle EXCEPT
                   !.pc = IF merged[t] = {} THEN "unmergeWrite" ELSE "unmergeFree",
                   !.table = t, !.at = T]
<1>1. /\ req[r].pc = "idle" /\ req' = [req EXCEPT ![r] = h]
      /\ sessions' = sessions /\ status' = status
      /\ excuses' = Note(Overlap(T), "unmerged", T, TRUE) /\ T \in SUBSET Tables
  BY DEF Unmerge, Begin, SInv, TInv, TypeOK
<1>2. h.pc \in {"unmergeWrite", "unmergeFree"} /\ h.at = T
  BY DEF Idle
<1> HIDE DEF h, T
<1>3. Grown /\ \A x \in T : excuses'[x] # {}
  BY <1>1, OverlapKnown DEF SInv, TInv
<1>4. Marked(h, excuses') /\ Knows(h, sessions, excuses')
  BY <1>2, <1>3 DEF Marked, Knows
<1>5. QED
  BY <1>1, <1>2, <1>3, <1>4, StartStep

LEMMA BillSeats ==
    ASSUME SInv, TInv', NEW r \in Requests, NEW t \in Tables, CreateBill(r, t)
    PROVE  SInv'
<1> DEFINE h == [Idle EXCEPT !.pc = "billMark", !.table = t, !.at = {t}]
<1>1. /\ req[r].pc = "idle" /\ req' = [req EXCEPT ![r] = h]
      /\ sessions' = sessions /\ status' = status
      /\ excuses' = Note(Overlap({t}), "bill", {t}, TRUE)
  BY DEF CreateBill, Begin
<1>2. h.pc = "billMark" /\ h.at = {t}
  BY DEF Idle
<1> HIDE DEF h
<1>3. Grown /\ \A x \in {t} : excuses'[x] # {}
  BY <1>1, OverlapKnown DEF SInv, TInv
<1>4. Marked(h, excuses') /\ Knows(h, sessions, excuses')
  BY <1>2, <1>3 DEF Marked, Knows
<1>5. QED
  BY <1>1, <1>2, <1>3, <1>4, StartStep

\* Handlers without a table to write to.
LEMMA OrderRequestSeats ==
    ASSUME SInv, TInv', NEW r \in Requests, KitchenRequest(r)
    PROVE  SInv'
<1>1. CASE \E b \in DOMAIN bills, s \in {"PENDING", "COMPLETED"} : AnswerBill(r, b, s)
  <2>1. PICK b \in DOMAIN bills, s \in {"PENDING", "COMPLETED"} : AnswerBill(r, b, s)
    BY <1>1
  <2> DEFINE h == [Idle EXCEPT !.pc = "answerOrders", !.table = bills[b].table]
  <2>2. /\ sessions' = sessions /\ status' = status /\ excuses' = excuses
        /\ req' = req \/ (req[r].pc = "idle" /\ req' = [req EXCEPT ![r] = h])
    BY <2>1 DEF AnswerBill, Begin
  <2>3. h.at = {} /\ h.pc = "answerOrders"
    BY DEF Idle
  <2> HIDE DEF h
  <2>4. Marked(h, excuses) /\ Knows(h, sessions, excuses) /\ Grown
    BY <2>2, <2>3 DEF Marked, Knows, UnmergePcs, Grown
  <2>5. QED
    BY <2>2, <2>3, <2>4, StartStep, NoSlotStep
<1>2. CASE \E o \in DOMAIN orders, d \in Dishes, done \in BOOLEAN : Bump(r, o, d, done)
  <2>1. PICK o \in DOMAIN orders, d \in Dishes, done \in BOOLEAN : Bump(r, o, d, done)
    BY <1>2
  <2> DEFINE h == [Idle EXCEPT !.pc = "bumpWrite", !.order = o, !.dish = {d}, !.done = done,
                               !.preparing = orders[o].status = "PREPARING"]
  <2>2. /\ sessions' = sessions /\ status' = status /\ excuses' = excuses
        /\ req[r].pc = "idle" /\ req' = [req EXCEPT ![r] = h]
    BY <2>1 DEF Bump, Begin
  <2>3. h.at = {} /\ h.pc = "bumpWrite"
    BY DEF Idle
  <2> HIDE DEF h
  <2>4. Marked(h, excuses) /\ Knows(h, sessions, excuses) /\ Grown
    BY <2>2, <2>3 DEF Marked, Knows, UnmergePcs, Grown
  <2>5. QED
    BY <2>2, <2>3, <2>4, StartStep
<1>3. QED
  BY <1>1, <1>2 DEF KitchenRequest

-----------------------------------------------------------------------------
LEMMA OpenCheckSeats ==
    ASSUME SInv, TInv', NEW r \in Requests, OpenCheck(r)
    PROVE  SInv'
<1>1. /\ req[r].pc = "openCheck" /\ TInv
      /\ sessions' = sessions /\ status' = status /\ excuses' = excuses
  BY DEF OpenCheck, SInv
<1>2. CASE Refused(req[r].table)
  <2>1. req' = [req EXCEPT ![r] = Idle]
    BY <1>2 DEF OpenCheck, End
  <2>2. QED
    BY <1>1, <2>1, IdleKnows, ReadStep
<1>3. CASE ~Refused(req[r].table)
  <2>1. Goto(r, "openInsert")
    BY <1>3 DEF OpenCheck
  <2>2. PICK h \in Handler :
           /\ req' = [req EXCEPT ![r] = h]
           /\ h.pc = "openInsert" /\ h.table = req[r].table /\ h.at = req[r].at
    BY <1>1, <2>1, GotoSlot
  <2>3. OpenIn(sessions, h.table) = {}
    BY <1>3, <2>2, OpenAtIn DEF Refused
  <2>4. Marked(h, excuses) /\ Knows(h, sessions, excuses)
    BY <2>2, <2>3 DEF Marked, Knows, UnmergePcs
  <2>5. QED
    BY <1>1, <2>2, <2>4, ReadStep
<1>4. QED
  BY <1>2, <1>3

LEMMA AppendOpen ==
    ASSUME NEW S \in Seq(Session), NEW x \in Session, NEW t
    PROVE  OpenIn(Append(S, x), t)
             = OpenIn(S, t) \cup (IF x.table = t /\ x.open THEN {Len(S) + 1} ELSE {})
<1>1. /\ DOMAIN S = 1..Len(S) /\ Len(S) \in Nat
      /\ DOMAIN Append(S, x) = 1..(Len(S) + 1)
      /\ \A i \in 1..Len(S) : Append(S, x)[i] = S[i]
      /\ Append(S, x)[Len(S) + 1] = x
  OBVIOUS
<1>2. ASSUME NEW i
      PROVE  i \in OpenIn(Append(S, x), t) <=>
               i \in OpenIn(S, t) \/ (i = Len(S) + 1 /\ x.table = t /\ x.open)
  BY <1>1 DEF OpenIn
<1>3. QED
  BY <1>2

LEMMA OpenInsertSeats ==
    ASSUME SInv, TInv', NEW r \in Requests, OpenInsert(r)
    PROVE  SInv'
<1> DEFINE t == req[r].table
           x == [table |-> t, open |-> TRUE]
<1>1. /\ req[r].pc = "openInsert" /\ TInv /\ t \in Tables /\ req[r].at = {t}
      /\ status' = status /\ excuses' = excuses /\ sessions' = Append(sessions, x)
      /\ sessions \in Seq(Session)
  BY DEF OpenInsert, SInv, TInv, TypeOK, Shape, OpenPcs
<1>2. Goto(r, "openMark")
  BY DEF OpenInsert
<1>3. PICK h \in Handler :
         /\ req' = [req EXCEPT ![r] = h]
         /\ h.pc = "openMark" /\ h.table = t /\ h.at = req[r].at
  BY <1>1, <1>2, GotoSlot
<1>4. x \in Session /\ x.table = t /\ x.open
  BY <1>1 DEF Session
<1>5. \A y : OpenIn(sessions', y)
               = OpenIn(sessions, y) \cup (IF y = t THEN {Len(sessions) + 1} ELSE {})
  BY <1>1, <1>4, AppendOpen
<1>6. excuses[t] = {} => OpenIn(sessions, t) = {}
  BY <1>1 DEF SInv, Knows
<1> HIDE DEF x
<1>7. SeatsSame(Tables \ req[r].at) /\ Grown
  BY <1>1, <1>5 DEF SeatsSame, Grown
<1>8. excuses'[t] = {} => \A i, j \in OpenIn(sessions', t) : i = j
  BY <1>1, <1>5, <1>6
<1>9. Marked(h, excuses') /\ Knows(h, sessions', excuses')
  BY <1>3 DEF Marked, Knows, UnmergePcs
<1>10. /\ \A y \in Tables \ req[r].at : status'[y] = status[y]
       /\ \A y \in req[r].at : excuses'[y] = {} =>
             /\ \A i, j \in OpenIn(sessions', y) : i = j
             /\ h.pc = "openMark" /\ h.table = y
       /\ h.at \subseteq req[r].at
  BY <1>1, <1>3, <1>8
<1> HIDE DEF t
<1>11. QED
  BY <1>3, <1>7, <1>9, <1>10, SlotStep

LEMMA OpenMarkSeats ==
    ASSUME SInv, TInv', NEW r \in Requests, OpenMark(r)
    PROVE  SInv'
<1>1. /\ req[r].table \in Tables /\ req[r].at = {req[r].table}
      /\ req' = [req EXCEPT ![r] = Idle] /\ sessions' = sessions /\ excuses' = excuses
      /\ status \in [Tables -> TableStatus]
      /\ status' = [status EXCEPT ![req[r].table] = "OCCUPIED"]
  BY DEF OpenMark, End, SInv, TInv, TypeOK, Shape, OpenPcs
<1>2. SeatsSame(Tables \ req[r].at) /\ Grown
  BY <1>1 DEF SeatsSame, Grown
<1>3. excuses[req[r].table] = {} =>
         \A i, j \in OpenIn(sessions, req[r].table) : i = j
  BY <1>1 DEF SInv, Single
<1>4. /\ \A t \in Tables \ req[r].at : status'[t] = status[t]
      /\ \A t \in req[r].at : excuses'[t] = {} =>
            /\ \A i, j \in OpenIn(sessions', t) : i = j
            /\ status'[t] = "OCCUPIED"
  BY <1>1, <1>3
<1>5. /\ Idle.at \subseteq req[r].at
      /\ Marked(Idle, excuses') /\ Knows(Idle, sessions', excuses')
  BY IdleKnows
<1>6. req' = [req EXCEPT ![r] = Idle]
  BY <1>1
<1>7. QED
  BY <1>2, <1>4, <1>5, <1>6, SlotStep

-----------------------------------------------------------------------------
LEMMA CloseWriteSeats ==
    ASSUME SInv, TInv', NEW r \in Requests, CloseWrite(r)
    PROVE  SInv'
<1> DEFINE t == req[r].table
           n == req[r].session
<1>1. /\ req[r].pc = "closeWrite" /\ TInv /\ t \in Tables /\ req[r].at = {t}
      /\ status' = status /\ excuses' = excuses
      /\ sessions' = [sessions EXCEPT ![n].open = FALSE]
      /\ sessions \in Seq(Session) /\ n \in DOMAIN sessions /\ sessions[n].table = t
  BY DEF CloseWrite, SInv, TInv, TypeOK, Shape, ClosePcs
<1>2. Goto(r, "closeMark")
  BY DEF CloseWrite
<1>3. PICK h \in Handler :
         /\ req' = [req EXCEPT ![r] = h]
         /\ h.pc = "closeMark" /\ h.table = t /\ h.at = req[r].at
  BY <1>1, <1>2, GotoSlot
<1>4. \A i \in DOMAIN sessions : sessions[i] \in Session
  BY <1>1
<1>5. /\ DOMAIN sessions' = DOMAIN sessions
      /\ \A i \in DOMAIN sessions :
            /\ sessions'[i].table = sessions[i].table
            /\ sessions'[i].open = (sessions[i].open /\ i # n)
  BY <1>1, <1>4 DEF Session
<1>6. \A y : OpenIn(sessions', y) = OpenIn(sessions, y) \ {n}
  BY <1>5 DEF OpenIn
<1>7. excuses[t] = {} => OpenIn(sessions, t) \subseteq {n}
  BY <1>1 DEF SInv, Knows
<1>8. \A y : y # t => n \notin OpenIn(sessions, y)
  BY <1>1 DEF OpenIn
<1>9. SeatsSame(Tables \ req[r].at) /\ Grown
  <2>1. ASSUME NEW y, y # t PROVE OpenIn(sessions', y) = OpenIn(sessions, y)
    <3>1. OpenIn(sessions', y) = OpenIn(sessions, y) \ {n}
      BY <1>6
    <3>2. n \notin OpenIn(sessions, y)
      BY <1>8, <2>1
    <3>3. QED
      BY <3>1, <3>2
  <2>2. QED
    BY <1>1, <2>1 DEF SeatsSame, Grown
<1>10. excuses[t] = {} => OpenIn(sessions', t) = {}
  BY <1>6, <1>7
<1>11. Marked(h, excuses') /\ Knows(h, sessions', excuses')
  BY <1>1, <1>3, <1>10 DEF Marked, Knows, UnmergePcs
<1> HIDE DEF t, n
<1>12. QED
  BY <1>1, <1>3, <1>9, <1>10, <1>11, SlotStep

LEMMA CloseMarkSeats ==
    ASSUME SInv, TInv', NEW r \in Requests, CloseMark(r)
    PROVE  SInv'
<1>1. /\ req[r].table \in Tables /\ req[r].at = {req[r].table}
      /\ req' = [req EXCEPT ![r] = Idle] /\ sessions' = sessions /\ excuses' = excuses
      /\ status' = [status EXCEPT ![req[r].table] = "CLEANING"]
      /\ status \in [Tables -> TableStatus]
  BY DEF CloseMark, End, SInv, TInv, TypeOK, Shape, ClosePcs
<1>2. SeatsSame(Tables \ req[r].at) /\ Grown
  BY <1>1 DEF SeatsSame, Grown
<1>3. excuses[req[r].table] = {} => OpenIn(sessions, req[r].table) = {}
  BY DEF SInv, Knows, CloseMark
<1>4. QED
  BY <1>1, <1>2, <1>3, IdleKnows, SlotStep

\* Steps that take the mark off a table which is excused.
LEMMA MarkSeats ==
    ASSUME SInv, TInv', NEW r \in Requests, UnmergeFree(r) \/ UnmergeWrite(r) \/ BillMark(r)
    PROVE  SInv'
<1>1. /\ req[r].table \in req[r].at /\ TInv
      /\ \A t \in req[r].at : excuses[t] # {}
      /\ status \in [Tables -> TableStatus]
      /\ sessions' = sessions /\ excuses' = excuses
  BY DEF UnmergeFree, UnmergeWrite, BillMark, SInv, TInv, TypeOK, Shape, Marked, UnmergePcs
<1>2. \A t \in Tables \ req[r].at : status'[t] = status[t]
  BY <1>1 DEF UnmergeFree, UnmergeWrite, BillMark
<1>3. SeatsSame(Tables \ req[r].at) /\ Grown
  BY <1>1 DEF SeatsSame, Grown
<1>4. \E h : /\ req' = [req EXCEPT ![r] = h] /\ h.at \subseteq req[r].at
             /\ Marked(h, excuses) /\ Knows(h, sessions, excuses)
  <2>1. CASE UnmergeFree(r)
    <3>1. Goto(r, "unmergeWrite")
      BY <2>1 DEF UnmergeFree
    <3>2. PICK h \in Handler : /\ req' = [req EXCEPT ![r] = h]
                               /\ h.pc = "unmergeWrite" /\ h.at = req[r].at
      BY <1>1, <3>1, GotoSlot
    <3>3. Marked(h, excuses) /\ Knows(h, sessions, excuses)
      BY <1>1, <3>2 DEF Marked, Knows
    <3>4. QED
      BY <3>2, <3>3
  <2>2. CASE UnmergeWrite(r) \/ BillMark(r)
    <3>1. req' = [req EXCEPT ![r] = Idle]
      BY <2>2 DEF UnmergeWrite, BillMark, End
    <3>2. Idle.at \subseteq req[r].at
      BY IdleKnows
    <3>3. QED
      BY <3>1, <3>2, IdleKnows
  <2>3. QED
    BY <2>1, <2>2
<1>5. QED
  BY <1>1, <1>2, <1>3, <1>4, SlotStep

-----------------------------------------------------------------------------
LEMMA MoveReadSeats ==
    ASSUME SInv, TInv', NEW r \in Requests, MoveTo(r) \/ MoveSession(r) \/ MoveOrders(r)
    PROVE  SInv'
<1>1. /\ req[r].pc \in {"moveTo", "moveSession", "moveOrders"} /\ TInv /\ req[r] \in Handler
      /\ sessions' = sessions /\ status' = status /\ excuses' = excuses
      /\ req[r].table \in Tables /\ req[r].to \in Tables
      /\ req[r].at = {req[r].table, req[r].to} /\ req \in [Requests -> Handler]
      /\ Knows(req[r], sessions, excuses)
  BY DEF MoveTo, MoveSession, MoveOrders, SInv, TInv, TypeOK, Shape, MovePcs
<1>2. SUFFICES \E h : /\ req' = [req EXCEPT ![r] = h] /\ h.at \subseteq req[r].at
                      /\ Marked(h, excuses) /\ Knows(h, sessions, excuses)
  BY <1>1, ReadStep
<1>3. CASE req' = [req EXCEPT ![r] = Idle]
  <2>1. Idle.at \subseteq req[r].at
    BY IdleKnows
  <2>2. QED
    BY <1>3, <2>1, IdleKnows
<1>4. CASE MoveTo(r) /\ Free(req[r].to)
  <2>1. Goto(r, "moveSession")
    BY <1>4 DEF MoveTo
  <2>2. PICK h \in Handler :
           /\ req' = [req EXCEPT ![r] = h] /\ h.pc = "moveSession"
           /\ h.to = req[r].to /\ h.at = req[r].at
    BY <1>1, <2>1, GotoSlot
  <2>3. excuses[h.to] = {} => OpenIn(sessions, h.to) = {}
    <3>1. SUFFICES ASSUME excuses[h.to] = {}, OpenIn(sessions, h.to) # {} PROVE FALSE
      OBVIOUS
    <3>2. PICK q \in Requests : req[q].pc = "openMark" /\ req[q].table = h.to
      BY <1>1, <1>4, <2>2, <3>1 DEF SInv, Shown, Free
    <3>3. h.to \in req[q].at /\ h.to \in req[r].at /\ q # r
      BY <1>1, <1>4, <2>2, <3>2 DEF TInv, Shape, OpenPcs
    <3>4. QED
      BY <1>1, <2>2, <3>1, <3>3 DEF SInv, Alone
  <2>4. Marked(h, excuses) /\ Knows(h, sessions, excuses)
    BY <2>2, <2>3 DEF Marked, Knows, UnmergePcs
  <2>5. QED
    BY <2>2, <2>4
<1>5. CASE MoveSession(r)
  <2>1. PICK i \in IF OpenAt(req[r].table) = {} THEN {0} ELSE OpenAt(req[r].table) :
           req' = [req EXCEPT ![r].pc = "moveOrders", ![r].session = i]
    BY <1>5 DEF MoveSession
  <2> DEFINE h == [req[r] EXCEPT !.pc = "moveOrders", !.session = i]
  <2>2. req' = [req EXCEPT ![r] = h]
    BY <1>1, <2>1
  <2>3. /\ h.pc = "moveOrders" /\ h.session = i /\ h.table = req[r].table
        /\ h.to = req[r].to /\ h.at = req[r].at
    BY <1>1 DEF Handler
  <2> HIDE DEF h
  <2>4. i \in IF OpenIn(sessions, h.table) = {} THEN {0} ELSE OpenIn(sessions, h.table)
    BY <2>1, <2>3, OpenAtIn
  <2>5. \A j \in OpenIn(sessions, h.table) : j # 0
    <3>1. DOMAIN sessions = 1..Len(sessions) /\ Len(sessions) \in Nat
      <4>1. sessions \in Seq(Session)
        BY <1>1 DEF TInv, TypeOK
      <4>2. QED
        BY <4>1
    <3>2. QED
      BY <3>1 DEF OpenIn
  <2>6. excuses[h.table] = {} =>
           OpenIn(sessions, h.table) = IF i = 0 THEN {} ELSE {i}
    <3>1. h.table \in Tables
      BY <1>1, <2>3
    <3>2. excuses[h.table] = {} => \A j, k \in OpenIn(sessions, h.table) : j = k
      BY <3>1 DEF SInv, Single
    <3>3. CASE OpenIn(sessions, h.table) = {}
      BY <2>4, <3>3
    <3>4. CASE OpenIn(sessions, h.table) # {}
      <4>1. i \in OpenIn(sessions, h.table) /\ i # 0
        BY <2>4, <2>5, <3>4
      <4>2. QED
        BY <3>2, <4>1
    <3>5. QED
      BY <3>3, <3>4
  <2>7. excuses[h.to] = {} => OpenIn(sessions, h.to) = {}
    BY <1>1, <1>5, <2>3 DEF Knows, MoveSession
  <2>8. Marked(h, excuses) /\ Knows(h, sessions, excuses)
    BY <2>3, <2>6, <2>7 DEF Marked, Knows, UnmergePcs
  <2>9. QED
    BY <2>2, <2>3, <2>8
<1>6. CASE MoveOrders(r) /\ Owed(req[r].table) # {}
  <2> DEFINE h == [req[r] EXCEPT !.pc = "moveCommit", !.todo = Owed(req[r].table)]
  <2>1. req' = [req EXCEPT ![r] = h]
    BY <1>1, <1>6 DEF MoveOrders
  <2>2. /\ h.pc = "moveCommit" /\ h.session = req[r].session /\ h.table = req[r].table
        /\ h.to = req[r].to /\ h.at = req[r].at
    BY <1>1 DEF Handler
  <2> HIDE DEF h
  <2>3. Marked(h, excuses) /\ Knows(h, sessions, excuses)
    BY <1>1, <1>6, <2>2 DEF Marked, Knows, UnmergePcs, MoveOrders
  <2>4. QED
    BY <2>1, <2>2, <2>3
<1>7. QED
  BY <1>3, <1>4, <1>5, <1>6 DEF MoveTo, MoveOrders, End

\* The sessions of the tables after a transfer.
LEMMA CommitOpen ==
    ASSUME TInv, NEW r \in Requests, MoveCommit(r)
    PROVE  \A y : OpenIn(sessions', y)
                    = (OpenIn(sessions, y) \ {req[r].session})
                        \cup (IF y = req[r].to THEN {Len(sessions) + 1} ELSE {})
<1> DEFINE n == Len(sessions) + 1
           x == [table |-> req[r].to, open |-> TRUE]
<1>1. /\ DOMAIN sessions = 1..Len(sessions) /\ Len(sessions) \in Nat
      /\ sessions' \in Seq(Session) /\ Len(sessions') = n
      /\ \A i \in DOMAIN sessions :
            /\ sessions'[i].table = sessions[i].table
            /\ sessions'[i].open = (sessions[i].open /\ i # req[r].session)
      /\ sessions'[n] = x
  BY CommitRows
<1>2. DOMAIN sessions' = DOMAIN sessions \cup {n} /\ n \notin DOMAIN sessions
  BY <1>1
<1>3. x.table = req[r].to /\ x.open
  OBVIOUS
<1> HIDE DEF n, x
<1>4. ASSUME NEW y, NEW i
      PROVE  i \in OpenIn(sessions', y) <=>
               \/ i \in OpenIn(sessions, y) /\ i # req[r].session
               \/ i = n /\ y = req[r].to
  BY <1>1, <1>2, <1>3 DEF OpenIn
<1>5. QED
  BY <1>4 DEF n

\* The guests' new table was empty, and their old one is.
LEMMA MoveCommitSeats ==
    ASSUME SInv, TInv', NEW r \in Requests, MoveCommit(r)
    PROVE  SInv'
<1> DEFINE t == req[r].table
           to == req[r].to
           old == req[r].session
           n == Len(sessions) + 1
<1>1. /\ req[r].pc = "moveCommit" /\ TInv
      /\ t \in Tables /\ to \in Tables /\ t # to /\ req[r].at = {t, to}
      /\ old # 0 => old \in DOMAIN sessions /\ sessions[old].table = t
      /\ status \in [Tables -> TableStatus]
      /\ status' = [status EXCEPT ![t] = "AVAILABLE", ![to] = "OCCUPIED"]
      /\ excuses \in [Tables -> SUBSET Excuses]
      /\ excuses' = [excuses EXCEPT ![to] = @ \cup excuses[t]]
      /\ req' = [req EXCEPT ![r] = Idle]
      /\ Knows(req[r], sessions, excuses)
  BY DEF MoveCommit, End, SInv, TInv, TypeOK, Shape, MovePcs
<1>2. \A y : OpenIn(sessions', y) = (OpenIn(sessions, y) \ {old})
                                       \cup (IF y = to THEN {n} ELSE {})
  BY <1>1, CommitOpen
<1>3. /\ excuses[t] = {} => OpenIn(sessions, t) = IF old = 0 THEN {} ELSE {old}
      /\ excuses[to] = {} => OpenIn(sessions, to) = {}
  BY <1>1 DEF Knows
<1>4. 0 \notin DOMAIN sessions
  <2>1. sessions \in Seq(Session)
    BY <1>1 DEF TInv, TypeOK
  <2>2. QED
    BY <2>1
<1>5. \A y : y # t => old \notin OpenIn(sessions, y)
  BY <1>1, <1>4 DEF OpenIn
<1>6. /\ excuses'[t] = excuses[t] /\ status'[t] = "AVAILABLE" /\ status'[to] = "OCCUPIED"
      /\ excuses'[to] = {} => excuses[to] = {}
      /\ \A y \in Tables \ {t, to} : excuses'[y] = excuses[y] /\ status'[y] = status[y]
  BY <1>1
<1> HIDE DEF t, to, old, n
<1>7. Grown
  BY <1>1, <1>6 DEF Grown
<1>8. SeatsSame(Tables \ req[r].at)
  <2>1. ASSUME NEW y \in Tables, y # t, y # to
        PROVE  OpenIn(sessions', y) = OpenIn(sessions, y)
    <3>1. OpenIn(sessions', y) = (OpenIn(sessions, y) \ {old}) \cup {}
      BY <1>2, <2>1
    <3>2. old \notin OpenIn(sessions, y)
      BY <1>5, <2>1
    <3>3. QED
      BY <3>1, <3>2
  <2>2. QED
    BY <1>1, <2>1 DEF SeatsSame
<1>9. excuses'[t] = {} => OpenIn(sessions', t) = {}
  <2>1. OpenIn(sessions', t) = (OpenIn(sessions, t) \ {old}) \cup {}
    BY <1>1, <1>2
  <2>2. QED
    BY <1>3, <1>6, <2>1
<1>10. excuses'[to] = {} => OpenIn(sessions', to) = {n}
  <2>1. OpenIn(sessions', to) = (OpenIn(sessions, to) \ {old}) \cup {n}
    BY <1>2
  <2>2. QED
    BY <1>3, <1>6, <2>1
<1>11. \A y \in req[r].at : excuses'[y] = {} =>
          /\ \A i, j \in OpenIn(sessions', y) : i = j
          /\ OpenIn(sessions', y) = {} \/ status'[y] = "OCCUPIED"
  BY <1>1, <1>6, <1>9, <1>10
<1>12. \A y \in Tables \ req[r].at : status'[y] = status[y]
  BY <1>1, <1>6
<1>13. /\ Idle.at \subseteq req[r].at
       /\ Marked(Idle, excuses') /\ Knows(Idle, sessions', excuses')
  BY IdleKnows
<1>14. req' = [req EXCEPT ![r] = Idle]
  BY <1>1
<1>15. QED
  BY <1>7, <1>8, <1>11, <1>12, <1>13, <1>14, SlotStep

-----------------------------------------------------------------------------
\* Handlers that write orders only.
LEMMA OrderHandlerSeats ==
    ASSUME SInv, TInv', NEW r \in Requests,
           AnswerOrders(r) \/ BumpWrite(r) \/ BumpCheck(r) \/ BumpComplete(r)
    PROVE  SInv'
<1>1. /\ req[r].pc # "openMark" /\ TInv
      /\ sessions' = sessions /\ status' = status /\ excuses' = excuses
  BY DEF AnswerOrders, BumpWrite, BumpCheck, BumpComplete, SInv
<1>2. CASE req' = [req EXCEPT ![r] = Idle]
  <2>1. Idle.at \subseteq req[r].at
    BY IdleKnows
  <2>2. QED
    BY <1>1, <1>2, <2>1, IdleKnows, ReadStep
<1>3. ASSUME NEW pc \in {"bumpCheck", "bumpComplete"}, Goto(r, pc) PROVE SInv'
  <2>1. PICK h \in Handler :
           req' = [req EXCEPT ![r] = h] /\ h.pc = pc /\ h.at = req[r].at
    BY <1>1, <1>3, GotoSlot
  <2>2. Marked(h, excuses) /\ Knows(h, sessions, excuses)
    BY <2>1 DEF Marked, Knows, UnmergePcs
  <2>3. QED
    BY <1>1, <2>1, <2>2, ReadStep
<1>4. QED
  BY <1>2, <1>3 DEF AnswerOrders, BumpWrite, BumpCheck, BumpComplete, End

\* A failure excuses the handler's tables.
LEMMA AbortSeats ==
    ASSUME SInv, TInv', NEW r \in Requests, Abort(r)
    PROVE  SInv'
<1>1. /\ sessions' = sessions /\ status' = status /\ req' = [req EXCEPT ![r] = Idle]
      /\ excuses' = Note(excuses, "fault", req[r].at, TRUE)
      /\ req[r].at \subseteq Tables
  BY DEF Abort, End, SInv, TInv, TypeOK, Handler
<1>2. Grown /\ \A t \in req[r].at : excuses'[t] # {}
  BY <1>1 DEF Grown, Note
<1>3. SeatsSame(Tables \ req[r].at)
  BY <1>1 DEF SeatsSame
<1>4. Idle.at \subseteq req[r].at
  BY IdleKnows
<1>5. QED
  BY <1>1, <1>2, <1>3, <1>4, IdleKnows, SlotStep

LEMMA TableSeats ==
    ASSUME SInv, TInv', NEW t \in Tables, TableStep(t)
    PROVE  SInv'
<1>1. req' = req /\ sessions' = sessions /\ TypeOK
  BY DEF TableStep, Merge, SetTableStatus, CompleteOrdersByTable, CreateOrder, SInv, TInv
<1>2. CASE \E S \in SUBSET Tables : Merge(t, S)
  <2>1. Grown /\ \A y \in Tables : status'[y] = status[y] \/ status'[y] = "OCCUPIED"
    BY <1>1, <1>2 DEF Merge, Grown, TypeOK
  <2>2. QED
    BY <1>1, <2>1, NoSlotStep
<1>3. ASSUME NEW s \in TableStatus, NEW S \in SUBSET Tables, SetTableStatus(t, s, S)
      PROVE  SInv'
  <2>1. excuses' = Note(excuses, "staff", {t}, status[t] = "OCCUPIED" /\ s # "OCCUPIED")
    BY <1>3 DEF SetTableStatus
  <2>2. Grown /\ (status[t] = "OCCUPIED" /\ s # "OCCUPIED" => excuses'[t] # {})
    BY <2>1 DEF Grown, Note
  <2>3. status'[t] = s /\ \A y \in Tables : y # t => status'[y] = status[y]
    BY <1>1, <1>3 DEF SetTableStatus, TypeOK
  <2>4. QED
    BY <1>1, <2>2, <2>3, NoSlotStep
<1>4. CASE CompleteOrdersByTable(t)
  BY <1>1, <1>4, NoSlotStep DEF CompleteOrdersByTable, Grown
<1>5. CASE CreateOrder(t)
  <2>1. Grown /\ status' = status
    BY <1>1, <1>5, OverlapKnown DEF CreateOrder
  <2>2. QED
    BY <1>1, <2>1, NoSlotStep
<1>6. QED
  BY <1>2, <1>3, <1>4, <1>5 DEF TableStep

LEMMA OrderSeats ==
    ASSUME SInv, TInv', NEW o \in DOMAIN orders, OrderStep(o)
    PROVE  SInv'
<1>1. /\ req' = req /\ sessions' = sessions /\ status' = status /\ TypeOK
      /\ orders[o].table \in Tables
  BY OrderRow DEF OrderStep, SetOrderStatus, SetDish, Pay, SInv, TInv, Order
<1>2. excuses' = excuses \/ excuses' = Overlap({orders[o].table})
  BY DEF OrderStep, SetOrderStatus, SetDish, Pay
<1>3. Grown
  BY <1>1, <1>2, OverlapKnown DEF Grown
<1>4. QED
  BY <1>1, <1>3, NoSlotStep

LEMMA SInvInit == Init => SInv
<1> SUFFICES ASSUME Init PROVE SInv
  OBVIOUS
<1>1. Alone(req, excuses) /\ \A r \in Requests : Marked(req[r], excuses)
                                                 /\ Knows(req[r], sessions, excuses)
  BY IdleKnows DEF Init, Alone
<1>2. \A t : OpenIn(sessions, t) = {}
  BY DEF Init, OpenIn
<1>3. Single(sessions, excuses) /\ Shown(req, sessions, status, excuses)
  BY <1>2 DEF Single, Shown
<1>4. QED
  BY <1>1, <1>3, TInvInit DEF SInv

LEMMA SInvNext == SInv /\ [Next]_vars => SInv'
<1> SUFFICES ASSUME SInv, [Next]_vars PROVE SInv'
  OBVIOUS
<1>0. TInv'
  BY TInvNext DEF SInv
<1>1. ASSUME NEW r \in Requests, HandlerStep(r) PROVE SInv'
  BY <1>0, <1>1, OpenCheckSeats, OpenInsertSeats, OpenMarkSeats, CloseWriteSeats,
     CloseMarkSeats, MoveReadSeats, MoveCommitSeats, MarkSeats, OrderHandlerSeats
     DEF HandlerStep
<1>2. ASSUME NEW r \in Requests, Abort(r) PROVE SInv'
  BY <1>0, <1>2, AbortSeats
<1>3. ASSUME NEW r \in Requests, KitchenRequest(r) PROVE SInv'
  BY <1>0, <1>3, OrderRequestSeats
<1>4. ASSUME NEW r \in Requests, NEW t \in Tables, NewRequest(r, t) PROVE SInv'
  BY <1>0, <1>4, OpenSeats, CloseSeats, MoveSeats, UnmergeSeats, BillSeats DEF NewRequest
<1>5. ASSUME NEW t \in Tables, TableStep(t) PROVE SInv'
  BY <1>0, <1>5, TableSeats
<1>6. ASSUME NEW o \in DOMAIN orders, OrderStep(o) PROVE SInv'
  BY <1>0, <1>6, OrderSeats
<1>7. CASE UNCHANGED vars
  <2>1. /\ req' = req /\ sessions' = sessions /\ status' = status /\ Grown
    BY <1>7 DEF vars, Grown
  <2>2. QED
    BY <1>0, <2>1, NoSlotStep
<1>8. QED
  BY <1>1, <1>2, <1>3, <1>4, <1>5, <1>6, <1>7 DEF Next

\* A table has at most one session, whatever sequence of openings, closings,
\* transfers and merges led there, unless it is excused.
THEOREM OneSessionAtATable == Spec => []OneOpenSession
<1>1. SInv => OneOpenSession
  <2> SUFFICES ASSUME SInv, NEW t \in Tables, excuses[t] = {}
               PROVE  Cardinality(OpenAt(t)) <= 1
    BY DEF OneOpenSession
  <2>1. \A i, j \in OpenAt(t) : i = j
    BY OpenAtIn DEF SInv, Single
  <2>2. CASE OpenAt(t) = {}
    BY <2>2, FS_EmptySet
  <2>3. CASE OpenAt(t) # {}
    <3>1. PICK i : OpenAt(t) = {i}
      BY <2>1, <2>3
    <3>2. QED
      BY <3>1, FS_Singleton
  <2>4. QED
    BY <2>2, <2>3
<1>2. QED
  BY SInvInit, SInvNext, <1>1, PTL DEF Spec

\* A table with an open session is shown as occupied between requests, unless it
\* is excused.
THEOREM SeatedTablesShow == Spec => []SeatedTableOccupied
<1>1. SInv => SeatedTableOccupied
  BY SeatedShown, OpenAtIn DEF SeatedTableOccupied
<1>2. QED
  BY SInvInit, SInvNext, <1>1, PTL DEF Spec

\* Together: a table where guests sit has one session and is shown as occupied
\* (openSession, transferTable, closeSession, mergeTables, unmergeTable).
THEOREM SeatedTables == Spec => []SeatedTablesHold
  BY OneSessionAtATable, SeatedTablesShow, PTL DEF SeatedTablesHold

-----------------------------------------------------------------------------
(* The orders of guests who are moved. *)

Owes(w) == w.status # "CANCELLED" /\ ~w.paid

Overtook(w) == "overtaken" \in w.notes

\* An order is with the guests who ordered it.
Follow(S, O, e) ==
    \A o \in DOMAIN O :
        /\ O[o].seat \in {0} \cup DOMAIN S
        /\ O[o].seat # 0 /\ ~Overtook(O[o]) =>
              LET s == S[O[o].seat] IN
              s.open /\ e[s.table] = {} /\ e[O[o].table] = {} => O[o].table = s.table

\* The orders that a transfer is about to move are at its table or have been moved
\* by another one, and no order that the table still owes for is left out.
Todo(h, O, e) ==
    h.pc = "moveCommit" =>
        /\ \A o \in h.todo :
              /\ o \in DOMAIN O
              /\ O[o].table = h.table \/ (e[h.table] # {} /\ e[O[o].table] # {})
        /\ e[h.table] = {} =>
              \A o \in DOMAIN O : O[o].table = h.table /\ Owes(O[o]) /\ ~Overtook(O[o])
                                    => o \in h.todo

\* A bump that brings back a cancelled order was there when it was cancelled.
Brings(h, O) ==
    h.pc \in BumpPcs =>
        /\ h.pc = "bumpComplete" => h.preparing
        /\ h.preparing /\ O[h.order].status = "CANCELLED" => Overtook(O[h.order])

FInv ==
    /\ SInv
    /\ Follow(sessions, orders, excuses)
    /\ \A r \in Requests : Todo(req[r], orders, excuses) /\ Brings(req[r], orders)

\* Sessions are added and closed, not opened again.
SessionsKept ==
    /\ DOMAIN sessions \subseteq DOMAIN sessions'
    /\ \A i \in DOMAIN sessions : /\ sessions'[i].table = sessions[i].table
                                  /\ sessions'[i].open => sessions[i].open

\* The rows of a state that has its types.
LEMMA RowTypes ==
    ASSUME TypeOK
    PROVE  /\ \A o \in DOMAIN orders : orders[o].table \in Tables
           /\ \A i \in DOMAIN sessions : i # 0 /\ sessions[i].table \in Tables
<1>1. DOMAIN sessions = 1..Len(sessions) /\ \A i \in DOMAIN sessions : sessions[i] \in Session
  BY DEF TypeOK
<1>2. QED
  BY <1>1, OrderRow DEF Order, Session

\* A step that leaves every order in its place.
LEMMA InPlaceStep ==
    ASSUME FInv, SInv', SameRowsKept, SessionsKept, Grown,
           \A o \in DOMAIN orders :
              Owes(orders'[o]) /\ ~Overtook(orders'[o]) =>
                 Owes(orders[o]) \/ Quiet(orders[o].table) \/ excuses'[orders[o].table] # {},
           \A o \in DOMAIN orders :
              orders'[o].status = "CANCELLED" =>
                 orders[o].status = "CANCELLED" \/ ~Bumping(o) \/ Overtook(orders'[o]),
           \A q \in Requests :
              \/ req'[q] = req[q]
              \/ Todo(req'[q], orders', excuses') /\ Brings(req'[q], orders')
    PROVE  FInv'
<1>0. /\ TypeOK /\ DOMAIN orders' = DOMAIN orders
      /\ \A o \in DOMAIN orders : /\ orders'[o].table = orders[o].table
                                  /\ orders'[o].seat = orders[o].seat
                                  /\ Overtook(orders[o]) => Overtook(orders'[o])
  BY DEF FInv, SInv, TInv, SameRowsKept, SamePlace, Overtook
<1>1. Follow(sessions', orders', excuses')
  <2> SUFFICES ASSUME NEW o \in DOMAIN orders
               PROVE  /\ orders'[o].seat \in {0} \cup DOMAIN sessions'
                      /\ orders'[o].seat # 0 /\ ~Overtook(orders'[o]) =>
                            LET s == sessions'[orders'[o].seat] IN
                            s.open /\ excuses'[s.table] = {}
                                   /\ excuses'[orders'[o].table] = {}
                               => orders'[o].table = s.table
    BY <1>0 DEF Follow
  <2> DEFINE i == orders[o].seat
  <2>1. i \in {0} \cup DOMAIN sessions /\ orders'[o].seat = i
    BY <1>0 DEF FInv, Follow
  <2>2. CASE i = 0
    BY <2>1, <2>2
  <2>3. CASE i \in DOMAIN sessions
    <3>1. /\ orders[o].table \in Tables /\ sessions[i].table \in Tables /\ i # 0
          /\ sessions'[i].table = sessions[i].table
          /\ sessions'[i].open => sessions[i].open
          /\ i \in DOMAIN sessions'
      BY <1>0, <2>3, RowTypes DEF SessionsKept
    <3>2. /\ excuses'[orders[o].table] = {} => excuses[orders[o].table] = {}
          /\ excuses'[sessions[i].table] = {} => excuses[sessions[i].table] = {}
      BY <3>1 DEF Grown
    <3>3. ~Overtook(orders[o]) /\ sessions[i].open /\ excuses[sessions[i].table] = {}
             /\ excuses[orders[o].table] = {} => orders[o].table = sessions[i].table
      BY <3>1 DEF FInv, Follow
    <3> HIDE DEF i
    <3>4. QED
      BY <1>0, <2>1, <3>1, <3>2, <3>3
  <2>4. QED
    BY <2>1, <2>2, <2>3
<1>2. ASSUME NEW q \in Requests PROVE Todo(req[q], orders', excuses')
  <2> SUFFICES ASSUME req[q].pc = "moveCommit" PROVE Todo(req[q], orders', excuses')
    BY DEF Todo
  <2>1. req[q].table \in Tables /\ req[q].table \in req[q].at /\ Todo(req[q], orders, excuses)
    BY DEF FInv, SInv, TInv, Shape, MovePcs
  <2>2. excuses'[req[q].table] = {} => excuses[req[q].table] = {}
    BY <2>1 DEF Grown
  <2>3. ASSUME NEW o \in req[q].todo
        PROVE  /\ o \in DOMAIN orders'
               /\ \/ orders'[o].table = req[q].table
                  \/ excuses'[req[q].table] # {} /\ excuses'[orders'[o].table] # {}
    <3>1. /\ o \in DOMAIN orders
          /\ \/ orders[o].table = req[q].table
             \/ excuses[req[q].table] # {} /\ excuses[orders[o].table] # {}
      BY <2>1 DEF Todo
    <3>2. orders[o].table \in Tables
      BY <1>0, <3>1, RowTypes
    <3>3. QED
      BY <1>0, <2>2, <3>1, <3>2 DEF Grown
  <2>4. ASSUME excuses'[req[q].table] = {}, NEW o \in DOMAIN orders,
               orders'[o].table = req[q].table, Owes(orders'[o]), ~Overtook(orders'[o])
        PROVE  o \in req[q].todo
    <3>1. ~Quiet(req[q].table)
      BY <2>1 DEF Quiet
    <3>2. Owes(orders[o]) /\ ~Overtook(orders[o]) /\ orders[o].table = req[q].table
      BY <1>0, <2>4, <3>1
    <3>3. QED
      BY <2>1, <2>2, <2>4, <3>2 DEF Todo
  <2>5. QED
    BY <1>0, <2>3, <2>4 DEF Todo
<1>3. ASSUME NEW q \in Requests PROVE Brings(req[q], orders')
  <2> SUFFICES ASSUME req[q].pc \in BumpPcs, req[q].preparing,
                      orders'[req[q].order].status = "CANCELLED"
               PROVE  Overtook(orders'[req[q].order])
    BY DEF Brings, FInv, BumpPcs
  <2>1. req[q].order \in DOMAIN orders /\ req[q].pc # "idle"
    BY DEF FInv, SInv, TInv, Shape, BumpPcs
  <2>2. Bumping(req[q].order)
    BY <2>1 DEF Bumping
  <2>3. QED
    BY <1>0, <2>1, <2>2 DEF FInv, Brings
<1>4. \A q \in Requests : Todo(req'[q], orders', excuses') /\ Brings(req'[q], orders')
  BY <1>2, <1>3
<1>5. QED
  BY <1>1, <1>4 DEF FInv, Follow, Todo, Brings, Owes, Overtook

\* The excuses only grow, and so do the sessions, in steps that change no order.
LEMMA OtherHistory ==
    ASSUME TInv, NEW r \in Requests, OtherStep(r), ~MoveCommit(r)
    PROVE  Grown /\ SessionsKept
<1>0. TypeOK /\ \A t \in Tables : merged[t] \subseteq Tables
  BY DEF TInv, TypeOK
<1>1. Grown
  <2>1. CASE \E t \in Tables : NewRequest(r, t)
    <3>1. PICK t \in Tables : NewRequest(r, t)
      BY <2>1
    <3>2. \E T \in SUBSET Tables : \/ excuses' = Overlap(T)
                                  \/ \E why : excuses' = Note(Overlap(T), why, T, TRUE)
      <4>1. CASE Unmerge(r, t)
        BY <1>0, <3>1, <4>1 DEF Unmerge
      <4>2. CASE CreateBill(r, t)
        BY <3>1, <4>2 DEF CreateBill
      <4>3. CASE Open(r, t) \/ \E i \in DOMAIN sessions : Close(r, t, i)
        BY <3>1, <4>3 DEF Open, Close
      <4>4. CASE \E to \in Tables : Move(r, t, to)
        BY <3>1, <4>4 DEF Move
      <4>5. QED
        BY <3>1, <4>1, <4>2, <4>3, <4>4 DEF NewRequest
    <3>3. QED
      BY <1>0, <3>2, OverlapKnown
  <2>2. CASE ~\E t \in Tables : NewRequest(r, t)
    <3>1. excuses' = excuses
      BY <2>2 DEF OtherStep, AnswerBill, OpenCheck, OpenInsert, OpenMark, CloseWrite,
                  CloseMark, MoveTo, MoveSession, MoveOrders, UnmergeFree, UnmergeWrite,
                  BillMark, AnswerOrders
    <3>2. QED
      BY <3>1 DEF Grown
  <2>3. QED
    BY <2>1, <2>2
<1>2. SessionsKept
  <2>1. CASE OpenInsert(r)
    <3>1. sessions \in Seq(Session) /\ [table |-> req[r].table, open |-> TRUE] \in Session
      BY <2>1 DEF TInv, TypeOK, OpenInsert, Shape, OpenPcs, Session
    <3>2. sessions' = Append(sessions, [table |-> req[r].table, open |-> TRUE])
      BY <2>1 DEF OpenInsert
    <3>3. DOMAIN sessions \subseteq DOMAIN sessions'
          /\ \A i \in DOMAIN sessions : sessions'[i] = sessions[i]
      BY <3>1, <3>2
    <3>4. QED
      BY <3>3 DEF SessionsKept
  <2>2. CASE CloseWrite(r)
    <3>1. sessions \in Seq(Session)
      BY DEF TInv, TypeOK
    <3>2. \A i \in DOMAIN sessions : sessions[i] \in Session
      BY <3>1
    <3>3. sessions' = [sessions EXCEPT ![req[r].session].open = FALSE]
      BY <2>2 DEF CloseWrite
    <3>4. QED
      BY <3>1, <3>2, <3>3 DEF SessionsKept, Session
  <2>3. CASE ~OpenInsert(r) /\ ~CloseWrite(r)
    <3>1. sessions' = sessions
      BY <2>3 DEF OtherStep, NewRequest, Open, Close, Move, Unmerge, CreateBill, AnswerBill,
                  OpenCheck, OpenMark, CloseMark, MoveTo, MoveSession, MoveOrders,
                  UnmergeFree, UnmergeWrite, BillMark, AnswerOrders
    <3>2. QED
      BY <3>1 DEF SessionsKept
  <2>4. QED
    BY <2>1, <2>2, <2>3
<1>3. QED
  BY <1>1, <1>2

\* Steps that leave the orders as they are: a transfer learns what it will move.
LEMMA OtherFollow ==
    ASSUME FInv, SInv', NEW r \in Requests, OtherStep(r), ~MoveCommit(r), ~AnswerOrders(r)
    PROVE  FInv'
<1>0. TInv /\ TypeOK /\ req \in [Requests -> Handler]
  BY DEF FInv, SInv, TInv, TypeOK
<1>1. orders' = orders
  BY DEF OtherStep, NewRequest, Open, Close, Move, Unmerge, CreateBill, AnswerBill, OpenCheck,
         OpenInsert, OpenMark, CloseWrite, CloseMark, MoveTo, MoveSession, MoveOrders,
         UnmergeFree, UnmergeWrite, BillMark
<1>2. SameRowsKept
  <2>1. orders \in Seq(Order)
    BY <1>0 DEF TypeOK
  <2>2. QED
    BY <1>1, <2>1 DEF SameRowsKept, SamePlace
<1>3. Grown /\ SessionsKept
  BY <1>0, OtherHistory
<1>4. ASSUME NEW h, \/ h.pc \in OtherPcs
                   \/ /\ h.pc = "moveCommit" /\ MoveOrders(r) /\ h.table = req[r].table
                      /\ h.todo = Owed(req[r].table)
      PROVE  Todo(h, orders, excuses') /\ Brings(h, orders)
  <2>1. CASE h.pc \in OtherPcs
    BY <2>1 DEF Todo, Brings, OtherPcs, OpenPcs, ClosePcs, UnmergePcs, BumpPcs
  <2>2. CASE h.pc = "moveCommit"
    <3>1. h.table = req[r].table /\ h.todo = Owed(req[r].table)
      BY <1>4, <2>2 DEF OtherPcs, OpenPcs, ClosePcs, UnmergePcs
    <3>2. QED
      BY <2>2, <3>1 DEF Todo, Brings, Owed, ActiveAt, Active, Owes, BumpPcs
  <2>3. QED
    BY <1>4, <2>1, <2>2
<1>5. ASSUME NEW q \in Requests
      PROVE  \/ req'[q] = req[q]
             \/ Todo(req'[q], orders', excuses') /\ Brings(req'[q], orders')
  <2>1. CASE req' = req
    BY <2>1
  <2>2. CASE req' # req
    <3>1. PICK h : /\ req' = [req EXCEPT ![r] = h]
                   /\ \/ h.pc \in OtherPcs
                      \/ /\ h.pc = "moveCommit" /\ MoveOrders(r) /\ h.table = req[r].table
                         /\ h.todo = Owed(req[r].table)
      BY <1>0, <2>2, OtherSlots
    <3>2. req'[q] = req[q] \/ req'[q] = h
      BY <1>0, <3>1
    <3>3. QED
      BY <1>1, <1>4, <3>1, <3>2
  <2>3. QED
    BY <2>1, <2>2
<1>6. QED
  BY <1>1, <1>2, <1>3, <1>5, InPlaceStep

\* Steps that write orders and leave them in their place.
LEMMA IdleTodo ==
    ASSUME NEW O, NEW e
    PROVE  Todo(Idle, O, e) /\ Brings(Idle, O)
  BY DEF Idle, Todo, Brings, BumpPcs

LEMMA OrderHandlerFollow ==
    ASSUME FInv, SInv', NEW r \in Requests,
           AnswerOrders(r) \/ BumpWrite(r) \/ BumpCheck(r) \/ BumpComplete(r) \/ Abort(r)
    PROVE  FInv'
<1>0. TInv /\ TypeOK /\ req \in [Requests -> Handler] /\ orders \in Seq(Order)
  BY DEF FInv, SInv, TInv, TypeOK
<1>1. Grown /\ SessionsKept
  BY DEF AnswerOrders, BumpWrite, BumpCheck, BumpComplete, Abort, Grown, SessionsKept, Note
<1>2. SameRowsKept
  <2>1. CASE BumpCheck(r)
    BY <1>0, <2>1 DEF BumpCheck, SameRowsKept, SamePlace
  <2>2. QED
    BY <1>0, <2>1, FinishRows, BumpWriteRows, BumpCompleteRows, AbortRows DEF AnswerOrders
<1>3. ASSUME NEW o \in DOMAIN orders
      PROVE  /\ Owes(orders'[o]) /\ ~Overtook(orders'[o]) => Owes(orders[o])
             /\ orders'[o].status = "CANCELLED" => orders[o].status = "CANCELLED"
  <2>1. CASE AnswerOrders(r)
    BY <1>0, <2>1, FinishRows DEF AnswerOrders, Finishable, Owes
  <2>2. CASE BumpWrite(r)
    BY <1>0, <2>2, BumpWriteRows DEF Owes
  <2>3. CASE BumpCheck(r)
    BY <2>3 DEF BumpCheck
  <2>4. CASE BumpComplete(r)
    <3>1. /\ orders'[o].paid = orders[o].paid /\ orders'[o].notes = orders[o].notes
          /\ orders'[o].status = IF o = req[r].order THEN "COMPLETED" ELSE orders[o].status
      BY <1>0, <2>4, BumpCompleteRows
    <3>2. o = req[r].order /\ orders[o].status = "CANCELLED" => Overtook(orders[o])
      BY <2>4 DEF FInv, Brings, BumpComplete, BumpPcs
    <3>3. QED
      BY <3>1, <3>2 DEF Owes, Overtook
  <2>5. CASE Abort(r)
    BY <1>0, <2>5, AbortRows DEF Owes
  <2>6. QED
    BY <2>1, <2>2, <2>3, <2>4, <2>5
<1>4. ASSUME NEW q \in Requests
      PROVE  \/ req'[q] = req[q]
             \/ Todo(req'[q], orders', excuses') /\ Brings(req'[q], orders')
  <2>1. CASE req' = [req EXCEPT ![r] = Idle]
    BY <1>0, <2>1, IdleTodo
  <2>2. ASSUME NEW pc \in {"bumpCheck", "bumpComplete"}, Goto(r, pc),
               req[r].pc \in {"bumpWrite", "bumpCheck"}, pc = "bumpComplete" => req[r].preparing
        PROVE  \/ req'[q] = req[q]
               \/ Todo(req'[q], orders', excuses') /\ Brings(req'[q], orders')
    <3>1. PICK h \in Handler : /\ req' = [req EXCEPT ![r] = h] /\ h.pc = pc
                               /\ h.order = req[r].order /\ h.preparing = req[r].preparing
      BY <1>0, <2>2, GotoSlot
    <3>2. req'[q] = req[q] \/ req'[q] = h
      BY <1>0, <3>1
    <3>3. req[r].order \in DOMAIN orders /\ Brings(req[r], orders)
      BY <1>0, <2>2 DEF FInv, TInv, Shape, BumpPcs
    <3>4. /\ orders'[h.order].status = "CANCELLED" => orders[h.order].status = "CANCELLED"
          /\ Overtook(orders[h.order]) => Overtook(orders'[h.order])
      BY <1>2, <1>3, <3>1, <3>3 DEF SameRowsKept, SamePlace, Overtook
    <3>5. Todo(h, orders', excuses') /\ Brings(h, orders')
      BY <2>2, <3>1, <3>3, <3>4 DEF Todo, Brings, BumpPcs
    <3>6. QED
      BY <3>2, <3>5
  <2>3. QED
    BY <2>1, <2>2 DEF AnswerOrders, BumpWrite, BumpCheck, BumpComplete, Abort, End, Completable
<1>5. QED
  BY <1>1, <1>2, <1>3, <1>4, InPlaceStep

\* A bump starts.
LEMMA BumpFollow ==
    ASSUME FInv, SInv', NEW r \in Requests, NEW o \in DOMAIN orders, NEW d \in Dishes,
           NEW b \in BOOLEAN, Bump(r, o, d, b)
    PROVE  FInv'
<1> DEFINE h == [Idle EXCEPT !.pc = "bumpWrite", !.order = o, !.dish = {d}, !.done = b,
                             !.preparing = orders[o].status = "PREPARING"]
<1>0. TypeOK /\ req \in [Requests -> Handler] /\ orders \in Seq(Order)
  BY DEF FInv, SInv, TInv, TypeOK
<1>1. /\ req' = [req EXCEPT ![r] = h]
      /\ UNCHANGED <<status, merged, sessions, orders, bills, excuses>>
  BY DEF Bump, Begin
<1>2. h.pc = "bumpWrite" /\ h.order = o /\ h.preparing = (orders[o].status = "PREPARING")
  BY DEF Idle
<1> HIDE DEF h
<1>3. Grown /\ SessionsKept
  BY <1>1 DEF Grown, SessionsKept
<1>4. SameRowsKept
  BY <1>0, <1>1 DEF SameRowsKept, SamePlace
<1>5. Todo(h, orders', excuses') /\ Brings(h, orders')
  BY <1>1, <1>2 DEF Todo, Brings
<1>6. ASSUME NEW q \in Requests PROVE req'[q] = req[q] \/ req'[q] = h
  BY <1>0, <1>1
<1>7. QED
  BY <1>1, <1>3, <1>4, <1>5, <1>6, InPlaceStep

LEMMA OrderFollow ==
    ASSUME FInv, SInv', NEW o \in DOMAIN orders, OrderStep(o)
    PROVE  FInv'
<1>0. /\ TypeOK /\ req' = req /\ sessions' = sessions /\ SessionsKept
      /\ orders[o].table \in Tables
  BY RowTypes DEF OrderStep, SetOrderStatus, SetDish, Pay, FInv, SInv, TInv, SessionsKept
<1>1. ASSUME excuses' = Overlap({orders[o].table})
      PROVE  Grown /\ (Quiet(orders[o].table) \/ excuses'[orders[o].table] # {})
  BY <1>0, <1>1, OverlapKnown
<1>2. ASSUME NEW s \in OrderStatus, SetOrderStatus(o, s) PROVE FInv'
  <2>1. /\ SameRowsKept
        /\ \A p \in DOMAIN orders : p # o => orders'[p] = orders[p]
        /\ orders'[o].status = s
        /\ orders'[o].notes = orders[o].notes \cup
              (IF s # "CANCELLED" THEN {"staff"}
               ELSE IF Bumping(o) THEN {"overtaken"} ELSE {})
    BY <1>0, <1>2, SetStatusRows
  <2>2. Grown /\ (Quiet(orders[o].table) \/ excuses'[orders[o].table] # {})
    BY <1>1, <1>2 DEF SetOrderStatus
  <2>3. s = "CANCELLED" => ~Bumping(o) \/ Overtook(orders'[o])
    BY <2>1 DEF Overtook
  <2>4. QED
    BY <1>0, <2>1, <2>2, <2>3, InPlaceStep
<1>3. ASSUME NEW d \in Dishes, NEW b \in BOOLEAN, SetDish(o, d, b) PROVE FInv'
  <2>1. /\ SameRowsKept
        /\ \A p \in DOMAIN orders : p # o => orders'[p] = orders[p]
        /\ orders'[o].status = orders[o].status /\ orders'[o].paid = orders[o].paid
    BY <1>0, <1>3, SetDishRows
  <2>2. Grown
    BY <1>3 DEF SetDish, Grown
  <2>3. QED
    BY <1>0, <2>1, <2>2, InPlaceStep DEF Owes
<1>4. CASE Pay(o)
  <2>1. /\ SameRowsKept
        /\ \A p \in DOMAIN orders : p # o => orders'[p] = orders[p]
        /\ orders'[o].status = orders[o].status
    BY <1>0, <1>4, PayRows
  <2>2. Grown /\ (Quiet(orders[o].table) \/ excuses'[orders[o].table] # {})
    BY <1>1, <1>4 DEF Pay
  <2>3. QED
    BY <1>0, <2>1, <2>2, InPlaceStep
<1>5. QED
  BY <1>2, <1>3, <1>4 DEF OrderStep

\* An order that is created while its guests are moved has excused their table.
LEMMA CreateFollow ==
    ASSUME FInv, SInv', NEW t \in Tables, CreateOrder(t)
    PROVE  FInv'
<1> DEFINE n == Len(orders) + 1
<1>0. TInv /\ TypeOK
  BY DEF FInv, SInv, TInv
<1>1. /\ DOMAIN orders' = DOMAIN orders \cup {n} /\ n \notin DOMAIN orders
      /\ \A o \in DOMAIN orders : orders'[o] = orders[o]
      /\ orders'[n].table = t /\ orders'[n].seat \in {0} \cup OpenAt(t)
  BY <1>0, CreateRows
<1>2. req' = req /\ sessions' = sessions /\ excuses' = Overlap({t})
  BY DEF CreateOrder
<1>3. Grown /\ (Quiet(t) \/ excuses'[t] # {})
  BY <1>0, <1>2, OverlapKnown
<1> HIDE DEF n
<1>4. Follow(sessions, orders', excuses')
  <2>1. ASSUME NEW o \in DOMAIN orders
        PROVE  /\ orders[o].seat \in {0} \cup DOMAIN sessions
               /\ orders[o].seat # 0 /\ ~Overtook(orders[o]) =>
                     LET s == sessions[orders[o].seat] IN
                     s.open /\ excuses'[s.table] = {} /\ excuses'[orders[o].table] = {}
                         => orders[o].table = s.table
    <3>1. orders[o].table \in Tables
          /\ \A i \in DOMAIN sessions : sessions[i].table \in Tables
      BY <1>0, RowTypes
    <3>2. QED
      BY <1>3, <3>1 DEF FInv, Follow, Grown
  <2>2. /\ orders'[n].seat \in {0} \cup DOMAIN sessions
        /\ orders'[n].seat # 0 => sessions[orders'[n].seat].table = t
    BY <1>1 DEF OpenAt
  <2>3. QED
    BY <1>1, <2>1, <2>2 DEF Follow
<1>5. ASSUME NEW q \in Requests
      PROVE  Todo(req[q], orders', excuses') /\ Brings(req[q], orders')
  <2>1. req[q].pc \in BumpPcs => req[q].order \in DOMAIN orders
    BY <1>0 DEF TInv, Shape
  <2>2. Brings(req[q], orders')
    BY <1>1, <2>1 DEF FInv, Brings
  <2>3. Todo(req[q], orders', excuses')
    <3> SUFFICES ASSUME req[q].pc = "moveCommit" PROVE Todo(req[q], orders', excuses')
      BY DEF Todo
    <3>1. /\ req[q].table \in Tables /\ req[q].table \in req[q].at
          /\ Todo(req[q], orders, excuses)
      BY <1>0 DEF FInv, TInv, Shape, MovePcs
    <3>2. \A o \in DOMAIN orders : orders[o].table \in Tables
      BY <1>0, RowTypes
    <3>3. excuses'[req[q].table] = {} => req[q].table # t
      BY <1>3, <3>1 DEF Quiet
    <3>4. \A o \in req[q].todo :
             /\ o \in DOMAIN orders'
             /\ \/ orders'[o].table = req[q].table
                \/ excuses'[req[q].table] # {} /\ excuses'[orders'[o].table] # {}
      BY <1>1, <1>3, <3>1, <3>2 DEF Todo, Grown
    <3>5. ASSUME excuses'[req[q].table] = {}, NEW o \in DOMAIN orders',
                 orders'[o].table = req[q].table, Owes(orders'[o]), ~Overtook(orders'[o])
          PROVE  o \in req[q].todo
      <4>1. excuses[req[q].table] = {}
        BY <1>3, <3>1, <3>5 DEF Grown
      <4>2. o \in DOMAIN orders /\ orders'[o] = orders[o]
        BY <1>1, <3>3, <3>5
      <4>3. QED
        BY <3>1, <3>5, <4>1, <4>2 DEF Todo
    <3>6. QED
      BY <3>4, <3>5 DEF Todo
  <2>4. QED
    BY <2>2, <2>3
<1>6. QED
  BY <1>2, <1>4, <1>5 DEF FInv, Follow, Todo, Brings, Owes, Overtook

LEMMA TableFollow ==
    ASSUME FInv, SInv', NEW t \in Tables, TableStep(t)
    PROVE  FInv'
<1>0. /\ TypeOK /\ orders \in Seq(Order)
      /\ req' = req /\ sessions' = sessions /\ SessionsKept
  BY DEF TableStep, Merge, SetTableStatus, CompleteOrdersByTable, CreateOrder,
         FInv, SInv, TInv, TypeOK, SessionsKept
<1>1. CASE \/ \E S \in SUBSET Tables : Merge(t, S)
           \/ \E s \in TableStatus, S \in SUBSET Tables : SetTableStatus(t, s, S)
  <2>1. orders' = orders /\ Grown
    BY <1>1 DEF Merge, SetTableStatus, Grown, Note
  <2>2. SameRowsKept
    BY <1>0, <2>1 DEF SameRowsKept, SamePlace
  <2>3. QED
    BY <1>0, <2>1, <2>2, InPlaceStep
<1>2. CASE CompleteOrdersByTable(t)
  <2>1. /\ SameRowsKept /\ Grown
        /\ \A o \in DOMAIN orders :
              /\ Owes(orders'[o]) => Owes(orders[o])
              /\ orders'[o].status = "CANCELLED" => orders[o].status = "CANCELLED"
    BY <1>0, <1>2, FinishRows DEF CompleteOrdersByTable, Grown, Finishable, Owes
  <2>2. QED
    BY <1>0, <2>1, InPlaceStep
<1>3. CASE CreateOrder(t)
  BY <1>3, CreateFollow
<1>4. QED
  BY <1>1, <1>2, <1>3 DEF TableStep

\* The transfer itself: what the guests still owe for, and nothing of other guests,
\* is at their new table.
LEMMA MoveCommitFollow ==
    ASSUME FInv, SInv', NEW r \in Requests, MoveCommit(r)
    PROVE  FInv'
<1> DEFINE t == req[r].table
           to == req[r].to
           old == req[r].session
           todo == req[r].todo
           n == Len(sessions) + 1
<1>1. /\ TInv /\ TypeOK /\ req \in [Requests -> Handler] /\ req[r].pc = "moveCommit"
      /\ t \in Tables /\ to \in Tables /\ t # to /\ t \in req[r].at /\ to \in req[r].at
      /\ old # 0 => old \in DOMAIN sessions /\ sessions[old].table = t
      /\ Alone(req, excuses) /\ Follow(sessions, orders, excuses)
      /\ Knows(req[r], sessions, excuses) /\ Todo(req[r], orders, excuses)
      /\ req' = [req EXCEPT ![r] = Idle]
  <2>1. /\ TInv /\ Alone(req, excuses) /\ Follow(sessions, orders, excuses)
        /\ Knows(req[r], sessions, excuses) /\ Todo(req[r], orders, excuses)
    BY DEF FInv, SInv
  <2>2. req[r].pc = "moveCommit" /\ req' = [req EXCEPT ![r] = Idle]
    BY DEF MoveCommit, End
  <2>3. TypeOK /\ req \in [Requests -> Handler]
    BY <2>1 DEF TInv, TypeOK
  <2>4. /\ t \in Tables /\ to \in Tables /\ t # to /\ req[r].at = {t, to}
        /\ old # 0 => old \in DOMAIN sessions /\ sessions[old].table = t
    BY <2>1, <2>2 DEF TInv, Shape, MovePcs
  <2>5. QED
    BY <2>1, <2>2, <2>3, <2>4
<1>2. /\ \A y \in Tables : excuses'[y] = {} => excuses[y] = {}
      /\ excuses'[to] = {} => excuses[t] = {}
  BY <1>1 DEF MoveCommit, TypeOK
<1>3. /\ DOMAIN sessions' = DOMAIN sessions \cup {n} /\ n \notin DOMAIN sessions /\ n # 0
      /\ \A i \in DOMAIN sessions :
            /\ sessions'[i].table = sessions[i].table
            /\ sessions'[i].open = (sessions[i].open /\ i # old)
      /\ sessions'[n].table = to
      /\ DOMAIN orders' = DOMAIN orders
      /\ \A o \in DOMAIN orders :
            /\ orders'[o].table = IF o \in todo THEN to ELSE orders[o].table
            /\ orders'[o].seat = IF old # 0 /\ orders[o].seat = old /\ Active(o)
                                 THEN n ELSE orders[o].seat
            /\ orders'[o].status = orders[o].status
            /\ Owes(orders'[o]) = Owes(orders[o])
            /\ Overtook(orders'[o]) = Overtook(orders[o])
  <2>1. /\ sessions' \in Seq(Session) /\ Len(sessions') = Len(sessions) + 1
        /\ Len(sessions) \in Nat /\ DOMAIN sessions = 1..Len(sessions)
        /\ \A i \in DOMAIN sessions :
              /\ sessions'[i].table = sessions[i].table
              /\ sessions'[i].open = (sessions[i].open /\ i # req[r].session)
        /\ sessions'[Len(sessions) + 1] = [table |-> req[r].to, open |-> TRUE]
        /\ DOMAIN orders' = DOMAIN orders
        /\ \A o \in DOMAIN orders :
              /\ orders'[o].table = IF o \in req[r].todo THEN req[r].to
                                                         ELSE orders[o].table
              /\ orders'[o].seat = IF req[r].session # 0
                                      /\ orders[o].seat = req[r].session /\ Active(o)
                                   THEN Len(sessions) + 1 ELSE orders[o].seat
              /\ orders'[o].status = orders[o].status
              /\ orders'[o].paid = orders[o].paid
              /\ orders'[o].notes = orders[o].notes
    BY <1>1, CommitRows
  <2>2. DOMAIN sessions' = DOMAIN sessions \cup {n} /\ n \notin DOMAIN sessions /\ n # 0
    BY <2>1
  <2>3. QED
    BY <2>1, <2>2 DEF Owes, Overtook
<1>4. /\ excuses[t] = {} => OpenIn(sessions, t) = IF old = 0 THEN {} ELSE {old}
      /\ \A o \in todo :
            /\ o \in DOMAIN orders
            /\ orders[o].table = t \/ (excuses[t] # {} /\ excuses[orders[o].table] # {})
      /\ excuses[t] = {} =>
            \A o \in DOMAIN orders :
               orders[o].table = t /\ Owes(orders[o]) /\ ~Overtook(orders[o]) => o \in todo
  BY <1>1 DEF Knows, Todo
<1>5. /\ \A o \in DOMAIN orders : orders[o].table \in Tables
      /\ \A i \in DOMAIN sessions : i # 0 /\ sessions[i].table \in Tables
  BY <1>1, RowTypes
<1> HIDE DEF t, to, old, todo, n
<1>6. ASSUME NEW o \in DOMAIN orders
      PROVE  /\ orders'[o].seat \in {0} \cup DOMAIN sessions'
             /\ orders'[o].seat # 0 /\ ~Overtook(orders'[o])
                   /\ sessions'[orders'[o].seat].open
                   /\ excuses'[sessions'[orders'[o].seat].table] = {}
                   /\ excuses'[orders'[o].table] = {}
                => orders'[o].table = sessions'[orders'[o].seat].table
  <2> DEFINE i == orders[o].seat
  <2>1. /\ i \in {0} \cup DOMAIN sessions
        /\ i # 0 /\ ~Overtook(orders[o]) /\ sessions[i].open
              /\ excuses[sessions[i].table] = {} /\ excuses[orders[o].table] = {}
           => orders[o].table = sessions[i].table
    BY <1>1 DEF Follow
  <2>2. CASE old # 0 /\ i = old /\ Active(o)
    <3>1. orders'[o].seat = n /\ Owes(orders[o])
      BY <1>3, <2>2 DEF Active, Owes
    <3>2. ASSUME o \notin todo, ~Overtook(orders[o]), excuses'[to] = {},
                 excuses'[orders[o].table] = {}
          PROVE  FALSE
      <4>1. excuses[t] = {} /\ excuses[orders[o].table] = {}
        BY <1>2, <1>5, <3>2
      <4>2. old \in OpenIn(sessions, t)
        BY <1>4, <2>2, <4>1
      <4>3. sessions[old].open /\ sessions[old].table = t
        BY <4>2 DEF OpenIn
      <4>4. orders[o].table = t
        BY <2>1, <2>2, <3>2, <4>1, <4>3
      <4>5. QED
        BY <1>4, <3>1, <3>2, <4>1, <4>4
    <3>3. QED
      BY <1>3, <3>1, <3>2
  <2>3. CASE i = 0 /\ ~(old # 0 /\ i = old /\ Active(o))
    BY <1>3, <2>3
  <2>4. CASE i \in DOMAIN sessions /\ ~(old # 0 /\ i = old /\ Active(o))
    <3>1. orders'[o].seat = i /\ i \in DOMAIN sessions'
      BY <1>3, <2>4
    <3>2. ASSUME ~Overtook(orders'[o]), sessions'[i].open,
                 excuses'[sessions'[i].table] = {}, excuses'[orders'[o].table] = {}
          PROVE  orders'[o].table = sessions'[i].table
      <4>1. /\ i # 0 /\ i # old /\ sessions[i].open /\ ~Overtook(orders[o])
            /\ sessions'[i].table = sessions[i].table /\ excuses[sessions[i].table] = {}
        BY <1>2, <1>3, <1>5, <2>4, <3>2
      <4>2. CASE o \notin todo
        <5>1. orders'[o].table = orders[o].table /\ excuses[orders[o].table] = {}
          BY <1>2, <1>3, <1>5, <3>2, <4>2
        <5>2. QED
          BY <2>1, <4>1, <5>1
      <4>3. CASE o \in todo
        <5>1. orders'[o].table = to /\ excuses[t] = {}
          BY <1>2, <1>3, <3>2, <4>3
        <5>2. orders[o].table = t
          BY <1>4, <4>3, <5>1
        <5>3. sessions[i].table = t
          BY <2>1, <4>1, <5>1, <5>2
        <5>4. i \in OpenIn(sessions, t)
          BY <2>4, <4>1, <5>3 DEF OpenIn
        <5>5. QED
          BY <1>4, <4>1, <5>1, <5>4
      <4>4. QED
        BY <4>2, <4>3
    <3>3. QED
      BY <3>1, <3>2
  <2>5. QED
    BY <2>1, <2>2, <2>3, <2>4
<1>7. Follow(sessions', orders', excuses')
  BY <1>3, <1>6 DEF Follow
<1>8. ASSUME NEW q \in Requests, q # r
      PROVE  Todo(req[q], orders', excuses') /\ Brings(req[q], orders')
  <2>1. req[q].pc \in BumpPcs => req[q].order \in DOMAIN orders
    BY <1>1 DEF TInv, Shape
  <2>2. Brings(req[q], orders')
    BY <1>3, <2>1 DEF FInv, Brings
  <2>3. Todo(req[q], orders', excuses')
    <3> DEFINE tq == req[q].table
    <3> SUFFICES ASSUME req[q].pc = "moveCommit" PROVE Todo(req[q], orders', excuses')
      BY DEF Todo
    <3>1. tq \in Tables /\ tq \in req[q].at /\ Todo(req[q], orders, excuses)
      BY <1>1 DEF FInv, TInv, Shape, MovePcs
    <3>2. \A y \in {t, to} : tq = y => excuses[y] # {}
      BY <1>1, <1>8, <3>1 DEF Alone
    <3>3. ASSUME NEW o \in req[q].todo
          PROVE  /\ o \in DOMAIN orders'
                 /\ \/ orders'[o].table = tq
                    \/ excuses'[tq] # {} /\ excuses'[orders'[o].table] # {}
      <4>1. /\ o \in DOMAIN orders /\ orders[o].table \in Tables
            /\ orders[o].table = tq \/ (excuses[tq] # {} /\ excuses[orders[o].table] # {})
        BY <1>5, <3>1 DEF Todo
      <4>2. CASE o \notin todo
        BY <1>2, <1>3, <3>1, <4>1, <4>2
      <4>3. CASE o \in todo
        <5>1. excuses[t] # {}
          BY <1>4, <3>2, <4>1, <4>3
        <5>2. excuses[tq] # {}
          BY <1>4, <4>1, <4>3, <5>1
        <5>3. QED
          BY <1>1, <1>2, <1>3, <3>1, <4>1, <4>3, <5>1, <5>2
      <4>4. QED
        BY <4>2, <4>3
    <3>4. ASSUME excuses'[tq] = {}, NEW o \in DOMAIN orders',
                 orders'[o].table = tq, Owes(orders'[o]), ~Overtook(orders'[o])
          PROVE  o \in req[q].todo
      <4>1. excuses[tq] = {}
        BY <1>2, <3>1, <3>4
      <4>2. o \in DOMAIN orders /\ Owes(orders[o]) /\ ~Overtook(orders[o])
        BY <1>3, <3>4
      <4>3. o \notin todo
        BY <1>3, <3>2, <3>4, <4>1, <4>2
      <4>4. orders[o].table = tq
        BY <1>3, <3>4, <4>2, <4>3
      <4>5. QED
        BY <3>1, <4>1, <4>2, <4>4 DEF Todo
    <3>5. QED
      BY <3>3, <3>4 DEF Todo
  <2>4. QED
    BY <2>2, <2>3
<1>9. \A q \in Requests : Todo(req'[q], orders', excuses') /\ Brings(req'[q], orders')
  <2>1. req'[r] = Idle /\ \A q \in Requests : q # r => req'[q] = req[q]
    BY <1>1
  <2>2. QED
    BY <1>8, <2>1, IdleTodo
<1>10. QED
  BY <1>7, <1>9 DEF FInv, Follow, Todo, Brings, Owes, Overtook

LEMMA FInvInit == Init => FInv
<1> SUFFICES ASSUME Init PROVE FInv
  OBVIOUS
<1>1. Follow(sessions, orders, excuses)
  BY DEF Init, Follow
<1>2. QED
  BY <1>1, SInvInit, IdleTodo DEF FInv, Init

LEMMA FInvNext == FInv /\ [Next]_vars => FInv'
<1> SUFFICES ASSUME FInv, [Next]_vars PROVE FInv'
  OBVIOUS
<1>0. SInv'
  BY SInvNext DEF FInv
<1>1. ASSUME NEW r \in Requests, OtherStep(r) PROVE FInv'
  BY <1>0, <1>1, MoveCommitFollow, OrderHandlerFollow, OtherFollow
<1>2. ASSUME NEW r \in Requests, BumpWrite(r) \/ BumpCheck(r) \/ BumpComplete(r) \/ Abort(r)
      PROVE  FInv'
  BY <1>0, <1>2, OrderHandlerFollow
<1>3. ASSUME NEW r \in Requests, HandlerStep(r) PROVE FInv'
  BY <1>1, <1>2, <1>3 DEF HandlerStep, OtherStep
<1>4. ASSUME NEW r \in Requests, KitchenRequest(r) PROVE FInv'
  BY <1>0, <1>1, <1>4, BumpFollow DEF KitchenRequest, OtherStep
<1>5. ASSUME NEW r \in Requests, NEW t \in Tables, NewRequest(r, t) PROVE FInv'
  BY <1>1, <1>5 DEF OtherStep
<1>6. ASSUME NEW t \in Tables, TableStep(t) PROVE FInv'
  BY <1>0, <1>6, TableFollow
<1>7. ASSUME NEW o \in DOMAIN orders, OrderStep(o) PROVE FInv'
  BY <1>0, <1>7, OrderFollow
<1>8. CASE UNCHANGED vars
  BY <1>0, <1>8 DEF vars, FInv, Follow, Todo, Brings, Owes, Overtook
<1>9. QED
  BY <1>2, <1>3, <1>4, <1>5, <1>6, <1>7, <1>8 DEF Next

\* Guests who are moved, once or often, take along what they owe for: an unpaid
\* order is at the table of its guests' session, unless one of the two tables is
\* excused or a bump brought the order back.
THEOREM OrdersStayWithGuests == Spec => []OrdersFollowGuests
<1>1. FInv => OrdersFollowGuests
  BY DEF FInv, Follow, OrdersFollowGuests, Overtook
<1>2. QED
  BY FInvInit, FInvNext, <1>1, PTL DEF Spec

-----------------------------------------------------------------------------
(* The kitchen.  A bump decides on an order's status that it read before its *)
(* first write and on dishes that it reads after.  The invariant says what   *)
(* either is still worth when the bump writes the order: a row w is right    *)
(* (RowOK), a handler knows enough about it (HandlerOK), and an order that   *)
(* waits to be completed has a handler that will.                            *)

\* Nothing but bumps and cancellations has touched the order.
Plain(w) == w.notes \subseteq {"overtaken"}

\* Nothing explains that a cancelled order is cancelled no more.
Clean(w) == {"staff", "overtaken"} \cap w.notes = {}

Ready(w) == \A d \in Dishes : w.done[d]

Waiting(w) == Plain(w) /\ w.status = "PREPARING" /\ Ready(w)

RowOK(w) ==
    /\ Plain(w) => /\ w.status \in {"PREPARING", "COMPLETED", "CANCELLED"}
                   /\ w.status = "COMPLETED" => Ready(w)
    /\ w.cancelled /\ Clean(w) => w.status = "CANCELLED"

\* What handler h, which bumps a dish of the order w, can rely on.
HandlerOK(h, w) ==
    /\ h.pc = "bumpComplete" => h.preparing /\ (Plain(w) => Ready(w))
    /\ ~h.preparing /\ Plain(w) => w.status # "PREPARING"
    /\ h.preparing /\ w.cancelled => ~Clean(w)

\* Handler h has written its dish, and will complete order o if all are done.
Checking(h, o) == h.pc \in {"bumpCheck", "bumpComplete"} /\ h.order = o /\ h.preparing

KInv ==
    /\ TInv
    /\ \A o \in DOMAIN orders :
          /\ RowOK(orders[o])
          /\ Waiting(orders[o]) => \E r \in Requests : Checking(req[r], o)
    /\ \A r \in Requests : req[r].pc \in BumpPcs => HandlerOK(req[r], orders[req[r].order])

-----------------------------------------------------------------------------
\* A step that leaves the bumps alone.
LEMMA BumpsKept ==
    ASSUME KInv, TInv',
           \A q \in Requests :
              req'[q].pc \in BumpPcs \/ req[q].pc \in BumpPcs => req'[q] = req[q],
           DOMAIN orders \subseteq DOMAIN orders',
           \A o \in DOMAIN orders' \ DOMAIN orders :
              RowOK(orders'[o]) /\ ~Waiting(orders'[o]),
           \A o \in DOMAIN orders :
              /\ RowOK(orders'[o])
              /\ Waiting(orders'[o]) => Waiting(orders[o])
              /\ \A q \in Requests :
                    req[q].pc \in BumpPcs /\ req[q].order = o => HandlerOK(req[q], orders'[o])
    PROVE  KInv'
<1>1. ASSUME NEW o \in DOMAIN orders', Waiting(orders'[o])
      PROVE  \E r \in Requests : Checking(req'[r], o)
  <2>1. o \in DOMAIN orders /\ Waiting(orders[o])
    BY <1>1
  <2>2. PICK r \in Requests : Checking(req[r], o)
    BY <2>1 DEF KInv
  <2>3. req'[r] = req[r]
    BY <2>2 DEF Checking, BumpPcs
  <2>4. QED
    BY <2>2, <2>3
<1>2. ASSUME NEW q \in Requests, req'[q].pc \in BumpPcs
      PROVE  HandlerOK(req'[q], orders'[req'[q].order])
  <2>1. req'[q] = req[q] /\ req[q].pc \in BumpPcs
    BY <1>2
  <2>2. req[q].order \in DOMAIN orders
    BY <2>1 DEF KInv, TInv, Shape
  <2>3. QED
    BY <2>1, <2>2
<1>3. \A o \in DOMAIN orders' : RowOK(orders'[o])
  OBVIOUS
<1>4. QED
  BY <1>1, <1>2, <1>3 DEF KInv, RowOK, Waiting, Checking, HandlerOK, Plain, Clean, Ready

\* What is known of a row survives when the row only gets older.
LEMMA OlderRow ==
    ASSUME NEW w, NEW v, v.status = w.status, v.done = w.done,
           v.cancelled = w.cancelled, w.notes \subseteq v.notes, RowOK(w)
    PROVE  /\ RowOK(v)
           /\ Waiting(v) => Waiting(w)
           /\ \A h : HandlerOK(h, w) => HandlerOK(h, v)
  BY DEF RowOK, Waiting, HandlerOK, Plain, Clean, Ready

\* A step that changes no order and starts, ends or moves no bump.
LEMMA OrdersKept ==
    ASSUME KInv, TInv', orders' = orders,
           \A q \in Requests :
              req'[q].pc \in BumpPcs \/ req[q].pc \in BumpPcs => req'[q] = req[q]
    PROVE  KInv'
<1>1. \A o \in DOMAIN orders :
         /\ RowOK(orders[o])
         /\ \A q \in Requests :
               req[q].pc \in BumpPcs /\ req[q].order = o => HandlerOK(req[q], orders[o])
  BY DEF KInv
<1>2. QED
  BY <1>1, BumpsKept

-----------------------------------------------------------------------------
\* Handlers that are no bumps, before and after their step.
LEMMA OtherBumps ==
    ASSUME TInv, NEW r \in Requests, OtherStep(r)
    PROVE  \A q \in Requests :
              req'[q].pc \in BumpPcs \/ req[q].pc \in BumpPcs => req'[q] = req[q]
<1>1. req \in [Requests -> Handler]
  BY DEF TInv, TypeOK
<1>2. \A x \in OtherPcs \cup {"moveCommit"} : x \notin BumpPcs
  BY DEF OtherPcs, OpenPcs, ClosePcs, UnmergePcs, BumpPcs
<1>3. QED
  BY <1>1, <1>2, OtherSlots

\* The transfer changes where orders are, not what is cooked.
LEMMA CommitKept ==
    ASSUME KInv, TInv', NEW r \in Requests, MoveCommit(r)
    PROVE  KInv'
<1>1. /\ DOMAIN orders' = DOMAIN orders
      /\ \A o \in DOMAIN orders :
            /\ orders'[o].status = orders[o].status /\ orders'[o].done = orders[o].done
            /\ orders'[o].cancelled = orders[o].cancelled
            /\ orders'[o].notes = orders[o].notes
  BY CommitRows DEF KInv
<1>2. ASSUME NEW o \in DOMAIN orders
      PROVE  /\ RowOK(orders'[o])
             /\ Waiting(orders'[o]) => Waiting(orders[o])
             /\ \A q \in Requests :
                   req[q].pc \in BumpPcs /\ req[q].order = o
                      => HandlerOK(req[q], orders'[o])
  BY <1>1, OlderRow DEF KInv
<1>3. \A q \in Requests :
         req'[q].pc \in BumpPcs \/ req[q].pc \in BumpPcs => req'[q] = req[q]
  BY OtherBumps DEF KInv, OtherStep
<1>4. QED
  BY <1>1, <1>2, <1>3, BumpsKept

\* Answers to requests for the bill complete orders that are in preparation:
\* none that is cancelled, and they note it.
LEMMA FinishKept ==
    ASSUME KInv, TInv', NEW t, Finish(t),
           \A q \in Requests :
              req'[q].pc \in BumpPcs \/ req[q].pc \in BumpPcs => req'[q] = req[q]
    PROVE  KInv'
<1>1. TypeOK
  BY DEF KInv, TInv
<1>2. ASSUME NEW o \in DOMAIN orders
      PROVE  /\ RowOK(orders'[o])
             /\ Waiting(orders'[o]) => Waiting(orders[o])
             /\ \A q \in Requests :
                   req[q].pc \in BumpPcs /\ req[q].order = o
                      => HandlerOK(req[q], orders'[o])
  <2>1. /\ orders'[o].done = orders[o].done /\ orders'[o].cancelled = orders[o].cancelled
        /\ Finishable(o, t) => /\ orders'[o].status = "COMPLETED"
                               /\ orders'[o].notes = orders[o].notes \cup {"bill"}
        /\ ~Finishable(o, t) => /\ orders'[o].status = orders[o].status
                                /\ orders'[o].notes = orders[o].notes
    BY <1>1, FinishRows
  <2>2. RowOK(orders[o])
    BY DEF KInv
  <2>3. CASE Finishable(o, t)
    <3>1. orders[o].status = "PREPARING"
      BY <2>3 DEF Finishable
    <3>2. ~Plain(orders'[o]) /\ (Clean(orders'[o]) <=> Clean(orders[o]))
      BY <2>1, <2>3 DEF Plain, Clean
    <3>3. RowOK(orders'[o]) /\ ~Waiting(orders'[o])
      BY <2>1, <2>2, <3>1, <3>2 DEF RowOK, Waiting
    <3>4. \A h : HandlerOK(h, orders[o]) => HandlerOK(h, orders'[o])
      BY <2>1, <3>2 DEF HandlerOK
    <3>5. QED
      BY <3>3, <3>4 DEF KInv
  <2>4. CASE ~Finishable(o, t)
    BY <2>1, <2>2, <2>4, OlderRow DEF KInv
  <2>5. QED
    BY <2>3, <2>4
<1>3. DOMAIN orders' = DOMAIN orders
  BY <1>1, FinishRows DEF SameRowsKept
<1>4. QED
  BY <1>2, <1>3, BumpsKept

\* The steps that are not the kitchen's.
LEMMA OtherSteps ==
    ASSUME KInv, TInv', NEW r \in Requests, OtherStep(r)
    PROVE  KInv'
<1>1. TInv
  BY DEF KInv
<1>2. CASE MoveCommit(r)
  BY <1>2, CommitKept
<1>3. CASE AnswerOrders(r)
  <2>1. Finish(req[r].table)
    BY <1>3 DEF AnswerOrders
  <2>2. QED
    BY <1>1, <2>1, OtherBumps, FinishKept
<1>4. CASE ~MoveCommit(r) /\ ~AnswerOrders(r)
  <2>1. orders' = orders
    BY <1>4 DEF OtherStep, NewRequest, Open, Close, Move, Unmerge, CreateBill, AnswerBill,
                OpenCheck, OpenInsert, OpenMark, CloseWrite, CloseMark, MoveTo,
                MoveSession, MoveOrders, UnmergeFree, UnmergeWrite, BillMark
  <2>2. QED
    BY <1>1, <2>1, OtherBumps, OrdersKept
<1>5. QED
  BY <1>2, <1>3, <1>4

LEMMA TableKept ==
    ASSUME KInv, TInv', NEW t \in Tables, TableStep(t)
    PROVE  KInv'
<1>1. req' = req
  BY DEF TableStep, Merge, SetTableStatus, CompleteOrdersByTable, CreateOrder
<1>2. CASE \/ \E S \in SUBSET Tables : Merge(t, S)
           \/ \E s \in TableStatus, S \in SUBSET Tables : SetTableStatus(t, s, S)
  <2>1. orders' = orders
    BY <1>2 DEF Merge, SetTableStatus
  <2>2. QED
    BY <1>1, <2>1, OrdersKept
<1>3. CASE CompleteOrdersByTable(t)
  BY <1>1, <1>3, FinishKept DEF CompleteOrdersByTable
<1>4. CASE CreateOrder(t)
  <2> DEFINE n == Len(orders) + 1
  <2>1. /\ DOMAIN orders' = DOMAIN orders \cup {n}
        /\ \A o \in DOMAIN orders : orders'[o] = orders[o]
        /\ orders'[n].status = "PREPARING" /\ ~orders'[n].cancelled
        /\ orders'[n].done = [d \in Dishes |-> FALSE]
    BY <1>4, CreateRows DEF KInv
  <2> HIDE DEF n
  <2>2. ~Ready(orders'[n])
    BY <2>1, FloorAssumption DEF Ready
  <2>3. RowOK(orders'[n]) /\ ~Waiting(orders'[n])
    BY <2>1, <2>2 DEF RowOK, Waiting
  <2>4. ASSUME NEW o \in DOMAIN orders
        PROVE  /\ RowOK(orders'[o])
               /\ Waiting(orders'[o]) => Waiting(orders[o])
               /\ \A q \in Requests :
                     req[q].pc \in BumpPcs /\ req[q].order = o
                        => HandlerOK(req[q], orders'[o])
    BY <2>1 DEF KInv
  <2>5. QED
    BY <1>1, <2>1, <2>3, <2>4, BumpsKept
<1>5. QED
  BY <1>2, <1>3, <1>4 DEF TableStep

LEMMA OrderKept ==
    ASSUME KInv, TInv', NEW o \in DOMAIN orders, OrderStep(o)
    PROVE  KInv'
<1>1. req' = req /\ TypeOK /\ RowOK(orders[o])
  BY DEF OrderStep, SetOrderStatus, SetDish, Pay, KInv, TInv
<1>2. SameRowsKept /\ \A p \in DOMAIN orders : p # o => orders'[p] = orders[p]
  BY <1>1, SetStatusRows, SetDishRows, PayRows DEF OrderStep
<1>3. SUFFICES /\ RowOK(orders'[o])
               /\ Waiting(orders'[o]) => Waiting(orders[o])
               /\ \A q \in Requests :
                     req[q].pc \in BumpPcs /\ req[q].order = o
                        => HandlerOK(req[q], orders'[o])
  <2>1. ASSUME NEW p \in DOMAIN orders
        PROVE  /\ RowOK(orders'[p])
               /\ Waiting(orders'[p]) => Waiting(orders[p])
               /\ \A q \in Requests :
                     req[q].pc \in BumpPcs /\ req[q].order = p
                        => HandlerOK(req[q], orders'[p])
    BY <1>2, <1>3 DEF KInv
  <2>2. QED
    BY <1>1, <1>2, <2>1, BumpsKept DEF SameRowsKept
<1>4. \A q \in Requests :
         req[q].pc \in BumpPcs /\ req[q].order = o => HandlerOK(req[q], orders[o])
  BY DEF KInv
<1>5. ASSUME NEW s \in OrderStatus, SetOrderStatus(o, s), s # "CANCELLED"
      PROVE  /\ RowOK(orders'[o]) /\ ~Waiting(orders'[o])
             /\ \A h : HandlerOK(h, orders[o]) => HandlerOK(h, orders'[o])
  <2>1. ~Plain(orders'[o]) /\ ~Clean(orders'[o])
    BY <1>1, <1>5, SetStatusRows DEF Plain, Clean
  <2>2. QED
    BY <2>1 DEF RowOK, Waiting, HandlerOK
<1>6. ASSUME SetOrderStatus(o, "CANCELLED")
      PROVE  /\ RowOK(orders'[o]) /\ ~Waiting(orders'[o])
             /\ \A q \in Requests :
                   req[q].pc \in BumpPcs /\ req[q].order = o
                      => HandlerOK(req[q], orders'[o])
  <2>1. /\ orders'[o].status = "CANCELLED" /\ orders'[o].done = orders[o].done
        /\ orders'[o].notes = orders[o].notes
                                \cup (IF Bumping(o) THEN {"overtaken"} ELSE {})
    BY <1>1, <1>6, SetStatusRows DEF OrderStatus
  <2>2. RowOK(orders'[o]) /\ ~Waiting(orders'[o])
    BY <2>1 DEF RowOK, Waiting
  <2>3. ASSUME NEW q \in Requests, req[q].pc \in BumpPcs, req[q].order = o
        PROVE  HandlerOK(req[q], orders'[o])
    <3>1. Bumping(o)
      BY <2>3 DEF Bumping, BumpPcs
    <3>2. ~Clean(orders'[o])
      BY <2>1, <3>1 DEF Clean
    <3>3. HandlerOK(req[q], orders[o])
      BY <1>4, <2>3
    <3>4. Plain(orders'[o]) => Plain(orders[o])
      BY <2>1 DEF Plain
    <3>5. QED
      BY <2>1, <3>2, <3>3, <3>4 DEF HandlerOK, Ready
  <2>4. QED
    BY <2>2, <2>3
<1>7. ASSUME NEW d \in Dishes, NEW b \in BOOLEAN, SetDish(o, d, b)
      PROVE  /\ RowOK(orders'[o]) /\ ~Waiting(orders'[o])
             /\ \A h : HandlerOK(h, orders[o]) => HandlerOK(h, orders'[o])
  <2>1. ~Plain(orders'[o]) /\ ~Clean(orders'[o])
    BY <1>1, <1>7, SetDishRows DEF Plain, Clean
  <2>2. QED
    BY <2>1 DEF RowOK, Waiting, HandlerOK
<1>8. ASSUME Pay(o)
      PROVE  /\ RowOK(orders'[o]) /\ (Waiting(orders'[o]) => Waiting(orders[o]))
             /\ \A h : HandlerOK(h, orders[o]) => HandlerOK(h, orders'[o])
  BY <1>1, <1>8, PayRows, OlderRow
<1>9. QED
  BY <1>4, <1>5, <1>6, <1>7, <1>8 DEF OrderStep

-----------------------------------------------------------------------------
\* A step of the bump in slot r, or of its failure.
LEMMA BumpMoved ==
    ASSUME KInv, TInv', NEW r \in Requests,
           \A q \in Requests : q # r => req'[q] = req[q],
           DOMAIN orders' = DOMAIN orders,
           \A o \in DOMAIN orders :
              /\ RowOK(orders'[o])
              /\ Waiting(orders'[o]) =>
                    Checking(req'[r], o) \/ (Waiting(orders[o]) /\ ~Checking(req[r], o))
              /\ \A q \in Requests :
                    q # r /\ req[q].pc \in BumpPcs /\ req[q].order = o
                       => HandlerOK(req[q], orders'[o]),
           req'[r].pc \in BumpPcs => HandlerOK(req'[r], orders'[req'[r].order])
    PROVE  KInv'
<1>1. ASSUME NEW o \in DOMAIN orders', Waiting(orders'[o])
      PROVE  \E q \in Requests : Checking(req'[q], o)
  <2>1. CASE Checking(req'[r], o)
    BY <2>1
  <2>2. CASE Waiting(orders[o]) /\ ~Checking(req[r], o)
    <3>1. PICK q \in Requests : Checking(req[q], o)
      BY <2>2 DEF KInv
    <3>2. q # r /\ req'[q] = req[q]
      BY <2>2, <3>1
    <3>3. QED
      BY <3>1, <3>2
  <2>3. QED
    BY <1>1, <2>1, <2>2
<1>2. ASSUME NEW q \in Requests, req'[q].pc \in BumpPcs
      PROVE  HandlerOK(req'[q], orders'[req'[q].order])
  <2>1. CASE q = r
    BY <1>2, <2>1
  <2>2. CASE q # r
    <3>1. req'[q] = req[q] /\ req[q].order \in DOMAIN orders
      BY <1>2, <2>2 DEF KInv, TInv, Shape
    <3>2. QED
      BY <1>2, <2>2, <3>1
  <2>3. QED
    BY <2>1, <2>2
<1>3. \A o \in DOMAIN orders' : RowOK(orders'[o])
  OBVIOUS
<1>4. QED
  BY <1>1, <1>2, <1>3 DEF KInv, RowOK, Waiting, Checking, HandlerOK, Plain, Clean, Ready

\* A bump begins with the order's status.
LEMMA BumpKept ==
    ASSUME KInv, TInv', NEW r \in Requests, NEW o \in DOMAIN orders, NEW d \in Dishes,
           NEW b \in BOOLEAN, Bump(r, o, d, b)
    PROVE  KInv'
<1> DEFINE h == [Idle EXCEPT !.pc = "bumpWrite", !.order = o, !.dish = {d}, !.done = b,
                             !.preparing = orders[o].status = "PREPARING"]
<1>1. /\ req' = [req EXCEPT ![r] = h] /\ orders' = orders /\ req[r].pc = "idle"
      /\ req \in [Requests -> Handler]
  BY DEF Bump, Begin, KInv, TInv, TypeOK
<1>2. h.pc = "bumpWrite" /\ h.order = o /\ h.preparing = (orders[o].status = "PREPARING")
  BY DEF Idle
<1> HIDE DEF h
<1>3. req'[r] = h /\ \A q \in Requests : q # r => req'[q] = req[q]
  BY <1>1
<1>4. RowOK(orders[o])
  BY DEF KInv
<1>5. HandlerOK(h, orders[o])
  BY <1>2, <1>4 DEF HandlerOK, RowOK
<1>6. ASSUME NEW p \in DOMAIN orders
      PROVE  /\ RowOK(orders'[p])
             /\ Waiting(orders'[p]) => Waiting(orders[p]) /\ ~Checking(req[r], p)
             /\ \A q \in Requests :
                   q # r /\ req[q].pc \in BumpPcs /\ req[q].order = p
                      => HandlerOK(req[q], orders'[p])
  BY <1>1 DEF KInv, Checking
<1>7. QED
  BY <1>1, <1>2, <1>3, <1>5, <1>6, BumpMoved

LEMMA WriteKept ==
    ASSUME KInv, TInv', NEW r \in Requests, BumpWrite(r)
    PROVE  KInv'
<1>1. /\ req[r].pc = "bumpWrite" /\ req[r].order \in DOMAIN orders
      /\ TInv /\ HandlerOK(req[r], orders[req[r].order])
  BY DEF BumpWrite, KInv, TInv, Shape, BumpPcs
<1>2. PICK h \in Handler :
         /\ req' = [req EXCEPT ![r] = h]
         /\ h.pc = "bumpCheck" /\ h.order = req[r].order /\ h.preparing = req[r].preparing
  <2>1. Goto(r, "bumpCheck")
    BY DEF BumpWrite
  <2>2. QED
    BY <1>1, <2>1, GotoSlot
<1>3. req'[r] = h /\ \A q \in Requests : q # r => req'[q] = req[q]
  BY <1>1, <1>2 DEF TInv, TypeOK
<1> DEFINE o == req[r].order
           w == orders[o]
           v == orders'[o]
<1>4. /\ DOMAIN orders' = DOMAIN orders
      /\ \A p \in DOMAIN orders : p # o => orders'[p] = orders[p]
      /\ v.status = w.status /\ v.cancelled = w.cancelled
      /\ v.notes \ {"undone"} = w.notes \ {"undone"} /\ w.notes \subseteq v.notes
      /\ "undone" \in v.notes \/ (Ready(w) => Ready(v))
  BY <1>1, BumpWriteRows DEF SameRowsKept, SamePlace, Ready
<1>5. RowOK(w)
  BY <1>1 DEF KInv
<1> HIDE DEF w, v
<1>6. /\ Plain(v) => Plain(w) /\ (Ready(w) => Ready(v))
      /\ Clean(v) <=> Clean(w)
  BY <1>4 DEF Plain, Clean
<1>7. RowOK(v) /\ \A g : HandlerOK(g, w) => HandlerOK(g, v)
  BY <1>4, <1>5, <1>6 DEF RowOK, HandlerOK
<1>8. HandlerOK(h, v)
  <2>1. HandlerOK(req[r], v)
    BY <1>1, <1>7 DEF w
  <2>2. QED
    BY <1>1, <1>2, <2>1 DEF HandlerOK
<1>9. Waiting(v) => Checking(h, o)
  BY <1>1, <1>2, <1>8 DEF Waiting, Checking, HandlerOK
<1>10. ASSUME NEW p \in DOMAIN orders
       PROVE  /\ RowOK(orders'[p])
              /\ Waiting(orders'[p]) =>
                    Checking(req'[r], p) \/ (Waiting(orders[p]) /\ ~Checking(req[r], p))
              /\ \A q \in Requests :
                    q # r /\ req[q].pc \in BumpPcs /\ req[q].order = p
                       => HandlerOK(req[q], orders'[p])
  <2>1. CASE p = o
    BY <1>3, <1>7, <1>9, <2>1 DEF KInv, v, w
  <2>2. CASE p # o
    <3>1. orders'[p] = orders[p] /\ ~Checking(req[r], p)
      BY <1>4, <2>2 DEF Checking
    <3>2. QED
      BY <3>1 DEF KInv
  <2>3. QED
    BY <2>1, <2>2
<1>11. QED
  BY <1>2, <1>3, <1>4, <1>8, <1>10, BumpMoved DEF v

\* The dishes are all done and it was in preparation, or the bump ends.
LEMMA CheckKept ==
    ASSUME KInv, TInv', NEW r \in Requests, BumpCheck(r)
    PROVE  KInv'
<1>1. /\ req[r].pc = "bumpCheck" /\ req[r].order \in DOMAIN orders
      /\ TInv /\ HandlerOK(req[r], orders[req[r].order]) /\ orders' = orders
  BY DEF BumpCheck, KInv, TInv, Shape, BumpPcs
<1>2. \A p \in DOMAIN orders :
         /\ RowOK(orders'[p])
         /\ Waiting(orders'[p]) => Waiting(orders[p])
         /\ \A q \in Requests :
               q # r /\ req[q].pc \in BumpPcs /\ req[q].order = p
                  => HandlerOK(req[q], orders'[p])
  BY <1>1 DEF KInv
<1>3. CASE Completable(req[r])
  <2>1. Goto(r, "bumpComplete")
    BY <1>3 DEF BumpCheck
  <2>2. PICK h \in Handler :
           /\ req' = [req EXCEPT ![r] = h] /\ h.pc = "bumpComplete"
           /\ h.order = req[r].order /\ h.preparing = req[r].preparing
    BY <1>1, <2>1, GotoSlot
  <2>3. req'[r] = h /\ \A q \in Requests : q # r => req'[q] = req[q]
    BY <1>1, <2>2 DEF TInv, TypeOK
  <2>4. HandlerOK(h, orders[h.order])
    BY <1>1, <1>3, <2>2 DEF Completable, AllDone, HandlerOK, Ready
  <2>5. \A p : Checking(req[r], p) => Checking(h, p)
    BY <2>2 DEF Checking
  <2>6. QED
    BY <1>1, <1>2, <2>2, <2>3, <2>4, <2>5, BumpMoved
<1>4. CASE ~Completable(req[r])
  <2>1. req' = [req EXCEPT ![r] = Idle]
    BY <1>4 DEF BumpCheck, End
  <2>2. req'[r] = Idle /\ \A q \in Requests : q # r => req'[q] = req[q]
    BY <1>1, <2>1 DEF TInv, TypeOK
  <2>3. Idle.pc \notin BumpPcs
    BY DEF Idle, BumpPcs
  <2>4. \A p \in DOMAIN orders : Waiting(orders[p]) => ~Checking(req[r], p)
    BY <1>1, <1>4 DEF Completable, AllDone, Waiting, Ready, Checking
  <2>5. QED
    BY <1>1, <1>2, <2>2, <2>3, <2>4, BumpMoved
<1>5. QED
  BY <1>3, <1>4

LEMMA CompleteKept ==
    ASSUME KInv, TInv', NEW r \in Requests, BumpComplete(r)
    PROVE  KInv'
<1>1. /\ req[r].pc = "bumpComplete" /\ req[r].order \in DOMAIN orders
      /\ TypeOK /\ HandlerOK(req[r], orders[req[r].order])
      /\ req' = [req EXCEPT ![r] = Idle]
  BY DEF BumpComplete, End, KInv, TInv, Shape, BumpPcs
<1>2. req'[r] = Idle /\ \A q \in Requests : q # r => req'[q] = req[q]
  BY <1>1 DEF TypeOK
<1>3. Idle.pc \notin BumpPcs
  BY DEF Idle, BumpPcs
<1>4. ASSUME NEW p \in DOMAIN orders
      PROVE  /\ RowOK(orders'[p])
             /\ Waiting(orders'[p]) => Waiting(orders[p]) /\ ~Checking(req[r], p)
             /\ \A q \in Requests :
                   q # r /\ req[q].pc \in BumpPcs /\ req[q].order = p
                      => HandlerOK(req[q], orders'[p])
  <2> DEFINE w == orders[p]
             v == orders'[p]
  <2>1. /\ v.done = w.done /\ v.cancelled = w.cancelled /\ v.notes = w.notes
        /\ v.status = IF p = req[r].order THEN "COMPLETED" ELSE w.status
    BY <1>1, BumpCompleteRows
  <2>2. RowOK(w) /\ (p = req[r].order => HandlerOK(req[r], w))
    BY <1>1 DEF KInv
  <2>3. \A q \in Requests : req[q].pc \in BumpPcs /\ req[q].order = p
                                => HandlerOK(req[q], w)
    BY DEF KInv
  <2> HIDE DEF w, v
  <2>4. CASE p = req[r].order
    <3>1. RowOK(v) /\ ~Waiting(v)
      BY <1>1, <2>1, <2>2, <2>4 DEF RowOK, HandlerOK, Waiting, Plain, Clean, Ready
    <3>2. \A h : HandlerOK(h, w) => HandlerOK(h, v)
      BY <2>1, <2>4 DEF HandlerOK, Plain, Clean, Ready
    <3>3. QED
      BY <2>3, <3>1, <3>2 DEF v
  <2>5. CASE p # req[r].order
    BY <2>1, <2>2, <2>3, <2>5, OlderRow DEF v, w, Checking
  <2>6. QED
    BY <2>4, <2>5
<1>5. DOMAIN orders' = DOMAIN orders
  BY <1>1, BumpCompleteRows DEF SameRowsKept
<1>6. QED
  BY <1>2, <1>3, <1>4, <1>5, BumpMoved

\* A handler fails: if it was a bump, its order notes it.
LEMMA AbortKept ==
    ASSUME KInv, TInv', NEW r \in Requests, Abort(r)
    PROVE  KInv'
<1>1. TypeOK /\ req' = [req EXCEPT ![r] = Idle]
  BY DEF Abort, End, KInv, TInv
<1>2. req'[r] = Idle /\ \A q \in Requests : q # r => req'[q] = req[q]
  BY <1>1 DEF TypeOK
<1>3. Idle.pc \notin BumpPcs
  BY DEF Idle, BumpPcs
<1>4. ASSUME NEW p \in DOMAIN orders
      PROVE  /\ RowOK(orders'[p])
             /\ Waiting(orders'[p]) => Waiting(orders[p]) /\ ~Checking(req[r], p)
             /\ \A q \in Requests :
                   q # r /\ req[q].pc \in BumpPcs /\ req[q].order = p
                      => HandlerOK(req[q], orders'[p])
  <2> DEFINE w == orders[p]
             v == orders'[p]
  <2>1. /\ v.done = w.done /\ v.cancelled = w.cancelled /\ v.status = w.status
        /\ v.notes = IF p = req[r].order THEN w.notes \cup {"fault"} ELSE w.notes
    BY <1>1, AbortRows
  <2>2. RowOK(w) /\ \A q \in Requests : req[q].pc \in BumpPcs /\ req[q].order = p
                                            => HandlerOK(req[q], w)
    BY DEF KInv
  <2> HIDE DEF w, v
  <2>3. w.notes \subseteq v.notes
    BY <2>1
  <2>4. RowOK(v) /\ (Waiting(v) => Waiting(w)) /\ \A h : HandlerOK(h, w) => HandlerOK(h, v)
    BY <2>1, <2>2, <2>3, OlderRow
  <2>5. Waiting(v) => ~Checking(req[r], p)
    BY <2>1 DEF Waiting, Plain, Checking
  <2>6. QED
    BY <2>2, <2>4, <2>5 DEF v, w
<1>5. DOMAIN orders' = DOMAIN orders
  BY <1>1, AbortRows DEF SameRowsKept
<1>6. QED
  BY <1>2, <1>3, <1>4, <1>5, BumpMoved

-----------------------------------------------------------------------------
LEMMA KInvInit == Init => KInv
  BY TInvInit DEF Init, KInv, Idle, BumpPcs

LEMMA KInvNext == KInv /\ [Next]_vars => KInv'
<1> SUFFICES ASSUME KInv, [Next]_vars PROVE KInv'
  OBVIOUS
<1>0. TInv'
  BY TInvNext DEF KInv
<1>1. ASSUME NEW r \in Requests, HandlerStep(r) PROVE KInv'
  BY <1>0, <1>1, OtherSteps, WriteKept, CheckKept, CompleteKept DEF HandlerStep, OtherStep
<1>2. ASSUME NEW r \in Requests, Abort(r) PROVE KInv'
  BY <1>0, <1>2, AbortKept
<1>3. ASSUME NEW r \in Requests, KitchenRequest(r) PROVE KInv'
  BY <1>0, <1>3, OtherSteps, BumpKept DEF KitchenRequest, OtherStep
<1>4. ASSUME NEW r \in Requests, NEW t \in Tables, NewRequest(r, t) PROVE KInv'
  BY <1>0, <1>4, OtherSteps DEF OtherStep
<1>5. ASSUME NEW t \in Tables, TableStep(t) PROVE KInv'
  BY <1>0, <1>5, TableKept
<1>6. ASSUME NEW o \in DOMAIN orders, OrderStep(o) PROVE KInv'
  BY <1>0, <1>6, OrderKept
<1>7. CASE UNCHANGED vars
  <2>1. orders' = orders /\ req' = req
    BY <1>7 DEF vars
  <2>2. QED
    BY <1>0, <2>1, OrdersKept
<1>8. QED
  BY <1>1, <1>2, <1>3, <1>4, <1>5, <1>6, <1>7 DEF Next

\* However the kitchen bumps the dishes of an order at the same time, the order is
\* completed when the last of them is done and not before.
THEOREM LastDishCompletesOrder == Spec => []LastDishCompletes
<1>1. KInv => LastDishCompletes
  <2> SUFFICES ASSUME KInv, NEW o \in DOMAIN orders, ~Bumping(o),
                      orders[o].status # "CANCELLED", orders[o].notes \subseteq {"overtaken"}
               PROVE  orders[o].status = "PREPARING" <=> ~AllDone(o)
    BY DEF LastDishCompletes
  <2>1. RowOK(orders[o]) /\ Plain(orders[o])
    BY DEF KInv, Plain
  <2>2. ~Waiting(orders[o])
    BY DEF KInv, Checking, Bumping
  <2>3. QED
    BY <2>1, <2>2 DEF RowOK, Waiting, Ready, AllDone
<1>2. QED
  BY KInvInit, KInvNext, <1>1, PTL DEF Spec

\* A cancelled order stays cancelled, unless staff set its status or it was
\* cancelled while one of its dishes was bumped.
THEOREM CancelledOrderStays == Spec => []CancelledStays
<1>1. KInv => CancelledStays
  BY DEF KInv, CancelledStays, RowOK, Clean
<1>2. QED
  BY KInvInit, KInvNext, <1>1, PTL DEF Spec
=============================================================================
