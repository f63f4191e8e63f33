--------------------------- MODULE PaymentsProofs ---------------------------
(***************************************************************************)
(* Proofs about Payments for every value of its constants: the type        *)
(* invariant, that no member's balance drops below zero, that an order or  *)
(* a dish is paid twice only when a check was overtaken, that a merged     *)
(* bill writes all of its rows, and that the balances agree with the       *)
(* payments when one handler runs at a time.                               *)
(***************************************************************************)
EXTENDS Payments, Sums

\* What TypeOK needs to be inductive: the ids a handler holds refer to orders
\* that exist, a bill spends no negative points, a split handler remembers a
\* status, and a handler past its first write points at its payment row.
HandlerOK ==
    \A r \in Requests :
        /\ req[r].todo \subseteq DOMAIN orders
        /\ req[r].group \subseteq DOMAIN orders
        /\ req[r].pc \in {"promo", "create"} => req[r].take \in Nat
        /\ req[r].pc = "split" => req[r].was \in OrderStatus
        /\ req[r].pc \in AfterFirstWrite \cup {"refund"} => req[r].row \in DOMAIN pays

TInv == TypeOK /\ HandlerOK

\* A bill costs a natural number of baht.
LEMMA SubtotalType ==
    ASSUME TypeOK, NEW G, G \subseteq DOMAIN orders
    PROVE  Subtotal(G) \in Nat
<1>1. \A o \in G : orders[o] \in Order
  BY DEF TypeOK
<1>2. \A o \in G : orders[o].items \subseteq Items
  BY <1>1 DEF Order
<1>3. UNION {orders[o].items : o \in G} \in SUBSET Items
  BY <1>2
<1>4. QED
  BY <1>3, PaymentsAssumption DEF Subtotal

LEMMA DiscountPointsType ==
    ASSUME NEW a \in Nat, NEW b \in Nat
    PROVE  DiscountPoints(a, b) \in Nat
  BY DEF DiscountPoints, Lesser

LEMMA CalculateDiscountType ==
    ASSUME NEW p \in Promotion, NEW n \in Nat
    PROVE  CalculateDiscountAmount(p, n) \in Int
<1>1. p.discountValue \in Nat /\ p.maxDiscount \in Nat \cup {NoLimit}
  BY DEF Promotion
<1>2. n * p.discountValue \in Nat
  BY <1>1
<1>3. (n * p.discountValue) \div 100 \in Int
  BY <1>2
<1>4. QED
  BY <1>1, <1>3 DEF CalculateDiscountAmount, Lesser

LEMMA PointsEarnedType ==
    ASSUME NEW n \in Int
    PROVE  PointsEarned(n) \in Int
  BY DEF PointsEarned, BahtPerPoint

\* Rewriting one field of a row gives a row.
LEMMA RowEdit ==
    ASSUME NEW p \in Payment, NEW n \in Nat
    PROVE  /\ [p EXCEPT !.status = "REFUNDED"] \in Payment
           /\ [p EXCEPT !.cut = TRUE] \in Payment
           /\ [p EXCEPT !.kept = @ + n] \in Payment
<1>1. [p EXCEPT !.status = "REFUNDED"] \in Payment
  BY DEF Payment, PaymentStatus
<1>2. [p EXCEPT !.cut = TRUE] \in Payment
  BY DEF Payment
<1>3. p.kept + n \in Nat
  BY DEF Payment
<1>4. [p EXCEPT !.kept = @ + n] \in Payment
  BY <1>3 DEF Payment
<1>5. QED
  BY <1>1, <1>2, <1>4

\* Replacing an element of a sequence by another of the same type.
LEMMA SeqEdit ==
    ASSUME NEW S, NEW s \in Seq(S), NEW i \in DOMAIN s, NEW e \in S
    PROVE  [s EXCEPT ![i] = e] \in Seq(S)
  OBVIOUS

\* Rewriting one field of one row keeps the table a table.
LEMMA PaysEdit ==
    ASSUME TypeOK, NEW i \in DOMAIN pays, NEW n \in Nat
    PROVE  /\ [pays EXCEPT ![i].status = "REFUNDED"] \in Seq(Payment)
           /\ [pays EXCEPT ![i].cut = TRUE] \in Seq(Payment)
           /\ [pays EXCEPT ![i].kept = @ + n] \in Seq(Payment)
<1>1. pays \in Seq(Payment) /\ pays[i] \in Payment
  BY DEF TypeOK
<1>2. QED
  BY <1>1, RowEdit, SeqEdit

\* The steps a handler can be at.
Steps == {"idle", "member", "promo", "create", "refund", "split", "marker",
          "usage", "points", "pointsWrite", "unuse", "unuseWrite"}
\* Rewriting one local variable gives a handler.
LEMMA HandlerEdit ==
    ASSUME NEW h \in Handler, NEW pc \in Steps, NEW n \in Int
    PROVE  /\ [h EXCEPT !.pc = pc] \in Handler
           /\ [h EXCEPT !.take = n] \in Handler
           /\ [h EXCEPT !.give = n] \in Handler
           /\ [h EXCEPT !.off = n] \in Handler
           /\ [h EXCEPT !.cur = n] \in Handler
<1>1. [h EXCEPT !.pc = pc] \in Handler
  BY DEF Handler, Steps, BeforeFirstWrite, AfterFirstWrite
<1>2. [h EXCEPT !.take = n] \in Handler
  BY DEF Handler
<1>3. [h EXCEPT !.give = n] \in Handler
  BY DEF Handler
<1>4. [h EXCEPT !.off = n] \in Handler
  BY DEF Handler
<1>5. [h EXCEPT !.cur = n] \in Handler
  BY DEF Handler
<1>6. QED
  BY <1>1, <1>2, <1>3, <1>4, <1>5

LEMMA IdleType == Idle \in Handler
  BY DEF Idle, Handler

\* What Goto and Stop make of req, and the edits of the other actions.
LEMMA GotoType ==
    ASSUME TypeOK, NEW r \in Requests
    PROVE  /\ [req EXCEPT ![r] = Idle] \in [Requests -> Handler]
           /\ \A pc \in Steps : [req EXCEPT ![r].pc = pc] \in [Requests -> Handler]
<1>1. req \in [Requests -> Handler] /\ req[r] \in Handler
  BY DEF TypeOK
<1>2. ASSUME NEW pc \in Steps
      PROVE  [req EXCEPT ![r].pc = pc] \in [Requests -> Handler]
  <2>1. [req[r] EXCEPT !.pc = pc] \in Handler
    BY <1>1, HandlerEdit, 0 \in Int
  <2>2. QED
    BY <1>1, <2>1
<1>3. QED
  BY <1>1, <1>2, IdleType

LEMMA ReqEdit ==
    ASSUME TypeOK, NEW r \in Requests, NEW pc \in Steps, NEW n \in Int
    PROVE  /\ [req EXCEPT ![r].pc = pc, ![r].take = n] \in [Requests -> Handler]
           /\ [req EXCEPT ![r].pc = pc, ![r].give = n] \in [Requests -> Handler]
           /\ [req EXCEPT ![r].pc = pc, ![r].cur = n] \in [Requests -> Handler]
           /\ \A off \in Int, coupon \in BOOLEAN :
                 [req EXCEPT ![r].pc = pc, ![r].off = off, ![r].coupon = coupon,
                             ![r].give = n]
                    \in [Requests -> Handler]
<1>1. req \in [Requests -> Handler] /\ req[r] \in Handler
  BY DEF TypeOK
<1>2. [req EXCEPT ![r].pc = pc, ![r].take = n] \in [Requests -> Handler]
  BY <1>1, HandlerEdit
<1>3. [req EXCEPT ![r].pc = pc, ![r].give = n] \in [Requests -> Handler]
  BY <1>1, HandlerEdit
<1>4. [req EXCEPT ![r].pc = pc, ![r].cur = n] \in [Requests -> Handler]
  BY <1>1, HandlerEdit
<1>5. ASSUME NEW off \in Int, NEW coupon \in BOOLEAN
      PROVE  [req EXCEPT ![r].pc = pc, ![r].off = off, ![r].coupon = coupon,
                         ![r].give = n]
                \in [Requests -> Handler]
  <2> DEFINE h == [req[r] EXCEPT !.pc = pc, !.off = off, !.coupon = coupon, !.give = n]
  <2>1. h \in Handler
    BY <1>1 DEF Handler, Steps, BeforeFirstWrite, AfterFirstWrite
  <2>2. [req EXCEPT ![r].pc = pc, ![r].off = off, ![r].coupon = coupon, ![r].give = n]
          = [req EXCEPT ![r] = h]
    BY <1>1
  <2> HIDE DEF h
  <2>3. QED
    BY <1>1, <2>1, <2>2
<1>6. QED
  BY <1>2, <1>3, <1>4, <1>5

LEMMA TypeInit == Init => TInv
<1> SUFFICES ASSUME Init PROVE TInv
  OBVIOUS
<1>1. TypeOK
  BY IdleType, PaymentsAssumption DEF Init, TypeOK
<1>2. HandlerOK
  BY DEF Init, HandlerOK, Idle, AfterFirstWrite
<1>3. QED
  BY <1>1, <1>2 DEF TInv

LEMMA TypeStep == TInv /\ [Next]_vars => TInv'
<1> SUFFICES ASSUME TInv, [Next]_vars PROVE TInv'
  OBVIOUS
<1> USE DEF TInv
<1>1. ASSUME NEW r \in Requests, NEW G \in SUBSET DOMAIN orders,
             NEW m \in Members \cup {NoMember}, NEW p \in Promos \cup {NoPromo},
             PayRead(r, G, m, p)
      PROVE  TInv'
  <2>1. G \subseteq Nat \ {0} /\ DOMAIN orders \subseteq Nat \ {0}
    BY DEF TypeOK
  <2>2. [Idle EXCEPT !.pc = "member", !.kind = "pay", !.todo = G,
                     !.group = G, !.member = m, !.promo = p] \in Handler
    BY <2>1, IdleType DEF Handler, BeforeFirstWrite
  <2>3. TypeOK'
    BY <1>1, <2>2 DEF PayRead, Start, TypeOK
  <2>4. HandlerOK'
    BY <1>1, <2>2 DEF PayRead, Start, TypeOK, HandlerOK, AfterFirstWrite, Idle
  <2>5. QED
    BY <2>3, <2>4
<1>2. ASSUME NEW r \in Requests, NEW n \in RequestedPoints \cup {0}, PayMember(r, n)
      PROVE  TInv'
  <2> DEFINE take == DiscountPoints(n, Subtotal(req[r].group))
  <2>1. take \in Nat /\ take \in Int
    <3>1. n \in Nat
      BY PaymentsAssumption
    <3>2. Subtotal(req[r].group) \in Nat
      BY SubtotalType DEF HandlerOK
    <3>3. QED
      <4> DEFINE subtotal == Subtotal(req[r].group)
      <4> HIDE DEF subtotal
      <4>1. DiscountPoints(n, subtotal) \in Nat
        BY <3>1, <3>2, DiscountPointsType DEF subtotal
      <4>2. QED
        BY <4>1 DEF subtotal
  <2>2. req' = [req EXCEPT ![r].pc = "promo", ![r].take = take]
    BY <1>2 DEF PayMember
  <2> HIDE DEF take
  <2>3. TypeOK'
    <3>1. req' \in [Requests -> Handler]
      BY <2>1, <2>2, ReqEdit DEF Steps
    <3>2. QED
      BY <1>2, <3>1 DEF PayMember, TypeOK
  <2>4. HandlerOK'
    <3>1. req[r].pc = "member" /\ UNCHANGED <<orders, pays>>
      BY <1>2 DEF PayMember
    <3>2. QED
      BY <2>1, <2>2, <3>1 DEF TypeOK, HandlerOK, AfterFirstWrite
  <2>5. QED
    BY <2>3, <2>4
<1>3. ASSUME NEW r \in Requests, NEW isCoupon \in BOOLEAN, PayPromo(r, isCoupon)
      PROVE  TInv'
  <2> DEFINE h == req[r]
             subtotal == Subtotal(h.group)
             off == IF h.promo = NoPromo THEN 0
                    ELSE CalculateDiscountAmount(PromoOf[h.promo], subtotal)
             total == TotalAmount(subtotal, h.take, off)
             give == IF h.member = NoMember THEN 0 ELSE PointsEarned(total)
  <2>1. h \in Handler /\ subtotal \in Nat
    BY SubtotalType DEF HandlerOK, TypeOK
  <2>2. off \in Int
    BY <2>1, CalculateDiscountType, PaymentsAssumption DEF Handler
  <2>3. total \in Int
    BY <2>1, <2>2 DEF TotalAmount, Handler
  <2>4. give \in Int
    BY <2>3, PointsEarnedType
  <2>5. req' = [req EXCEPT ![r].pc = "create", ![r].off = off, ![r].coupon = isCoupon,
                           ![r].give = give]
    BY <1>3 DEF PayPromo
  <2>6. TypeOK'
    <3> HIDE DEF off, total, give
    <3>1. req' \in [Requests -> Handler]
      <4>1. "create" \in Steps
        BY DEF Steps
      <4>2. \A c \in BOOLEAN :
              [req EXCEPT ![r].pc = "create", ![r].off = off, ![r].coupon = c,
                          ![r].give = give] \in [Requests -> Handler]
        BY <2>2, <2>4, <4>1, ReqEdit
      <4>3. QED
        BY <2>5, <4>2
    <3>2. QED
      BY <1>3, <3>1 DEF PayPromo, TypeOK
  <2>7. HandlerOK'
    <3> HIDE DEF off, total, give
    <3>1. QED
      BY <1>3, <2>5 DEF PayPromo, TypeOK, HandlerOK, AfterFirstWrite
  <2>8. QED
    BY <2>6, <2>7
<1>4. ASSUME NEW r \in Requests, NEW o \in req[r].todo, PayCreate(r, o)
      PROVE  TInv'
  <2>1. req[r] \in Handler /\ o \in Nat \ {0}
    BY DEF TypeOK, Handler
  <2>2. Len(pays) + 1 \in Nat \ {0}
    BY DEF TypeOK
  <2>3. PrimaryRow(r, o) \in Payment
    <3>1. (o \in dirty[r]) \in BOOLEAN
      OBVIOUS
    <3>2. req[r].take \in Nat
      BY <1>4 DEF PayCreate, HandlerOK
    <3>3. QED
      BY <2>1, <2>2, <3>1, <3>2 DEF PrimaryRow, Payment, PaymentStatus, Handler
  <2>4. TypeOK'
    <3>1. [req[r] EXCEPT !.pc = "marker", !.row = Len(pays) + 1,
                         !.todo = @ \ {o}] \in Handler
      BY <2>1, <2>2 DEF Handler, AfterFirstWrite
    <3>2. req' \in [Requests -> Handler]
      BY <1>4, <3>1 DEF PayCreate, Remaining, TypeOK
    <3>3. dirty' \in [Requests -> SUBSET Nat]
      BY <1>4, <2>1 DEF PayCreate, Touch, TypeOK
    <3>4. pays' \in Seq(Payment)
      BY <1>4, <2>3 DEF PayCreate, TypeOK
    <3>5. QED
      BY <1>4, <3>2, <3>3, <3>4 DEF PayCreate, TypeOK
  <2>5. HandlerOK'
    BY <1>4, <2>1, <2>2, <2>3 DEF PayCreate, Remaining, TypeOK, HandlerOK
  <2>6. QED
    BY <2>4, <2>5
<1>5. ASSUME NEW r \in Requests, NEW o \in req[r].todo, PayMarker(r, o)
      PROVE  TInv'
  <2>1. req[r] \in Handler /\ o \in Nat \ {0}
    BY DEF TypeOK, Handler
  <2>2. req[r].row \in Nat \ {0}
    BY <1>5 DEF PayMarker, HandlerOK, TypeOK, AfterFirstWrite
  <2>3. MarkerRow(r, o) \in Payment
    BY <1>5, <2>1, <2>2 DEF MarkerRow, Payment, PaymentStatus, Handler
  <2>4. TypeOK'
    <3>1. [req[r] EXCEPT !.todo = @ \ {o}] \in Handler
      BY <2>1 DEF Handler
    <3>2. req' \in [Requests -> Handler]
      BY <1>5, <3>1 DEF PayMarker, Remaining, TypeOK
    <3>3. dirty' \in [Requests -> SUBSET Nat]
      BY <1>5, <2>1 DEF PayMarker, Touch, TypeOK
    <3>4. pays' \in Seq(Payment)
      BY <1>5, <2>3 DEF PayMarker, TypeOK
    <3>5. QED
      BY <1>5, <3>2, <3>3, <3>4 DEF PayMarker, TypeOK
  <2>5. HandlerOK'
    BY <1>5, <2>1, <2>3 DEF PayMarker, Remaining, TypeOK, HandlerOK
  <2>6. QED
    BY <2>4, <2>5
<1>6. ASSUME NEW r \in Requests, PayRowsDone(r)
      PROVE  TInv'
  <2>1. TypeOK'
    <3>1. req' \in [Requests -> Handler]
      BY <1>6, GotoType DEF PayRowsDone, Goto, Steps
    <3>2. QED
      BY <1>6, <3>1 DEF PayRowsDone, Goto, TypeOK
  <2>2. HandlerOK'
    BY <1>6 DEF PayRowsDone, Goto, TypeOK, HandlerOK, AfterFirstWrite
  <2>3. QED
    BY <2>1, <2>2
<1>7. ASSUME NEW r \in Requests, PayUsage(r)
      PROVE  TInv'
  <2>1. req[r].promo \in Promos \cup {NoPromo}
    BY DEF TypeOK, Handler
  <2>2. uses' \in [Promos -> Int]
    BY <1>7, <2>1 DEF PayUsage, TypeOK
  <2>3. TypeOK'
    <3>1. req' \in [Requests -> Handler]
      BY <1>7, GotoType DEF PayUsage, Goto, Steps
    <3>2. QED
      BY <1>7, <2>2, <3>1 DEF PayUsage, Goto, TypeOK
  <2>4. HandlerOK'
    BY <1>7 DEF PayUsage, Goto, TypeOK, HandlerOK, AfterFirstWrite
  <2>5. QED
    BY <2>3, <2>4
<1>8. ASSUME NEW r \in Requests, PointsRead(r)
      PROVE  TInv'
  <2>1. points[req[r].member] \in Int
    BY <1>8 DEF PointsRead, TypeOK, Handler
  <2>2. TypeOK'
    <3>1. req' \in [Requests -> Handler]
      <4>1. req' = [req EXCEPT ![r].pc = "pointsWrite",
                               ![r].cur = points[req[r].member]]
        BY <1>8 DEF PointsRead
      <4>2. "pointsWrite" \in Steps
        BY DEF Steps
      <4>3. QED
        BY <2>1, <4>1, <4>2, ReqEdit
    <3>2. QED
      BY <1>8, <2>1, <3>1 DEF PointsRead, TypeOK
  <2>3. HandlerOK'
    BY <1>8 DEF PointsRead, TypeOK, HandlerOK, AfterFirstWrite
  <2>4. QED
    BY <2>2, <2>3
<1>9. ASSUME NEW r \in Requests, PointsShort(r)
      PROVE  TInv'
  <2>1. req[r].row \in DOMAIN pays /\ req[r].take \in Nat
    BY <1>9 DEF PointsShort, PointsStep, HandlerOK, TypeOK, Handler, AfterFirstWrite
  <2>2. pays' \in Seq(Payment) /\ DOMAIN pays' = DOMAIN pays
    <3>1. \/ pays' = [pays EXCEPT ![req[r].row].cut = TRUE]
          \/ pays' = [pays EXCEPT ![req[r].row].kept = @ + req[r].take]
      BY <1>9 DEF PointsShort
    <3>2. pays' \in Seq(Payment)
      <4>1. /\ [pays EXCEPT ![req[r].row].cut = TRUE] \in Seq(Payment)
            /\ [pays EXCEPT ![req[r].row].kept = @ + req[r].take] \in Seq(Payment)
        BY <2>1, PaysEdit
      <4>2. QED
        BY <3>1, <4>1
    <3>3. DOMAIN pays' = DOMAIN pays
      BY <3>1 DEF TypeOK
    <3>4. QED
      BY <3>2, <3>3
  <2>3. CASE req[r].kind = "refund"
    <3>1. req' = [req EXCEPT ![r].take = 0]
      BY <1>9, <2>3 DEF PointsShort
    <3>2. [req[r] EXCEPT !.take = 0] \in Handler
      <4>1. req[r] \in Handler /\ 0 \in Int
        BY DEF TypeOK
      <4>2. QED
        BY <4>1 DEF Handler
    <3>3. req' \in [Requests -> Handler]
      BY <3>1, <3>2 DEF TypeOK
    <3>4. TypeOK'
      BY <1>9, <2>2, <3>3 DEF PointsShort, TypeOK
    <3>5. HandlerOK'
      BY <1>9, <2>2, <3>1 DEF PointsShort, TypeOK, HandlerOK
    <3>6. QED
      BY <3>4, <3>5
  <2>4. CASE req[r].kind # "refund"
    <3>1. req' = [req EXCEPT ![r] = Idle]
      BY <1>9, <2>4 DEF PointsShort, Stop
    <3>2. TypeOK'
      BY <1>9, <2>2, <3>1, IdleType DEF PointsShort, TypeOK
    <3>3. HandlerOK'
      BY <1>9, <2>2, <3>1 DEF PointsShort, TypeOK, HandlerOK, Idle, AfterFirstWrite
    <3>4. QED
      BY <3>2, <3>3
  <2>5. QED
    BY <2>3, <2>4
<1>10. ASSUME NEW r \in Requests, PointsWrite(r)
       PROVE  TInv'
  <2>1. req[r] \in Handler
    BY DEF TypeOK
  <2>2. RedeemedBalance(req[r]) \in Int /\ AddedBalance(req[r]) \in Int
    BY <2>1 DEF RedeemedBalance, AddedBalance, Handler
  <2>3. points' \in [Members -> Int]
    BY <1>10, <2>2 DEF PointsWrite, TypeOK
  <2>4. \/ req' = [req EXCEPT ![r].pc = "points", ![r].take = 0]
        \/ req' = [req EXCEPT ![r].pc = "points", ![r].give = 0]
    BY <1>10 DEF PointsWrite
  <2>5. TypeOK'
    <3>1. 0 \in Int /\ "points" \in Steps
      BY DEF Steps
    <3>2. req' \in [Requests -> Handler]
      <4>1. CASE req' = [req EXCEPT ![r].pc = "points", ![r].take = 0]
        BY <3>1, <4>1, ReqEdit
      <4>2. CASE req' = [req EXCEPT ![r].pc = "points", ![r].give = 0]
        BY <3>1, <4>2, ReqEdit
      <4>3. QED
        BY <2>4, <4>1, <4>2
    <3>3. QED
      BY <1>10, <2>3, <3>2 DEF PointsWrite, TypeOK
  <2>6. HandlerOK'
    <3>1. req[r].pc = "pointsWrite" /\ UNCHANGED <<orders, pays>>
      BY <1>10 DEF PointsWrite
    <3>2. CASE req' = [req EXCEPT ![r].pc = "points", ![r].take = 0]
      BY <3>1, <3>2 DEF TypeOK, HandlerOK, AfterFirstWrite
    <3>3. CASE req' = [req EXCEPT ![r].pc = "points", ![r].give = 0]
      BY <3>1, <3>3 DEF TypeOK, HandlerOK, AfterFirstWrite
    <3>4. QED
      BY <2>4, <3>2, <3>3
  <2>7. QED
    BY <2>5, <2>6
<1>11. ASSUME NEW r \in Requests, Respond(r)
      PROVE  TInv'
  <2>1. TypeOK'
    <3>1. req' \in [Requests -> Handler]
      BY <1>11, GotoType DEF Respond, Stop, Steps
    <3>2. QED
      BY <1>11, IdleType, <3>1 DEF Respond, Stop, TypeOK
  <2>2. HandlerOK'
    BY <1>11 DEF Respond, Stop, TypeOK, HandlerOK, AfterFirstWrite, Idle
  <2>3. QED
    BY <2>1, <2>2
<1>12. ASSUME NEW r \in Requests, NEW i \in DOMAIN pays, RefundRead(r, i)
       PROVE  TInv'
  <2>1. pays[i] \in Payment /\ i \in Nat
    BY DEF TypeOK
  <2>2. [Idle EXCEPT !.pc = "refund", !.kind = "refund", !.row = i,
                     !.member = pays[i].member, !.promo = pays[i].promo,
                     !.give = pays[i].discountPoints,
                     !.take = pays[i].pointsEarned] \in Handler
    <3>1. /\ pays[i].member \in Members \cup {NoMember}
          /\ pays[i].promo \in Promos \cup {NoPromo}
          /\ pays[i].discountPoints \in Int /\ pays[i].pointsEarned \in Int
      BY <2>1 DEF Payment
    <3>2. QED
      BY <2>1, <3>1, IdleType DEF Handler, BeforeFirstWrite
  <2>3. TypeOK'
    BY <1>12, <2>2 DEF RefundRead, Start, TypeOK
  <2>4. HandlerOK'
    BY <1>12, <2>2 DEF RefundRead, Start, TypeOK, HandlerOK, AfterFirstWrite, Idle
  <2>5. QED
    BY <2>3, <2>4
<1>13. ASSUME NEW r \in Requests, RefundWrite(r)
       PROVE  TInv'
  <2>1. req[r].row \in DOMAIN pays
    BY <1>13 DEF RefundWrite, HandlerOK
  <2>2. pays' \in Seq(Payment) /\ DOMAIN pays' = DOMAIN pays
    BY <1>13, <2>1, PaysEdit DEF RefundWrite, TypeOK
  <2>3. TypeOK'
    <3>1. req' \in [Requests -> Handler]
      BY <1>13, GotoType DEF RefundWrite, Goto, Steps
    <3>2. QED
      BY <1>13, <2>2, <3>1 DEF RefundWrite, Goto, TypeOK
  <2>4. HandlerOK'
    BY <1>13, <2>2 DEF RefundWrite, Goto, TypeOK, HandlerOK, AfterFirstWrite
  <2>5. QED
    BY <2>3, <2>4
<1>14. ASSUME NEW r \in Requests, UnuseRead(r)
      PROVE  TInv'
  <2>1. TypeOK'
    <3>1. req' \in [Requests -> Handler]
      BY <1>14, GotoType DEF UnuseRead, Goto, Steps
    <3>2. QED
      BY <1>14, <3>1 DEF UnuseRead, Goto, TypeOK
  <2>2. HandlerOK'
    BY <1>14 DEF UnuseRead, Goto, TypeOK, HandlerOK, AfterFirstWrite, Idle
  <2>3. QED
    BY <2>1, <2>2
<1>15. ASSUME NEW r \in Requests, UnuseWrite(r)
       PROVE  TInv'
  <2>1. uses' \in [Promos -> Int]
    <3>1. uses \in [Promos -> Int]
      BY DEF TypeOK
    <3>2. uses' = [uses EXCEPT ![req[r].promo] = @ - 1]
      BY <1>15 DEF UnuseWrite
    <3>3. CASE req[r].promo \in Promos
      BY <3>1, <3>2, <3>3
    <3>4. CASE req[r].promo \notin Promos
      BY <3>1, <3>2, <3>4
    <3>5. QED
      BY <3>3, <3>4
  <2>2. TypeOK'
    <3>1. req' \in [Requests -> Handler]
      BY <1>15, GotoType DEF UnuseWrite, Goto, Steps
    <3>2. QED
      BY <1>15, <2>1, <3>1 DEF UnuseWrite, Goto, TypeOK
  <2>3. HandlerOK'
    BY <1>15 DEF UnuseWrite, Goto, TypeOK, HandlerOK, AfterFirstWrite
  <2>4. QED
    BY <2>2, <2>3
<1>16. ASSUME NEW r \in Requests, NEW o \in DOMAIN orders, SplitRead(r, o)
       PROVE  TInv'
  <2>1. orders[o] \in Order /\ o \in Nat \ {0}
    BY DEF TypeOK
  <2>2. orders[o].status \in OrderStatus
    BY <2>1 DEF Order
  <2>3. [Idle EXCEPT !.pc = "split", !.kind = "split", !.todo = {o},
                     !.was = orders[o].status] \in Handler
    BY <2>1, <2>2, IdleType DEF Handler, BeforeFirstWrite
  <2>4. TypeOK'
    BY <1>16, <2>3 DEF SplitRead, Start, TypeOK
  <2>5. HandlerOK'
    BY <1>16, <2>2, <2>3 DEF SplitRead, Start, TypeOK, HandlerOK, AfterFirstWrite, Idle
  <2>6. QED
    BY <2>4, <2>5
<1>17. ASSUME NEW r \in Requests, NEW o \in req[r].todo,
              NEW groups \in GroupLists(o), SplitCommit(r, o, groups)
       PROVE  TInv'
  <2> DEFINE children == [i \in DOMAIN groups |-> ChildOrder(r, o, groups[i])]
             cancelled == [orders EXCEPT ![o].status = "CANCELLED"]
  <2>1. o \in DOMAIN orders /\ orders \in Seq(Order) /\ orders[o] \in Order
    BY DEF HandlerOK, TypeOK
  <2>2. cancelled \in Seq(Order) /\ DOMAIN cancelled = DOMAIN orders
    <3>1. [orders[o] EXCEPT !.status = "CANCELLED"] \in Order
      BY <2>1 DEF Order, OrderStatus
    <3>2. QED
      BY <2>1, <3>1, SeqEdit
  <2>3. children \in Seq(Order)
    <3>1. Cardinality(orders[o].items) \in Nat
      BY <2>1, PaymentsAssumption, FS_Subset, FS_CardinalityType DEF Order
    <3>2. PICK k \in 2..Cardinality(orders[o].items) :
            groups \in [1..k -> SUBSET orders[o].items]
      BY <3>1 DEF GroupLists
    <3>3. ASSUME NEW i \in 1..k
          PROVE  ChildOrder(r, o, groups[i]) \in Order
      <4>1. req[r].was \in OrderStatus /\ (o \in dirty[r]) \in BOOLEAN
        BY <1>17 DEF SplitCommit, HandlerOK
      <4>2. orders[o].items \subseteq Items /\ orders[o].table \in STRING /\ o \in Nat
        BY <2>1 DEF Order
      <4>3. groups[i] \in SUBSET orders[o].items
        BY <3>2
      <4>4. groups[i] \in SUBSET Items
        BY <4>2, <4>3
      <4>5. QED
        BY <4>1, <4>2, <4>4 DEF ChildOrder, Order
    <3>4. QED
      BY <3>1, <3>2, <3>3
  <2>4. orders' = cancelled \o children
    BY <1>17 DEF SplitCommit
  <2>5. orders' \in Seq(Order) /\ DOMAIN orders \subseteq DOMAIN orders'
    <3> HIDE DEF cancelled, children
    <3>1. QED
      BY <2>1, <2>2, <2>3, <2>4
  <2>6. o \in Nat
    BY <2>1
  <2>7. TypeOK'
    BY <1>17, <2>5, <2>6, IdleType DEF SplitCommit, Stop, Touch, TypeOK
  <2>8. HandlerOK'
    BY <1>17, <2>5 DEF SplitCommit, Stop, TypeOK, HandlerOK, AfterFirstWrite, Idle
  <2>9. QED
    BY <2>7, <2>8
<1>18. ASSUME NEW r \in Requests, Reject(r)
      PROVE  TInv'
  <2>1. TypeOK'
    <3>1. req' \in [Requests -> Handler]
      BY <1>18, GotoType DEF Reject, Stop, Steps
    <3>2. QED
      BY <1>18, IdleType, <3>1 DEF Reject, Stop, TypeOK
  <2>2. HandlerOK'
    BY <1>18 DEF Reject, Stop, TypeOK, HandlerOK, AfterFirstWrite, Idle
  <2>3. QED
    BY <2>1, <2>2
<1>19. ASSUME NEW r \in Requests, Abort(r)
       PROVE  TInv'
  <2>1. req[r].row \in DOMAIN pays
    BY <1>19 DEF Abort, HandlerOK
  <2>2. pays' \in Seq(Payment) /\ DOMAIN pays' = DOMAIN pays
    BY <1>19, <2>1, PaysEdit DEF Abort, TypeOK
  <2>3. TypeOK'
    BY <1>19, <2>2, IdleType DEF Abort, Stop, TypeOK
  <2>4. HandlerOK'
    BY <1>19, <2>2 DEF Abort, Stop, TypeOK, HandlerOK, AfterFirstWrite, Idle
  <2>5. QED
    BY <2>3, <2>4
<1>20. ASSUME NEW o \in DOMAIN orders, NEW s \in StatusTargets, UpdateStatus(o, s)
       PROVE  TInv'
  <2> DEFINE row == [orders[o] EXCEPT !.status = s,
                       !.revived = @ \/ orders[o].status = "CANCELLED"]
  <2>1. orders \in Seq(Order) /\ orders[o] \in Order /\ o \in Nat
    BY DEF TypeOK
  <2>2. (orders[o].revived \/ orders[o].status = "CANCELLED") \in BOOLEAN
    BY <2>1
  <2>3. row \in Order
    BY <2>1, <2>2, PaymentsAssumption DEF Order
  <2>4. orders' = [orders EXCEPT ![o] = row]
    BY <1>20 DEF UpdateStatus
  <2>5. orders' \in Seq(Order) /\ DOMAIN orders' = DOMAIN orders
    <3> HIDE DEF row
    <3>1. QED
      BY <2>1, <2>3, <2>4, SeqEdit
  <2>6. TypeOK'
    BY <1>20, <2>1, <2>5 DEF UpdateStatus, TypeOK
  <2>7. HandlerOK'
    BY <1>20, <2>5 DEF UpdateStatus, TypeOK, HandlerOK
  <2>8. QED
    BY <2>6, <2>7
<1>21. CASE UNCHANGED vars
  BY <1>21 DEF vars, TypeOK, HandlerOK, IsPaid
<1>22. QED
  BY <1>1, <1>2, <1>3, <1>4, <1>5, <1>6, <1>7, <1>8, <1>9, <1>10, <1>11, <1>12,
     <1>13, <1>14, <1>15, <1>16, <1>17, <1>18, <1>19, <1>20, <1>21
  DEF Next, NewRequest, HandlerStep

\* Every table row and every handler keeps its type in all reachable states.
THEOREM TypeCorrect == Spec => []TypeOK
<1>1. Spec => []TInv
  BY TypeInit, TypeStep, PTL DEF Spec
<1>2. TInv => TypeOK
  BY DEF TInv
<1>3. QED
  BY <1>1, <1>2, PTL

-----------------------------------------------------------------------------
(* Balances.  The balance a handler has read is enough for what it is about  *)
(* to redeem; what other handlers write in between does not matter.          *)

ReadEnough ==
    \A r \in Requests : req[r].pc = "pointsWrite" =>
        /\ req[r].cur >= 0
        /\ PointsStep(req[r]) = "redeem" => req[r].cur >= req[r].take

BalanceInv == PointsNonNegative /\ ReadEnough

\* Only two steps matter to the balances: every other step of a handler leaves
\* them alone and does not end between the read and the write.
OtherStep(r) ==
    /\ points' = points
    /\ \A q \in Requests \ {r} : req'[q] = req[q]
    /\ req'[r].pc # "pointsWrite"

LEMMA OtherSteps ==
    ASSUME TypeOK, NEW r \in Requests,
           NewRequest(r) \/ HandlerStep(r) \/ Abort(r)
    PROVE  PointsRead(r) \/ PointsWrite(r) \/ OtherStep(r)
<1> USE DEF OtherStep, TypeOK, Handler
<1>1. ASSUME NewRequest(r) PROVE OtherStep(r)
  <2>1. ASSUME NEW G \in SUBSET DOMAIN orders, NEW m \in Members \cup {NoMember},
               NEW p \in Promos \cup {NoPromo}, PayRead(r, G, m, p)
        PROVE  OtherStep(r)
    BY <2>1 DEF PayRead, Start, Idle
  <2>2. ASSUME NEW i \in DOMAIN pays, RefundRead(r, i) PROVE OtherStep(r)
    BY <2>2 DEF RefundRead, Start, Idle
  <2>3. ASSUME NEW o \in DOMAIN orders, SplitRead(r, o) PROVE OtherStep(r)
    BY <2>3 DEF SplitRead, Start, Idle
  <2>4. QED
    BY <1>1, <2>1, <2>2, <2>3 DEF NewRequest
<1>2. ASSUME NEW n \in RequestedPoints \cup {0}, PayMember(r, n) PROVE OtherStep(r)
  BY <1>2 DEF PayMember
<1>3. ASSUME NEW isCoupon \in BOOLEAN, PayPromo(r, isCoupon) PROVE OtherStep(r)
  BY <1>3 DEF PayPromo
<1>4. ASSUME NEW o \in req[r].todo, PayCreate(r, o) \/ PayMarker(r, o)
      PROVE  OtherStep(r)
  <2>1. CASE PayCreate(r, o)
    BY <2>1 DEF PayCreate
  <2>2. CASE PayMarker(r, o)
    BY <2>2 DEF PayMarker
  <2>3. QED
    BY <1>4, <2>1, <2>2
<1>5. ASSUME PayRowsDone(r) \/ PayUsage(r) PROVE OtherStep(r)
  BY <1>5 DEF PayRowsDone, PayUsage, Goto
<1>6. ASSUME PointsShort(r) PROVE OtherStep(r)
  <2>1. \/ req' = [req EXCEPT ![r].take = 0]
        \/ req' = [req EXCEPT ![r] = Idle]
    BY <1>6 DEF PointsShort, Stop
  <2>2. req[r].pc = "points" /\ points' = points
    BY <1>6 DEF PointsShort
  <2>3. CASE req' = [req EXCEPT ![r].take = 0]
    BY <2>2, <2>3
  <2>4. CASE req' = [req EXCEPT ![r] = Idle]
    BY <2>2, <2>4 DEF Idle
  <2>5. QED
    BY <2>1, <2>3, <2>4
<1>7. ASSUME Respond(r) \/ Reject(r) \/ Abort(r) PROVE OtherStep(r)
  BY <1>7 DEF Respond, Reject, Abort, Stop, Idle
<1>8. ASSUME RefundWrite(r) \/ UnuseRead(r) \/ UnuseWrite(r) PROVE OtherStep(r)
  BY <1>8 DEF RefundWrite, UnuseRead, UnuseWrite, Goto
<1>9. ASSUME NEW o \in req[r].todo, NEW groups \in GroupLists(o),
             SplitCommit(r, o, groups)
      PROVE  OtherStep(r)
  BY <1>9 DEF SplitCommit, Stop, Idle
<1>10. QED
  BY <1>1, <1>2, <1>3, <1>4, <1>5, <1>6, <1>7, <1>8, <1>9 DEF HandlerStep

LEMMA BalanceStep == TypeOK /\ BalanceInv /\ [Next]_vars => BalanceInv'
<1> SUFFICES ASSUME TypeOK, BalanceInv, [Next]_vars PROVE BalanceInv'
  OBVIOUS
<1> USE DEF BalanceInv, PointsNonNegative, ReadEnough
<1>1. ASSUME NEW r \in Requests, PointsRead(r)
      PROVE  BalanceInv'
  <2>1. req[r] \in Handler /\ req[r].member \in Members
    BY <1>1 DEF PointsRead, TypeOK, Handler
  <2>2. /\ points[req[r].member] >= 0
        /\ PointsStep(req[r]) = "redeem" => points[req[r].member] >= req[r].take
    BY <1>1, <2>1 DEF PointsRead, CanRedeem
  <2>3. /\ req'[r].cur = points[req[r].member]
        /\ req'[r].take = req[r].take
        /\ PointsStep(req'[r]) = PointsStep(req[r])
        /\ \A q \in Requests \ {r} : req'[q] = req[q]
    BY <1>1, <2>1 DEF PointsRead, PointsStep, TypeOK, Handler
  <2>4. QED
    BY <1>1, <2>2, <2>3 DEF PointsRead
<1>2. ASSUME NEW r \in Requests, PointsWrite(r)
      PROVE  BalanceInv'
  <2>1. /\ req[r] \in Handler
        /\ req[r].cur >= 0
        /\ PointsStep(req[r]) = "redeem" => req[r].cur >= req[r].take
    BY <1>2 DEF PointsWrite, TypeOK
  <2>2. PointsStep(req[r]) = "redeem" => RedeemedBalance(req[r]) >= 0
    BY <2>1 DEF RedeemedBalance, Handler
  <2>3. PointsStep(req[r]) = "add" => AddedBalance(req[r]) >= 0
    BY <2>1 DEF AddedBalance, PointsStep, Handler
  <2>4. PointsNonNegative'
    BY <1>2, <2>2, <2>3 DEF PointsWrite, TypeOK
  <2>5. ReadEnough'
    <3>1. \/ req' = [req EXCEPT ![r].pc = "points", ![r].take = 0]
          \/ req' = [req EXCEPT ![r].pc = "points", ![r].give = 0]
      BY <1>2 DEF PointsWrite
    <3>2. req'[r].pc = "points" /\ \A q \in Requests \ {r} : req'[q] = req[q]
      BY <3>1 DEF TypeOK, Handler
    <3>3. QED
      BY <3>2
  <2>6. QED
    BY <2>4, <2>5
<1>3. ASSUME NEW r \in Requests, OtherStep(r)
      PROVE  BalanceInv'
  BY <1>3 DEF OtherStep
<1>4. ASSUME NEW o \in DOMAIN orders, NEW s \in StatusTargets, UpdateStatus(o, s)
      PROVE  BalanceInv'
  BY <1>4 DEF UpdateStatus
<1>5. CASE UNCHANGED vars
  BY <1>5 DEF vars
<1>6. QED
  BY <1>1, <1>2, <1>3, <1>4, <1>5, OtherSteps DEF Next

\* A member never has less than no points, however many payments and refunds
\* of that member run at the same time.
THEOREM BalanceNonNegative == Spec => []PointsNonNegative
<1>1. Init => BalanceInv
  BY PaymentsAssumption DEF Init, BalanceInv, PointsNonNegative, ReadEnough, Idle
<1>2. BalanceInv => PointsNonNegative
  BY DEF BalanceInv
<1>3. QED
  BY <1>1, <1>2, BalanceStep, TypeCorrect, PTL DEF Spec

-----------------------------------------------------------------------------
(* Double payments.  The invariant says what the check is still worth between *)
(* the read and the insert: an order a bill still has to write is unpaid,     *)
(* unless someone else has paid it since the check.                           *)


Paying == {"member", "promo", "create", "marker"}

ReadUnpaid ==
    \A r \in Requests : req[r].pc \in Paying =>
        \A o \in req[r].todo \ dirty[r] : ~IsPaid(o)

RaceInv == DoublePayOnlyByRace /\ ReadUnpaid

\* A step that pays nothing: the rows keep their orders and none becomes paid,
\* and the bills in progress keep their orders.
PaysNothing ==
    /\ DOMAIN pays' = DOMAIN pays
    /\ \A i \in DOMAIN pays : /\ pays'[i].order = pays[i].order
                              /\ pays'[i].raced = pays[i].raced
                              /\ pays'[i].status = "PAID" => pays[i].status = "PAID"
    /\ \A q \in Requests : req'[q].pc \in Paying =>
          /\ req[q].pc \in Paying
          /\ req'[q].todo = req[q].todo
          /\ dirty[q] \subseteq dirty'[q]

\* Editing one row in a way that does not pay it.
LEMMA RowsKept ==
    ASSUME TypeOK, NEW i \in DOMAIN pays, NEW n \in Nat,
           \/ pays' = pays
           \/ pays' = [pays EXCEPT ![i].status = "REFUNDED"]
           \/ pays' = [pays EXCEPT ![i].cut = TRUE]
           \/ pays' = [pays EXCEPT ![i].kept = @ + n]
    PROVE  /\ DOMAIN pays' = DOMAIN pays
           /\ \A j \in DOMAIN pays :
                 /\ pays'[j].order = pays[j].order
                 /\ pays'[j].raced = pays[j].raced
                 /\ pays'[j].status = "PAID" => pays[j].status = "PAID"
<1>1. \A j \in DOMAIN pays : pays[j] \in Payment
  BY DEF TypeOK
<1>2. CASE pays' = pays
  BY <1>2
<1>3. CASE pays' = [pays EXCEPT ![i].status = "REFUNDED"]
  BY <1>1, <1>3 DEF Payment
<1>4. CASE pays' = [pays EXCEPT ![i].cut = TRUE]
  BY <1>1, <1>4 DEF Payment
<1>5. CASE pays' = [pays EXCEPT ![i].kept = @ + n]
  BY <1>1, <1>5 DEF Payment
<1>6. QED
  BY <1>2, <1>3, <1>4, <1>5

\* Such a step preserves the invariant.
LEMMA PaysNothingKeeps ==
    ASSUME RaceInv, PaysNothing
    PROVE  RaceInv'
<1>1. DoublePayOnlyByRace'
  BY DEF RaceInv, DoublePayOnlyByRace, PaysNothing
<1>2. ReadUnpaid'
  BY DEF RaceInv, ReadUnpaid, PaysNothing, IsPaid
<1>3. QED
  BY <1>1, <1>2 DEF RaceInv

\* Inserting row n for order o, marked as raced when o was touched since the check.
Inserts(r, o, n) ==
    /\ n \notin DOMAIN pays
    /\ DOMAIN pays' = DOMAIN pays \cup {n}
    /\ pays'[n].order = o /\ pays'[n].raced = (o \in dirty[r])
    /\ \A i \in DOMAIN pays : i < n /\ pays'[i] = pays[i]
    /\ req[r].pc \in Paying /\ req'[r].pc \in Paying
    /\ req'[r].todo = req[r].todo \ {o}
    /\ dirty'[r] = dirty[r]
    /\ \A q \in Requests \ {r} :
          /\ req'[q] = req[q]
          /\ dirty'[q] = IF req[q].pc = "idle" THEN dirty[q] ELSE dirty[q] \cup {o}

LEMMA InsertEffect ==
    ASSUME TypeOK, NEW r \in Requests, NEW o \in req[r].todo,
           PayCreate(r, o) \/ PayMarker(r, o)
    PROVE  \E n \in Nat : Inserts(r, o, n)
<1> DEFINE n == Len(pays) + 1
<1>1. /\ req[r] \in Handler
      /\ req[r].pc \in Paying
      /\ pays \in Seq(Payment)
  BY DEF TypeOK, PayCreate, PayMarker, Paying
<1>2. PICK row : /\ pays' = Append(pays, row)
                 /\ row.order = o
                 /\ row.raced = (o \in dirty[r])
  BY DEF PayCreate, PayMarker, PrimaryRow, MarkerRow
<1>3. /\ n \in Nat
      /\ n \notin DOMAIN pays
      /\ DOMAIN pays' = DOMAIN pays \cup {n}
      /\ pays'[n] = row
      /\ \A i \in DOMAIN pays : i < n /\ pays'[i] = pays[i]
  BY <1>1, <1>2
<1>4. /\ req'[r].todo = req[r].todo \ {o}
      /\ req'[r].pc \in Paying
      /\ \A q \in Requests \ {r} : req'[q] = req[q]
  <2>1. CASE PayCreate(r, o)
    BY <1>1, <2>1 DEF PayCreate, Remaining, Paying, TypeOK, Handler
  <2>2. CASE PayMarker(r, o)
    BY <1>1, <2>2 DEF PayMarker, Remaining, Paying, TypeOK, Handler
  <2>3. QED
    BY <2>1, <2>2
<1>5. /\ dirty'[r] = dirty[r]
      /\ \A q \in Requests \ {r} :
            dirty'[q] = IF req[q].pc = "idle" THEN dirty[q] ELSE dirty[q] \cup {o}
  BY DEF PayCreate, PayMarker, Touch
<1> HIDE DEF n
<1>6. Inserts(r, o, n)
  BY <1>1, <1>2, <1>3, <1>4, <1>5 DEF Inserts
<1>7. QED
  BY <1>3, <1>6

LEMMA InsertKeeps ==
    ASSUME TypeOK, RaceInv, NEW r \in Requests, NEW o \in req[r].todo,
           PayCreate(r, o) \/ PayMarker(r, o)
    PROVE  RaceInv'
<1>1. PICK n \in Nat : Inserts(r, o, n)
  BY InsertEffect
<1>2. IsPaid(o) => o \in dirty[r]
  BY <1>1 DEF RaceInv, ReadUnpaid, Inserts
<1>3. DoublePayOnlyByRace'
  <2> SUFFICES ASSUME NEW i \in DOMAIN pays', NEW j \in DOMAIN pays',
                      i < j, pays'[i].order = pays'[j].order,
                      pays'[i].status = "PAID", pays'[j].status = "PAID"
               PROVE  pays'[j].raced
    BY DEF DoublePayOnlyByRace
  <2>1. i \in DOMAIN pays
    <3>1. DOMAIN pays \subseteq Nat
      BY DEF TypeOK
    <3>2. QED
      BY <1>1, <3>1 DEF Inserts
  <2>2. CASE j \in DOMAIN pays
    BY <1>1, <2>1, <2>2 DEF RaceInv, DoublePayOnlyByRace, Inserts
  <2>3. CASE j = n
    <3>1. IsPaid(o)
      BY <1>1, <2>1, <2>3 DEF IsPaid, Inserts
    <3>2. QED
      BY <1>1, <1>2, <2>3, <3>1 DEF Inserts
  <2>4. QED
    BY <1>1, <2>2, <2>3 DEF Inserts
<1>4. ReadUnpaid'
  <2> SUFFICES ASSUME NEW q \in Requests, req'[q].pc \in Paying,
                      NEW p \in req'[q].todo \ dirty'[q]
               PROVE  ~IsPaid(p)'
    BY DEF ReadUnpaid
  <2>1. p # o /\ p \in req[q].todo \ dirty[q] /\ req[q].pc \in Paying
    BY <1>1 DEF Paying, Inserts
  <2>2. ~IsPaid(p)
    BY <2>1 DEF RaceInv, ReadUnpaid
  <2>3. QED
    BY <1>1, <2>1, <2>2 DEF IsPaid, Inserts
<1>5. QED
  BY <1>3, <1>4 DEF RaceInv

\* Every other step of a handler, except the read that starts a bill.
LEMMA OtherPayments ==
    ASSUME TypeOK, HandlerOK, NEW r \in Requests,
           HandlerStep(r) \/ NewRequest(r) \/ Abort(r)
    PROVE  \/ PaysNothing
           \/ \E o \in req[r].todo : PayCreate(r, o) \/ PayMarker(r, o)
           \/ \E G \in SUBSET DOMAIN orders, m \in Members \cup {NoMember},
                 p \in Promos \cup {NoPromo} : PayRead(r, G, m, p)
<1> USE DEF PaysNothing, TypeOK, Handler, Paying
<1>1. ASSUME NEW n \in RequestedPoints \cup {0}, PayMember(r, n) PROVE PaysNothing
  BY <1>1 DEF PayMember
<1>2. ASSUME NEW isCoupon \in BOOLEAN, PayPromo(r, isCoupon) PROVE PaysNothing
  BY <1>2 DEF PayPromo
<1>3. ASSUME PayRowsDone(r) \/ PayUsage(r) PROVE PaysNothing
  <2>1. /\ \E pc \in {"usage", "points"} : req' = [req EXCEPT ![r].pc = pc]
        /\ UNCHANGED <<pays, dirty>>
    BY <1>3 DEF PayRowsDone, PayUsage, Goto
  <2>2. /\ req'[r].pc \in {"usage", "points"}
        /\ \A q \in Requests \ {r} : req'[q] = req[q]
    BY <2>1
  <2>3. QED
    BY <2>1, <2>2
<1>4. ASSUME PointsRead(r) PROVE PaysNothing
  BY <1>4 DEF PointsRead
<1>5. ASSUME PointsWrite(r) PROVE PaysNothing
  <2>1. \/ req' = [req EXCEPT ![r].pc = "points", ![r].take = 0]
        \/ req' = [req EXCEPT ![r].pc = "points", ![r].give = 0]
    BY <1>5 DEF PointsWrite
  <2>2. UNCHANGED <<pays, dirty>>
    BY <1>5 DEF PointsWrite
  <2>3. req'[r].pc = "points" /\ \A q \in Requests \ {r} : req'[q] = req[q]
    BY <2>1
  <2>4. QED
    BY <2>2, <2>3
<1>6. ASSUME Respond(r) \/ Reject(r) PROVE PaysNothing
  <2>1. req' = [req EXCEPT ![r] = Idle] /\ UNCHANGED <<pays, dirty>>
    BY <1>6 DEF Respond, Reject, Stop
  <2>2. req'[r].pc = "idle" /\ \A q \in Requests \ {r} : req'[q] = req[q]
    BY <2>1 DEF Idle
  <2>3. QED
    BY <2>1, <2>2
<1>7. ASSUME UnuseRead(r) \/ UnuseWrite(r) PROVE PaysNothing
  <2>1. /\ \E pc \in {"unuseWrite", "points"} : req' = [req EXCEPT ![r].pc = pc]
        /\ UNCHANGED <<pays, dirty>>
    BY <1>7 DEF UnuseRead, UnuseWrite, Goto
  <2>2. /\ req'[r].pc \in {"unuseWrite", "points"}
        /\ \A q \in Requests \ {r} : req'[q] = req[q]
    BY <2>1
  <2>3. QED
    BY <2>1, <2>2
<1>8. ASSUME NEW o \in req[r].todo, NEW groups \in GroupLists(o),
             SplitCommit(r, o, groups)
      PROVE  PaysNothing
  BY <1>8 DEF SplitCommit, Stop, Touch, Idle
<1>9. ASSUME NEW i \in DOMAIN pays, RefundRead(r, i) PROVE PaysNothing
  BY <1>9 DEF RefundRead, Start, Idle
<1>10. ASSUME NEW o \in DOMAIN orders, SplitRead(r, o) PROVE PaysNothing
  BY <1>10 DEF SplitRead, Start, Idle
<1>11. ASSUME RefundWrite(r) PROVE PaysNothing
  <2>1. req[r].row \in DOMAIN pays
    BY <1>11 DEF RefundWrite, HandlerOK
  <2>2. QED
    BY <1>11, <2>1, RowsKept, 0 \in Nat DEF RefundWrite, Goto
<1>12. ASSUME Abort(r) PROVE PaysNothing
  <2>1. req[r].row \in DOMAIN pays
    BY <1>12 DEF Abort, HandlerOK
  <2>2. QED
    BY <1>12, <2>1, RowsKept DEF Abort, Stop, Idle
<1>13. ASSUME PointsShort(r) PROVE PaysNothing
  <2>1. req[r].row \in DOMAIN pays /\ req[r].take \in Nat
    BY <1>13 DEF PointsShort, PointsStep, HandlerOK, AfterFirstWrite
  <2>2. \/ pays' = [pays EXCEPT ![req[r].row].cut = TRUE]
        \/ pays' = [pays EXCEPT ![req[r].row].kept = @ + req[r].take]
    BY <1>13 DEF PointsShort
  <2>3. /\ req'[r].pc \notin Paying
        /\ \A q \in Requests \ {r} : req'[q] = req[q]
    <3>1. req[r].pc = "points"
      BY <1>13 DEF PointsShort
    <3>2. CASE req' = [req EXCEPT ![r].take = 0]
      BY <3>1, <3>2
    <3>3. CASE req' = [req EXCEPT ![r] = Idle]
      BY <3>3 DEF Idle
    <3>4. QED
      BY <1>13, <3>2, <3>3 DEF PointsShort, Stop
  <2>4. dirty' = dirty
    BY <1>13 DEF PointsShort
  <2>5. QED
    BY <2>1, <2>2, <2>3, <2>4, RowsKept
<1>14. QED
  BY <1>1, <1>2, <1>3, <1>4, <1>5, <1>6, <1>7, <1>8, <1>9, <1>10, <1>11, <1>12, <1>13
  DEF HandlerStep, NewRequest

LEMMA RaceStep == TInv /\ RaceInv /\ [Next]_vars => RaceInv'
<1> SUFFICES ASSUME TypeOK, HandlerOK, RaceInv, [Next]_vars PROVE RaceInv'
  BY DEF TInv
<1>1. ASSUME NEW r \in Requests, NEW G \in SUBSET DOMAIN orders,
             NEW m \in Members \cup {NoMember}, NEW p \in Promos \cup {NoPromo},
             PayRead(r, G, m, p)
      PROVE  RaceInv'
  <2>1. DoublePayOnlyByRace'
    BY <1>1 DEF PayRead, RaceInv, DoublePayOnlyByRace
  <2>2. \A o \in G : ~IsPaid(o)
    BY <1>1 DEF PayRead, Payable
  <2>3. /\ req'[r].todo = G
        /\ \A q \in Requests \ {r} : req'[q] = req[q] /\ dirty'[q] = dirty[q]
        /\ pays' = pays
    BY <1>1 DEF PayRead, Start, Idle, TypeOK
  <2>4. ReadUnpaid'
    BY <2>2, <2>3 DEF RaceInv, ReadUnpaid, IsPaid
  <2>5. QED
    BY <2>1, <2>4 DEF RaceInv
<1>2. ASSUME NEW r \in Requests, NEW o \in req[r].todo,
             PayCreate(r, o) \/ PayMarker(r, o)
      PROVE  RaceInv'
  BY <1>2, InsertKeeps
<1>3. CASE PaysNothing
  BY <1>3, PaysNothingKeeps
<1>4. ASSUME NEW o \in DOMAIN orders, NEW s \in StatusTargets, UpdateStatus(o, s)
      PROVE  PaysNothing
  BY <1>4 DEF UpdateStatus, PaysNothing, TypeOK
<1>5. CASE UNCHANGED vars
  BY <1>5 DEF vars, RaceInv, DoublePayOnlyByRace, ReadUnpaid, IsPaid
<1>6. QED
  BY <1>1, <1>2, <1>3, <1>4, <1>5, OtherPayments DEF Next

\* The already-paid check of createPayment and createMergedPayment stops every
\* double payment except by a bill whose order was paid, or cancelled, by
\* another request between its check and its insert.
THEOREM DoublePayNeedsRace == Spec => []DoublePayOnlyByRace
<1>1. Init => RaceInv
  BY DEF Init, RaceInv, DoublePayOnlyByRace, ReadUnpaid, Idle, Paying
<1>2. Spec => []TInv
  BY TypeInit, TypeStep, PTL DEF Spec
<1>3. RaceInv => DoublePayOnlyByRace
  BY DEF RaceInv
<1>4. QED
  BY <1>1, <1>2, <1>3, RaceStep, PTL DEF Spec

-----------------------------------------------------------------------------
(* Merged bills.  What the step of a handler says of the rest of it.         *)

Shape(h) ==
    /\ h.pc = "idle" => h.kind = "none"
    /\ h.pc \in {"member", "promo", "create", "marker", "usage"} => h.kind = "pay"
    /\ h.pc \in {"refund", "unuse", "unuseWrite"} => h.kind = "refund"
    /\ h.pc \in {"points", "pointsWrite"} => h.kind \in {"pay", "refund"}
    /\ h.pc = "split" => h.kind = "split"
    /\ h.pc \in {"member", "promo", "create"} => h.row = 0 /\ h.group = h.todo
    /\ h.pc \in {"usage", "points", "pointsWrite"} => h.todo = {}
    /\ h.kind = "refund" => h.todo = {}

\* A handler that only goes to another step.
LEMMA GotoFields ==
    ASSUME TypeOK, NEW r \in Requests, NEW pc, Goto(r, pc)
    PROVE  /\ req'[r].pc = pc /\ req'[r].kind = req[r].kind /\ req'[r].row = req[r].row
           /\ req'[r].todo = req[r].todo /\ req'[r].group = req[r].group
           /\ req'[r].member = req[r].member /\ req'[r].promo = req[r].promo
           /\ req'[r].coupon = req[r].coupon
           /\ req'[r].take = req[r].take /\ req'[r].give = req[r].give
           /\ \A q \in Requests \ {r} : req'[q] = req[q]
  BY DEF TypeOK, Handler, Goto

LEMMA ShapeStep ==
    ASSUME TypeOK, NEW r \in Requests, Shape(req[r]),
           NewRequest(r) \/ HandlerStep(r) \/ Abort(r)
    PROVE  Shape(req'[r]) /\ \A q \in Requests \ {r} : req'[q] = req[q]
<1> USE DEF Shape
<1>t. req \in [Requests -> Handler] /\ req[r] \in Handler
  BY DEF TypeOK
<1> DEFINE Ok == Shape(req'[r]) /\ \A q \in Requests \ {r} : req'[q] = req[q]
<1>i. Stop(r) => Ok
  BY <1>t DEF Stop, Idle
<1>1. ASSUME NEW G \in SUBSET DOMAIN orders, NEW m \in Members \cup {NoMember},
             NEW p \in Promos \cup {NoPromo}, PayRead(r, G, m, p)
      PROVE  Ok
  BY <1>t, <1>1 DEF PayRead, Start, Idle
<1>2. ASSUME NEW i \in DOMAIN pays, RefundRead(r, i) PROVE Ok
  BY <1>t, <1>2 DEF RefundRead, Start, Idle
<1>3. ASSUME NEW o \in DOMAIN orders, SplitRead(r, o) PROVE Ok
  BY <1>t, <1>3 DEF SplitRead, Start, Idle
<1>4. ASSUME NEW n \in RequestedPoints \cup {0}, PayMember(r, n) PROVE Ok
  BY <1>t, <1>4 DEF PayMember, Handler
<1>5. ASSUME NEW isCoupon \in BOOLEAN, PayPromo(r, isCoupon) PROVE Ok
  BY <1>t, <1>5 DEF PayPromo, Handler
<1>6. ASSUME NEW o \in req[r].todo, PayCreate(r, o) PROVE Ok
  BY <1>t, <1>6 DEF PayCreate, Handler
<1>7. ASSUME NEW o \in req[r].todo, PayMarker(r, o) PROVE Ok
  BY <1>t, <1>7 DEF PayMarker, Handler
<1>8. ASSUME PayRowsDone(r) PROVE Ok
  <2>1. Goto(r, "usage") /\ req[r].todo = {} /\ req[r].pc = "marker"
    BY <1>8 DEF PayRowsDone
  <2>2. QED
    BY <1>t, <2>1, GotoFields
<1>9. ASSUME PayUsage(r) PROVE Ok
  <2>1. Goto(r, "points") /\ req[r].pc = "usage"
    BY <1>9 DEF PayUsage
  <2>2. QED
    BY <1>t, <2>1, GotoFields
<1>10. ASSUME PointsRead(r) PROVE Ok
  BY <1>t, <1>10 DEF PointsRead, Handler
<1>11. ASSUME PointsShort(r) PROVE Ok
  <2>1. req' = [req EXCEPT ![r].take = 0] \/ Stop(r)
    BY <1>11 DEF PointsShort
  <2>2. CASE req' = [req EXCEPT ![r].take = 0]
    BY <1>t, <2>2 DEF Handler
  <2>3. QED
    BY <1>i, <2>1, <2>2
<1>12. ASSUME PointsWrite(r) PROVE Ok
  <2>1. req[r].pc = "pointsWrite"
        /\ \/ req' = [req EXCEPT ![r].pc = "points", ![r].take = 0]
           \/ req' = [req EXCEPT ![r].pc = "points", ![r].give = 0]
    BY <1>12 DEF PointsWrite
  <2>2. CASE req' = [req EXCEPT ![r].pc = "points", ![r].take = 0]
    BY <1>t, <2>1, <2>2 DEF Handler
  <2>3. CASE req' = [req EXCEPT ![r].pc = "points", ![r].give = 0]
    BY <1>t, <2>1, <2>3 DEF Handler
  <2>4. QED
    BY <2>1, <2>2, <2>3
<1>13. ASSUME Respond(r) \/ Reject(r) \/ Abort(r) PROVE Ok
  BY <1>i, <1>13 DEF Respond, Reject, Abort
<1>14. ASSUME RefundWrite(r) PROVE Ok
  <2>1. Goto(r, "unuse") /\ req[r].pc = "refund"
    BY <1>14 DEF RefundWrite
  <2>2. QED
    BY <1>t, <2>1, GotoFields
<1>15. ASSUME UnuseRead(r) PROVE Ok
  <2>1. PICK pc \in {"unuseWrite", "points"} : Goto(r, pc) /\ req[r].pc = "unuse"
    BY <1>15 DEF UnuseRead
  <2>2. QED
    BY <1>t, <2>1, GotoFields
<1>16. ASSUME UnuseWrite(r) PROVE Ok
  <2>1. Goto(r, "points") /\ req[r].pc = "unuseWrite"
    BY <1>16 DEF UnuseWrite
  <2>2. QED
    BY <1>t, <2>1, GotoFields
<1>17. ASSUME NEW o \in req[r].todo, NEW groups \in GroupLists(o),
              SplitCommit(r, o, groups)
       PROVE  Ok
  BY <1>i, <1>17 DEF SplitCommit
<1> HIDE DEF Ok
<1>18. Ok
  BY <1>1, <1>2, <1>3, <1>4, <1>5, <1>6, <1>7, <1>8, <1>9, <1>10, <1>11, <1>12,
     <1>13, <1>14, <1>15, <1>16, <1>17 DEF NewRequest, HandlerStep
<1>19. QED
  BY <1>18 DEF Ok

Shapes == \A r \in Requests : Shape(req[r])

MergeInv == Shapes /\ MergeComplete

LEMMA ShapesStep ==
    ASSUME TypeOK, Shapes, [Next]_vars
    PROVE  Shapes'
<1>1. CASE \E r \in Requests : NewRequest(r) \/ HandlerStep(r) \/ Abort(r)
  BY <1>1, ShapeStep DEF Shapes
<1>2. CASE UNCHANGED req
  BY <1>2 DEF Shapes
<1>3. QED
  BY <1>1, <1>2 DEF Next, UpdateStatus, vars

\* A step that writes no row: the rows keep what they say of their bill, and a
\* bill that ends has no rows to write any more, or is cut.
WritesNoRow ==
    /\ DOMAIN pays' = DOMAIN pays
    /\ \A i \in DOMAIN pays : /\ pays'[i].order = pays[i].order
                              /\ pays'[i].anchor = pays[i].anchor
                              /\ pays'[i].group = pays[i].group
                              /\ pays[i].cut => pays'[i].cut
    /\ \A q \in Requests : req[q].kind = "pay" =>
          \/ /\ req'[q].kind = "pay"
             /\ req'[q].row = req[q].row
             /\ req'[q].todo = req[q].todo
          \/ req[q].todo = {}
          \/ req[q].row \in DOMAIN pays => pays'[req[q].row].cut

LEMMA MergeKept ==
    ASSUME MergeComplete, WritesNoRow
    PROVE  MergeComplete'
<1> SUFFICES ASSUME NEW i \in DOMAIN pays, pays'[i].anchor = i, ~pays'[i].cut,
                    NEW o \in pays'[i].group
             PROVE  \/ \E j \in DOMAIN pays : pays'[j].order = o /\ pays'[j].anchor = i
                    \/ \E r \in Requests : /\ req'[r].kind = "pay"
                                           /\ req'[r].row = i
                                           /\ o \in req'[r].todo
  BY DEF MergeComplete, WritesNoRow
<1>1. pays[i].anchor = i /\ ~pays[i].cut /\ o \in pays[i].group
  BY DEF WritesNoRow
<1>2. CASE \E j \in DOMAIN pays : pays[j].order = o /\ pays[j].anchor = i
  BY <1>2 DEF WritesNoRow
<1>3. CASE \E r \in Requests : req[r].kind = "pay" /\ req[r].row = i /\ o \in req[r].todo
  BY <1>3 DEF WritesNoRow
<1>4. QED
  BY <1>1, <1>2, <1>3 DEF MergeComplete

\* Editing one row in a way that leaves its bill alone.
LEMMA BillRowsKept ==
    ASSUME TypeOK, NEW i \in DOMAIN pays, NEW n \in Nat,
           \/ pays' = pays
           \/ pays' = [pays EXCEPT ![i].status = "REFUNDED"]
           \/ pays' = [pays EXCEPT ![i].cut = TRUE]
           \/ pays' = [pays EXCEPT ![i].kept = @ + n]
    PROVE  /\ DOMAIN pays' = DOMAIN pays
           /\ \A j \in DOMAIN pays :
                 /\ pays'[j].order = pays[j].order
                 /\ pays'[j].anchor = pays[j].anchor
                 /\ pays'[j].group = pays[j].group
                 /\ pays[j].cut => pays'[j].cut
<1>1. \A j \in DOMAIN pays : pays[j] \in Payment
  BY DEF TypeOK
<1>2. CASE pays' = pays
  BY <1>2
<1>3. CASE pays' = [pays EXCEPT ![i].status = "REFUNDED"]
  BY <1>1, <1>3 DEF Payment
<1>4. CASE pays' = [pays EXCEPT ![i].cut = TRUE]
  BY <1>1, <1>4 DEF Payment
<1>5. CASE pays' = [pays EXCEPT ![i].kept = @ + n]
  BY <1>1, <1>5 DEF Payment
<1>6. QED
  BY <1>2, <1>3, <1>4, <1>5

\* Every step of a handler but the two that write a row.
LEMMA OtherBills ==
    ASSUME TypeOK, HandlerOK, Shapes, NEW r \in Requests,
           HandlerStep(r) \/ NewRequest(r) \/ Abort(r)
    PROVE  WritesNoRow \/ \E o \in req[r].todo : PayCreate(r, o) \/ PayMarker(r, o)
<1>t. req[r] \in Handler /\ Shape(req[r])
  BY DEF TypeOK, Shapes
<1>o. \A q \in Requests \ {r} : req'[q] = req[q]
  BY <1>t, ShapeStep
\* The slot keeps its bill, or has none to keep.
<1> DEFINE Kept == \/ req[r].kind # "pay"
                   \/ /\ req'[r].kind = "pay"
                      /\ req'[r].row = req[r].row
                      /\ req'[r].todo = req[r].todo
                   \/ req[r].todo = {}
                   \/ req[r].row \notin DOMAIN pays
<1>k. ASSUME Kept, pays' = pays
      PROVE  WritesNoRow
  BY <1>o, <1>k DEF WritesNoRow
<1>1. ASSUME NEW G \in SUBSET DOMAIN orders, NEW m \in Members \cup {NoMember},
             NEW p \in Promos \cup {NoPromo}, PayRead(r, G, m, p)
      PROVE  WritesNoRow
  BY <1>t, <1>k, <1>1 DEF PayRead, Shape
<1>2. ASSUME NEW i \in DOMAIN pays, RefundRead(r, i) PROVE WritesNoRow
  BY <1>t, <1>k, <1>2 DEF RefundRead, Shape
<1>3. ASSUME NEW o \in DOMAIN orders, SplitRead(r, o) PROVE WritesNoRow
  BY <1>t, <1>k, <1>3 DEF SplitRead, Shape
<1>z. 0 \notin DOMAIN pays
  BY DEF TypeOK
<1>4. ASSUME NEW n \in RequestedPoints \cup {0}, PayMember(r, n) PROVE WritesNoRow
  BY <1>t, <1>k, <1>z, <1>4 DEF PayMember, Shape
<1>5. ASSUME NEW isCoupon \in BOOLEAN, PayPromo(r, isCoupon) PROVE WritesNoRow
  BY <1>t, <1>k, <1>z, <1>5 DEF PayPromo, Shape
<1>6. ASSUME PayRowsDone(r) \/ PayUsage(r) PROVE WritesNoRow
  BY <1>t, <1>k, <1>6 DEF PayRowsDone, PayUsage, Shape
<1>7. ASSUME PointsRead(r) PROVE WritesNoRow
  BY <1>t, <1>k, <1>7 DEF PointsRead, Shape
<1>8. ASSUME PointsWrite(r) PROVE WritesNoRow
  BY <1>t, <1>k, <1>8 DEF PointsWrite, Shape
<1>9. ASSUME Respond(r) PROVE WritesNoRow
  BY <1>t, <1>k, <1>9 DEF Respond, Shape
<1>10. ASSUME Reject(r) PROVE WritesNoRow
  BY <1>t, <1>k, <1>z, <1>10 DEF Reject, Shape, BeforeFirstWrite
<1>11. ASSUME UnuseRead(r) \/ UnuseWrite(r) PROVE WritesNoRow
  BY <1>t, <1>k, <1>11 DEF UnuseRead, UnuseWrite, Shape
<1>12. ASSUME NEW o \in req[r].todo, NEW groups \in GroupLists(o),
              SplitCommit(r, o, groups)
       PROVE  WritesNoRow
  BY <1>t, <1>k, <1>12 DEF SplitCommit, Shape
<1> HIDE DEF Kept
<1>13. ASSUME RefundWrite(r) PROVE WritesNoRow
  <2>1. req[r].row \in DOMAIN pays /\ req[r].kind # "pay"
    BY <1>t, <1>13 DEF RefundWrite, HandlerOK, Shape
  <2>2. QED
    BY <1>o, <1>13, <2>1, BillRowsKept, 0 \in Nat DEF RefundWrite, WritesNoRow
<1>14. ASSUME Abort(r) PROVE WritesNoRow
  <2>1. req[r].row \in DOMAIN pays
    BY <1>14 DEF Abort, HandlerOK
  <2>2. pays' = [pays EXCEPT ![req[r].row].cut = TRUE]
    BY <1>14 DEF Abort
  <2>3. pays'[req[r].row].cut
    <3>1. pays[req[r].row] \in Payment
      BY <2>1 DEF TypeOK
    <3>2. [pays[req[r].row] EXCEPT !.cut = TRUE].cut
      BY <3>1 DEF Payment
    <3>3. QED
      BY <2>1, <2>2, <3>2
  <2>4. QED
    BY <1>o, <2>1, <2>2, <2>3, BillRowsKept, 0 \in Nat DEF WritesNoRow
<1>15. ASSUME PointsShort(r) PROVE WritesNoRow
  <2>1. req[r].row \in DOMAIN pays /\ req[r].take \in Nat /\ req[r].todo = {}
    BY <1>t, <1>15 DEF PointsShort, PointsStep, HandlerOK, AfterFirstWrite, Handler, Shape
  <2>2. \/ pays' = [pays EXCEPT ![req[r].row].cut = TRUE]
        \/ pays' = [pays EXCEPT ![req[r].row].kept = @ + req[r].take]
    BY <1>15 DEF PointsShort
  <2>3. QED
    BY <1>o, <2>1, <2>2, BillRowsKept DEF WritesNoRow
<1>16. QED
  BY <1>1, <1>2, <1>3, <1>4, <1>5, <1>6, <1>7, <1>8, <1>9, <1>10, <1>11, <1>12,
     <1>13, <1>14, <1>15 DEF NewRequest, HandlerStep

LEMMA MergeStep == TInv /\ MergeInv /\ [Next]_vars => MergeInv'
<1> SUFFICES ASSUME TypeOK, HandlerOK, Shapes, MergeComplete, [Next]_vars PROVE MergeInv'
  BY DEF TInv, MergeInv
<1>0. Shapes'
  BY ShapesStep
<1>1. ASSUME NEW r \in Requests, NEW o \in req[r].todo, PayCreate(r, o) \/ PayMarker(r, o)
      PROVE  MergeComplete'
  <2> DEFINE n == Len(pays) + 1
             a == IF req[r].pc = "create" THEN n ELSE req[r].row
  <2>1. /\ req[r] \in Handler /\ Shape(req[r]) /\ pays \in Seq(Payment)
        /\ \A q \in Requests \ {r} : req'[q] = req[q]
    BY <1>1, ShapeStep DEF TypeOK, Shapes, HandlerStep
  <2>2. PICK row : /\ pays' = Append(pays, row) /\ row.order = o
                   /\ row.anchor = a /\ row.group = req[r].group
    <3>1. CASE PayCreate(r, o)
      BY <3>1 DEF PayCreate, PrimaryRow
    <3>2. CASE PayMarker(r, o)
      BY <3>2 DEF PayMarker, MarkerRow
    <3>3. QED
      BY <1>1, <3>1, <3>2
  <2>3. /\ n \in Nat /\ n # 0 /\ n \notin DOMAIN pays
        /\ DOMAIN pays' = DOMAIN pays \cup {n}
        /\ pays'[n] = row
        /\ \A i \in DOMAIN pays : pays'[i] = pays[i]
    BY <2>1, <2>2
  <2>4. req'[r].kind = "pay" /\ req'[r].row = a /\ req'[r].todo = req[r].todo \ {o}
    <3>1. CASE PayCreate(r, o)
      BY <2>1, <3>1 DEF PayCreate, Remaining, Handler, Shape, TypeOK
    <3>2. CASE PayMarker(r, o)
      BY <2>1, <3>2 DEF PayMarker, Remaining, Handler, Shape, TypeOK
    <3>3. QED
      BY <1>1, <3>1, <3>2
  <2>5. req[r].pc # "create" => a \in DOMAIN pays /\ req[r].row = a
    BY <1>1 DEF PayCreate, PayMarker, HandlerOK, AfterFirstWrite
  <2>6. req[r].pc = "create" => req[r].row = 0 /\ req[r].group = req[r].todo /\ a = n
    BY <2>1 DEF Shape
  <2> HIDE DEF a, n
  <2>7. ASSUME NEW i \in DOMAIN pays', pays'[i].anchor = i, ~pays'[i].cut,
               NEW p \in pays'[i].group
        PROVE  \/ \E j \in DOMAIN pays' : pays'[j].order = p /\ pays'[j].anchor = i
               \/ \E q \in Requests : /\ req'[q].kind = "pay"
                                      /\ req'[q].row = i
                                      /\ p \in req'[q].todo
    <3>1. CASE i \in DOMAIN pays
      <4>1. CASE \E j \in DOMAIN pays : pays[j].order = p /\ pays[j].anchor = i
        BY <2>3, <4>1
      <4>2. CASE \E q \in Requests : req[q].kind = "pay" /\ req[q].row = i /\ p \in req[q].todo
        <5>1. PICK q \in Requests : req[q].kind = "pay" /\ req[q].row = i /\ p \in req[q].todo
          BY <4>2
        <5>2. CASE q # r
          BY <2>1, <5>1, <5>2
        <5>3. CASE q = r
          <6>1. i = a
            <7>1. i # 0
              BY <3>1 DEF TypeOK
            <7>2. QED
              BY <2>5, <2>6, <5>1, <5>3, <7>1
          <6>2. CASE p = o
            BY <2>2, <2>3, <6>1, <6>2
          <6>3. CASE p # o
            BY <2>4, <5>1, <5>3, <6>1, <6>3
          <6>4. QED
            BY <6>2, <6>3
        <5>4. QED
          BY <5>2, <5>3
      <4>3. QED
        BY <2>3, <2>7, <3>1, <4>1, <4>2 DEF MergeComplete
    <3>2. CASE i = n
      <4>1. a = n /\ p \in req[r].group
        BY <2>2, <2>3, <2>7, <3>2
      <4>2. req[r].group = req[r].todo
        BY <2>3, <2>5, <2>6, <4>1
      <4>3. CASE p = o
        BY <2>2, <2>3, <3>2, <4>1, <4>3
      <4>4. CASE p # o
        BY <2>4, <3>2, <4>1, <4>2, <4>4
      <4>5. QED
        BY <4>3, <4>4
    <3>3. QED
      BY <2>3, <3>1, <3>2
  <2>8. QED
    BY <2>7 DEF MergeComplete
<1>2. WritesNoRow => MergeComplete'
  BY MergeKept
<1>3. UNCHANGED <<pays, req>> => MergeComplete'
  BY DEF MergeComplete
<1>4. MergeComplete'
  BY <1>1, <1>2, <1>3, OtherBills DEF Next, UpdateStatus, vars
<1>5. QED
  BY <1>0, <1>4 DEF MergeInv

\* However bills, refunds and splits interleave, a bill over several orders writes
\* a row for each of them, unless its handler fails: between the paying row and
\* the last marker row the handler still holds the orders that lack theirs.
THEOREM MergedBillsComplete == Spec => []MergeComplete
<1>1. Init => MergeInv
  <2>1. \A r \in Requests : Init => Shape(req[r])
    BY DEF Init, Shape, Idle
  <2>2. Init => MergeComplete
    BY DEF Init, MergeComplete
  <2>3. QED
    BY <2>1, <2>2 DEF MergeInv, Shapes
<1>2. Spec => []TInv
  BY TypeInit, TypeStep, PTL DEF Spec
<1>3. MergeInv => MergeComplete
  BY DEF MergeInv
<1>4. QED
  BY <1>1, <1>2, <1>3, MergeStep, PTL DEF Spec

-----------------------------------------------------------------------------
(* Dishes and their copies.  Of the orders that a dish is on, one at most is *)
(* not cancelled: a split cancels the original.  That is so until a split    *)
(* whose check was overtaken commits, or a cancelled order is brought back.  *)

Excused(x) ==
    \E o \in DOMAIN orders : /\ x \in orders[o].items
                             /\ orders[o].raced \/ orders[o].revived

LiveWith(x) == {o \in DOMAIN orders : /\ x \in orders[o].items
                                      /\ orders[o].status # "CANCELLED"}

\* Row i pays dish x, and its check was not overtaken.
PaidWith(i, x) == /\ pays[i].status = "PAID"
                  /\ ~pays[i].raced
                  /\ x \in orders[pays[i].order].items

OneOrder(x) ==
    /\ \A o, p \in LiveWith(x) : o = p
    /\ \A i \in DOMAIN pays : PaidWith(i, x) => \A o \in LiveWith(x) : o = pays[i].order
    /\ \A i, j \in DOMAIN pays :
          (PaidWith(i, x) /\ PaidWith(j, x)) => pays[i].order = pays[j].order

Checked == Paying \cup {"split"}

\* What a handler has checked still stands for the orders nobody has touched.
CheckStands ==
    \A r \in Requests : req[r].pc \in Checked =>
        \A o \in req[r].todo \ dirty[r] : Payable(o)

DishInv ==
    /\ \A i \in DOMAIN pays : pays[i].order \in DOMAIN orders
    /\ CheckStands
    /\ \A x : ~Excused(x) => OneOrder(x)

\* The handlers that split go on or stop, and the orders stay.
SplitsNothing ==
    /\ orders' = orders
    /\ \A q \in Requests : req'[q].pc = "split" => req'[q] = req[q]
    /\ \A q \in Requests : req[q].pc \in Checked => dirty[q] \subseteq dirty'[q]

LEMMA OtherSplits ==
    ASSUME TypeOK, NEW r \in Requests,
           HandlerStep(r) \/ NewRequest(r) \/ Abort(r)
    PROVE  \/ SplitsNothing
           \/ \E o \in DOMAIN orders : SplitRead(r, o)
           \/ \E o \in req[r].todo : \E groups \in GroupLists(o) : SplitCommit(r, o, groups)
<1>t. req \in [Requests -> Handler] /\ dirty \in [Requests -> SUBSET Nat]
  BY DEF TypeOK
<1>g. ASSUME NEW pc, pc # "split", Goto(r, pc), UNCHANGED <<orders, dirty>>
      PROVE  SplitsNothing
  BY <1>g, GotoFields DEF SplitsNothing
<1>s. ASSUME Stop(r), UNCHANGED <<orders, dirty>>
      PROVE  SplitsNothing
  BY <1>t, <1>s DEF SplitsNothing, Stop, Idle
<1>1. ASSUME NEW G \in SUBSET DOMAIN orders, NEW m \in Members \cup {NoMember},
             NEW p \in Promos \cup {NoPromo}, PayRead(r, G, m, p)
      PROVE  SplitsNothing
  BY <1>t, <1>1 DEF PayRead, Start, Idle, SplitsNothing, Checked, Paying
<1>2. ASSUME NEW i \in DOMAIN pays, RefundRead(r, i) PROVE SplitsNothing
  BY <1>t, <1>2 DEF RefundRead, Start, Idle, SplitsNothing, Checked, Paying
<1>4. ASSUME NEW n \in RequestedPoints \cup {0}, PayMember(r, n) PROVE SplitsNothing
  BY <1>t, <1>4 DEF PayMember, Handler, SplitsNothing
<1>5. ASSUME NEW isCoupon \in BOOLEAN, PayPromo(r, isCoupon) PROVE SplitsNothing
  BY <1>t, <1>5 DEF PayPromo, Handler, SplitsNothing
<1>6. ASSUME NEW o \in req[r].todo, PayCreate(r, o) PROVE SplitsNothing
  BY <1>t, <1>6 DEF PayCreate, Handler, Touch, SplitsNothing
<1>7. ASSUME NEW o \in req[r].todo, PayMarker(r, o) PROVE SplitsNothing
  BY <1>t, <1>7 DEF PayMarker, Handler, Touch, SplitsNothing
<1>8. ASSUME PayRowsDone(r) PROVE SplitsNothing
  BY <1>g, <1>8 DEF PayRowsDone
<1>9. ASSUME PayUsage(r) PROVE SplitsNothing
  BY <1>g, <1>9 DEF PayUsage
<1>10. ASSUME PointsRead(r) PROVE SplitsNothing
  BY <1>t, <1>10 DEF PointsRead, Handler, SplitsNothing
<1>11. ASSUME PointsShort(r) PROVE SplitsNothing
  <2>1. req[r].pc = "points" /\ UNCHANGED <<orders, dirty>>
        /\ (req' = [req EXCEPT ![r].take = 0] \/ Stop(r))
    BY <1>11 DEF PointsShort
  <2>2. CASE req' = [req EXCEPT ![r].take = 0]
    BY <1>t, <2>1, <2>2 DEF Handler, SplitsNothing
  <2>3. QED
    BY <1>s, <2>1, <2>2
<1>12. ASSUME PointsWrite(r) PROVE SplitsNothing
  <2>1. UNCHANGED <<orders, dirty>>
        /\ \/ req' = [req EXCEPT ![r].pc = "points", ![r].take = 0]
           \/ req' = [req EXCEPT ![r].pc = "points", ![r].give = 0]
    BY <1>12 DEF PointsWrite
  <2>2. CASE req' = [req EXCEPT ![r].pc = "points", ![r].take = 0]
    BY <1>t, <2>1, <2>2 DEF Handler, SplitsNothing
  <2>3. CASE req' = [req EXCEPT ![r].pc = "points", ![r].give = 0]
    BY <1>t, <2>1, <2>3 DEF Handler, SplitsNothing
  <2>4. QED
    BY <2>1, <2>2, <2>3
<1>13. ASSUME Respond(r) \/ Reject(r) \/ Abort(r) PROVE SplitsNothing
  BY <1>s, <1>13 DEF Respond, Reject, Abort
<1>14. ASSUME RefundWrite(r) PROVE SplitsNothing
  BY <1>g, <1>14 DEF RefundWrite
<1>15. ASSUME UnuseRead(r) PROVE SplitsNothing
  <2>1. PICK pc \in {"unuseWrite", "points"} : Goto(r, pc) /\ UNCHANGED <<orders, dirty>>
    BY <1>15 DEF UnuseRead
  <2>2. QED
    BY <1>g, <2>1
<1>16. ASSUME UnuseWrite(r) PROVE SplitsNothing
  BY <1>g, <1>16 DEF UnuseWrite
<1>17. QED
  BY <1>1, <1>2, <1>4, <1>5, <1>6, <1>7, <1>8, <1>9, <1>10, <1>11, <1>12, <1>13,
     <1>14, <1>15, <1>16 DEF NewRequest, HandlerStep

\* What the transaction of a split makes of the order table: the children take up
\* the ids above those that were there.
LEMMA SplitEffect ==
    ASSUME TypeOK, HandlerOK, NEW r \in Requests, NEW o \in req[r].todo,
           NEW groups \in GroupLists(o), SplitCommit(r, o, groups)
    PROVE  /\ o \in DOMAIN orders
           /\ DOMAIN orders \subseteq DOMAIN orders'
           /\ \A p \in DOMAIN orders :
                 /\ orders'[p].items = orders[p].items
                 /\ orders'[p].raced = orders[p].raced
                 /\ orders'[p].revived = orders[p].revived
                 /\ p # o => orders'[p].status = orders[p].status
           /\ orders'[o].status = "CANCELLED"
           /\ \A c \in DOMAIN orders' \ DOMAIN orders :
                 /\ orders'[c].items \subseteq orders[o].items
                 /\ orders'[c].raced = (o \in dirty[r])
           /\ \A c, d \in DOMAIN orders' \ DOMAIN orders :
                 c # d => orders'[c].items \cap orders'[d].items = {}
           /\ \A x \in orders[o].items :
                 \E c \in DOMAIN orders' \ DOMAIN orders : x \in orders'[c].items
           /\ pays' = pays
           /\ \A q \in Requests \ {r} :
                 /\ req'[q] = req[q]
                 /\ req[q].pc # "idle" => dirty'[q] = dirty[q] \cup {o}
           /\ req'[r] = Idle
<1> DEFINE n == Len(orders)
           k == Len(groups)
           row == [orders[o] EXCEPT !.status = "CANCELLED"]
           cancelled == [orders EXCEPT ![o] = row]
           children == [i \in DOMAIN groups |-> ChildOrder(r, o, groups[i])]
<1>1. o \in DOMAIN orders /\ orders \in Seq(Order) /\ orders[o] \in Order
  BY DEF HandlerOK, TypeOK
<1>2. groups \in Seq(SUBSET orders[o].items)
  <2>1. Cardinality(orders[o].items) \in Nat
    BY <1>1, PaymentsAssumption, FS_Subset, FS_CardinalityType DEF Order
  <2>2. PICK l \in 2..Cardinality(orders[o].items) :
          groups \in [1..l -> SUBSET orders[o].items]
    BY <2>1 DEF GroupLists
  <2>3. QED
    BY <2>1, <2>2
<1>3. /\ orders' = cancelled \o children
      /\ SplitsInto(orders[o].items, groups)
      /\ pays' = pays
    BY <1>1 DEF SplitCommit
<1>4. row.items = orders[o].items /\ row.raced = orders[o].raced
      /\ row.revived = orders[o].revived /\ row.status = "CANCELLED"
  BY <1>1 DEF Order
<1>5. \A i \in DOMAIN groups : /\ children[i].items = groups[i]
                               /\ children[i].raced = (o \in dirty[r])
  BY DEF ChildOrder
<1> HIDE DEF row
<1>6. /\ n \in Nat /\ k \in Nat /\ DOMAIN orders = 1..n /\ DOMAIN groups = 1..k
  BY <1>1, <1>2
<1>7. cancelled \in Seq(Order) /\ Len(cancelled) = n
  <2>1. row \in Order
    BY <1>1 DEF row, Order, OrderStatus
  <2>2. QED
    BY <1>1, <2>1, SeqEdit
<1>8. \A p \in 1..n : cancelled[p] = IF p = o THEN row ELSE orders[p]
  BY <1>1, <1>6
<1>9. children \in Seq(Order) /\ Len(children) = k
  <2>1. orders[o].table \in STRING /\ orders[o].items \subseteq Items
    BY <1>1 DEF Order
  <2>2. req[r].was \in OrderStatus
    BY DEF SplitCommit, HandlerOK
  <2>3. o \in Nat
    BY <1>1, <1>6
  <2>4. \A i \in DOMAIN groups : ChildOrder(r, o, groups[i]) \in Order
    BY <1>2, <2>1, <2>2, <2>3 DEF ChildOrder, Order
  <2>5. QED
    BY <1>6, <2>4
<1> HIDE DEF cancelled, children
<1>10. /\ orders' = cancelled \o children
       /\ DOMAIN orders' = 1..(n + k)
  <2>1. orders' = cancelled \o children
    BY <1>3 DEF cancelled, children, row
  <2>2. DOMAIN (cancelled \o children) = 1..(n + k)
    BY <1>6, <1>7, <1>9
  <2>3. QED
    BY <2>1, <2>2
<1>11. \A p \in 1..n : orders'[p] = cancelled[p]
  BY <1>6, <1>7, <1>9, <1>10
<1>12. \A c \in (n + 1)..(n + k) : orders'[c] = children[c - n]
  BY <1>6, <1>7, <1>9, <1>10
<1>13. DOMAIN orders' \ DOMAIN orders = (n + 1)..(n + k)
  BY <1>6, <1>10
<1>14. \A c \in (n + 1)..(n + k) : c - n \in 1..k
  BY <1>6
<1>15. \A c \in (n + 1)..(n + k) : /\ orders'[c].items = groups[c - n]
                                   /\ orders'[c].raced = (o \in dirty[r])
  BY <1>5, <1>6, <1>12, <1>14
<1>16. \A p \in DOMAIN orders : orders'[p] = IF p = o THEN row ELSE orders[p]
  BY <1>6, <1>8, <1>11
<1>17. DOMAIN orders \subseteq DOMAIN orders'
  BY <1>6, <1>10
<1>18. \A p \in DOMAIN orders : /\ orders'[p].items = orders[p].items
                                /\ orders'[p].raced = orders[p].raced
                                /\ orders'[p].revived = orders[p].revived
                                /\ p # o => orders'[p].status = orders[p].status
  BY <1>4, <1>16
<1>19. orders'[o].status = "CANCELLED"
  BY <1>1, <1>4, <1>16
<1>20. \A c \in DOMAIN orders' \ DOMAIN orders :
          /\ orders'[c].items \subseteq orders[o].items
          /\ orders'[c].raced = (o \in dirty[r])
  <2> SUFFICES ASSUME NEW c \in (n + 1)..(n + k)
               PROVE  /\ orders'[c].items \subseteq orders[o].items
                      /\ orders'[c].raced = (o \in dirty[r])
    BY <1>13
  <2>1. PICK i \in DOMAIN groups : i = c - n
    BY <1>6, <1>14
  <2>2. orders'[c].items = groups[i] /\ orders'[c].raced = (o \in dirty[r])
    BY <1>15, <2>1
  <2>3. groups[i] \subseteq orders[o].items
    BY <1>3 DEF SplitsInto
  <2>4. QED
    BY <2>2, <2>3
<1>21. \A c, d \in DOMAIN orders' \ DOMAIN orders :
          c # d => orders'[c].items \cap orders'[d].items = {}
  <2> SUFFICES ASSUME NEW c \in (n + 1)..(n + k), NEW d \in (n + 1)..(n + k), c # d
               PROVE  orders'[c].items \cap orders'[d].items = {}
    BY <1>13
  <2>1. c - n \in 1..k /\ d - n \in 1..k /\ c - n # d - n
    BY <1>6
  <2>2. groups[c - n] \cap groups[d - n] = {}
    BY <1>3, <1>6, <2>1 DEF SplitsInto
  <2>3. QED
    BY <1>15, <2>2
<1>22. \A x \in orders[o].items :
          \E c \in DOMAIN orders' \ DOMAIN orders : x \in orders'[c].items
  <2> SUFFICES ASSUME NEW x \in orders[o].items
               PROVE  \E c \in DOMAIN orders' \ DOMAIN orders : x \in orders'[c].items
    OBVIOUS
  <2>1. PICK i \in DOMAIN groups : x \in groups[i]
    BY <1>3 DEF SplitsInto
  <2>2. n + i \in (n + 1)..(n + k) /\ (n + i) - n = i
    BY <1>6, <2>1
  <2>3. x \in orders'[n + i].items
    BY <1>15, <2>1, <2>2
  <2>4. QED
    BY <1>13, <2>2, <2>3
<1>23. /\ req'[r] = Idle
       /\ \A q \in Requests \ {r} :
             /\ req'[q] = req[q]
             /\ req[q].pc # "idle" => dirty'[q] = dirty[q] \cup {o}
  BY DEF SplitCommit, Stop, Touch, TypeOK
<1>24. QED
  BY <1>1, <1>3, <1>17, <1>18, <1>19, <1>20, <1>21, <1>22, <1>23

\* No step but a split copies a dish, and no step but a payment pays one.
LEMMA DishKept ==
    ASSUME DishInv, PaysNothing, SplitsNothing
    PROVE  DishInv'
<1>1. \A i \in DOMAIN pays' : pays'[i].order \in DOMAIN orders'
  BY DEF DishInv, PaysNothing, SplitsNothing
<1>2. \A o : Payable(o) => Payable(o)'
  BY DEF Payable, IsPaid, PaysNothing, SplitsNothing
<1>3. CheckStands'
  <2> SUFFICES ASSUME NEW q \in Requests, req'[q].pc \in Checked,
                      NEW o \in req'[q].todo \ dirty'[q]
               PROVE  Payable(o)'
    BY DEF CheckStands
  <2>1. req[q].pc \in Checked /\ req'[q].todo = req[q].todo
    BY DEF Checked, PaysNothing, SplitsNothing
  <2>2. dirty[q] \subseteq dirty'[q]
    BY <2>1 DEF SplitsNothing
  <2>3. QED
    BY <1>2, <2>1, <2>2 DEF DishInv, CheckStands
<1>4. ASSUME NEW x, ~Excused(x)' PROVE OneOrder(x)'
  <2>1. ~Excused(x) /\ LiveWith(x)' = LiveWith(x)
    BY <1>4 DEF Excused, LiveWith, SplitsNothing
  <2>2. \A i \in DOMAIN pays' : PaidWith(i, x)' => /\ PaidWith(i, x)
                                                   /\ pays'[i].order = pays[i].order
    BY DEF PaidWith, PaysNothing, SplitsNothing
  <2>3. OneOrder(x) /\ DOMAIN pays' = DOMAIN pays
    BY <2>1 DEF DishInv, PaysNothing
  <2>4. QED
    BY <2>1, <2>2, <2>3 DEF OneOrder
<1>5. QED
  BY <1>1, <1>3, <1>4 DEF DishInv

\* A handler that starts has just checked its orders, all of them.
LEMMA DishChecked ==
    ASSUME TypeOK, DishInv, NEW r \in Requests, NEW h,
           Start(r, h), UNCHANGED <<orders, pays>>,
           \A o \in h.todo : Payable(o)
    PROVE  DishInv'
<1>1. /\ req'[r] = h
      /\ \A q \in Requests \ {r} : req'[q] = req[q] /\ dirty'[q] = dirty[q]
  BY DEF Start, TypeOK
<1>2. CheckStands'
  BY <1>1 DEF DishInv, CheckStands, Payable, IsPaid
<1>3. QED
  BY <1>2 DEF DishInv, Excused, OneOrder, LiveWith, PaidWith

LEMMA DishPaid ==
    ASSUME TypeOK, HandlerOK, DishInv, NEW r \in Requests, NEW o \in req[r].todo,
           PayCreate(r, o) \/ PayMarker(r, o)
    PROVE  DishInv'
<1>1. PICK n \in Nat : Inserts(r, o, n)
  BY InsertEffect
<1>2. o \in DOMAIN orders /\ UNCHANGED orders
  BY DEF HandlerOK, PayCreate, PayMarker
<1>3. \A i \in DOMAIN pays' : pays'[i].order \in DOMAIN orders'
  BY <1>1, <1>2 DEF DishInv, Inserts
<1>4. CheckStands'
  <2> SUFFICES ASSUME NEW q \in Requests, req'[q].pc \in Checked,
                      NEW p \in req'[q].todo \ dirty'[q]
               PROVE  Payable(p)'
    BY DEF CheckStands
  <2>1. p # o /\ p \in req[q].todo \ dirty[q] /\ req[q].pc \in Checked
    <3>1. CASE q = r
      BY <1>1, <3>1 DEF Checked, Inserts
    <3>2. CASE q # r
      <4>1. /\ req'[q] = req[q]
            /\ dirty'[q] = IF req[q].pc = "idle" THEN dirty[q] ELSE dirty[q] \cup {o}
        BY <1>1, <3>2 DEF Inserts
      <4>2. req[q].pc \in Checked /\ req[q].pc # "idle"
        BY <4>1 DEF Checked, Paying
      <4>3. QED
        BY <4>1, <4>2
    <3>3. QED
      BY <3>1, <3>2
  <2>2. Payable(p)
    BY <2>1 DEF DishInv, CheckStands
  <2>3. QED
    BY <1>1, <1>2, <2>1, <2>2 DEF Payable, IsPaid, Inserts
<1>5. ASSUME NEW x, ~Excused(x)' PROVE OneOrder(x)'
  <2>1. ~Excused(x) /\ LiveWith(x)' = LiveWith(x)
    BY <1>2, <1>5 DEF Excused, LiveWith
  <2>2. OneOrder(x)
    BY <2>1 DEF DishInv
  <2>3. \A i \in DOMAIN pays : PaidWith(i, x)' => /\ PaidWith(i, x)
                                                  /\ pays'[i].order = pays[i].order
    BY <1>1, <1>2 DEF PaidWith, Inserts
  <2>4. PaidWith(n, x)' => o \in LiveWith(x)
    <3>1. PaidWith(n, x)' => x \in orders[o].items /\ o \notin dirty[r]
      BY <1>1, <1>2 DEF PaidWith, Inserts
    <3>2. o \notin dirty[r] => Payable(o)
      BY <1>1 DEF DishInv, CheckStands, Checked, Inserts
    <3>3. QED
      BY <1>2, <3>1, <3>2 DEF LiveWith, Payable
  <2>5. pays'[n].order = o /\ DOMAIN pays' = DOMAIN pays \cup {n}
    BY <1>1 DEF Inserts
  <2>6. QED
    BY <2>1, <2>2, <2>3, <2>4, <2>5 DEF OneOrder
<1>6. QED
  BY <1>3, <1>4, <1>5 DEF DishInv

\* A split whose check stands cancels the one order a dish is on and puts the
\* dish on one other; nobody has paid for it yet.
LEMMA DishSplit ==
    ASSUME TypeOK, HandlerOK, DishInv, NEW r \in Requests, NEW o \in req[r].todo,
           NEW groups \in GroupLists(o), SplitCommit(r, o, groups)
    PROVE  DishInv'
<1> DEFINE new == DOMAIN orders' \ DOMAIN orders
<1>1. /\ o \in DOMAIN orders
      /\ DOMAIN orders \subseteq DOMAIN orders'
      /\ pays' = pays
      /\ orders'[o].status = "CANCELLED"
      /\ req'[r] = Idle
      /\ req[r].pc = "split"
  <2>1. req[r].pc = "split"
    BY DEF SplitCommit
  <2>2. QED
    BY <2>1, SplitEffect
<1>2. \A p \in DOMAIN orders : /\ orders'[p].items = orders[p].items
                               /\ orders'[p].raced = orders[p].raced
                               /\ orders'[p].revived = orders[p].revived
                               /\ p # o => orders'[p].status = orders[p].status
  BY SplitEffect
<1>3. \A c \in new : /\ orders'[c].items \subseteq orders[o].items
                     /\ orders'[c].raced = (o \in dirty[r])
  BY SplitEffect
<1>4. \A c, d \in new : c # d => orders'[c].items \cap orders'[d].items = {}
  BY SplitEffect
<1>5. \A x \in orders[o].items : \E c \in new : x \in orders'[c].items
  BY SplitEffect
<1>6. \A q \in Requests \ {r} :
         /\ req'[q] = req[q]
         /\ req[q].pc # "idle" => dirty'[q] = dirty[q] \cup {o}
  BY SplitEffect
<1>7. DOMAIN orders' = DOMAIN orders \cup new
  BY <1>1
<1> HIDE DEF new
<1>8. \A i \in DOMAIN pays' : pays'[i].order \in DOMAIN orders'
  BY <1>1 DEF DishInv
<1>9. CheckStands'
  <2> SUFFICES ASSUME NEW q \in Requests, req'[q].pc \in Checked,
                      NEW p \in req'[q].todo \ dirty'[q]
               PROVE  Payable(p)'
    BY DEF CheckStands
  <2>1. q # r
    BY <1>1 DEF Idle, Checked, Paying
  <2>2. p # o /\ p \in req[q].todo \ dirty[q] /\ req[q].pc \in Checked
    BY <1>6, <2>1 DEF Checked, Paying
  <2>3. Payable(p) /\ p \in DOMAIN orders
    BY <2>2 DEF DishInv, CheckStands, HandlerOK
  <2>4. QED
    BY <1>1, <1>2, <2>2, <2>3 DEF Payable, IsPaid
<1>10. ASSUME NEW x, ~Excused(x)' PROVE OneOrder(x)'
  <2>1. ~Excused(x)
    BY <1>1, <1>2, <1>10 DEF Excused
  <2>2. OneOrder(x)
    BY <2>1 DEF DishInv
  <2>3. \A i \in DOMAIN pays' : PaidWith(i, x)' => PaidWith(i, x)
    BY <1>1, <1>2 DEF PaidWith, DishInv
  <2>4. CASE x \notin orders[o].items
    <3>1. LiveWith(x)' \subseteq LiveWith(x)
      BY <1>1, <1>2, <1>3, <1>7, <2>4 DEF LiveWith
    <3>2. QED
      BY <1>1, <2>2, <2>3, <3>1 DEF OneOrder
  <2>5. CASE x \in orders[o].items
    <3>1. PICK c \in new : x \in orders'[c].items
      BY <1>5, <2>5
    <3>2. o \notin dirty[r]
      BY <1>3, <1>7, <1>10, <3>1 DEF Excused
    <3>3. Payable(o)
      BY <1>1, <3>2 DEF DishInv, CheckStands, Checked
    <3>4. o \in LiveWith(x)
      BY <1>1, <2>5, <3>3 DEF LiveWith, Payable
    <3>5. \A i \in DOMAIN pays : ~PaidWith(i, x)
      BY <2>2, <3>3, <3>4 DEF OneOrder, PaidWith, Payable, IsPaid
    <3>6. LiveWith(x)' \subseteq new
      <4> SUFFICES ASSUME NEW p \in LiveWith(x)', p \notin new PROVE FALSE
        OBVIOUS
      <4>1. p \in DOMAIN orders /\ p # o
        BY <1>1, <1>7 DEF LiveWith
      <4>2. p \in LiveWith(x)
        BY <1>2, <4>1 DEF LiveWith
      <4>3. QED
        BY <2>2, <3>4, <4>1, <4>2 DEF OneOrder
    <3>7. \A p, q \in LiveWith(x)' : p = q
      BY <1>4, <3>6 DEF LiveWith
    <3>8. QED
      BY <1>1, <2>3, <3>5, <3>7 DEF OneOrder
  <2>6. QED
    BY <2>4, <2>5
<1>11. QED
  BY <1>8, <1>9, <1>10 DEF DishInv

\* Staff cancel an order, which everyone at work on it will have missed, or bring
\* one back, which shows.
LEMMA DishStatus ==
    ASSUME TypeOK, HandlerOK, DishInv, NEW o \in DOMAIN orders, NEW s \in StatusTargets,
           UpdateStatus(o, s)
    PROVE  DishInv'
<1>1. orders[o] \in Order /\ req' = req /\ pays' = pays
  BY DEF TypeOK, UpdateStatus
<1>2. DOMAIN orders' = DOMAIN orders
  BY DEF UpdateStatus
<1>3. \A p \in DOMAIN orders : p # o => orders'[p] = orders[p]
  BY DEF UpdateStatus
<1>4. /\ orders'[o].status = s
      /\ orders'[o].items = orders[o].items
      /\ orders'[o].raced = orders[o].raced
      /\ orders'[o].revived = (orders[o].revived \/ orders[o].status = "CANCELLED")
  BY <1>1 DEF UpdateStatus, Order
<1>5. \A q \in Requests : /\ dirty[q] \subseteq dirty'[q]
                          /\ (s = "CANCELLED" /\ req[q].pc # "idle") => o \in dirty'[q]
  BY DEF UpdateStatus
<1>6. CheckStands'
  <2> SUFFICES ASSUME NEW q \in Requests, req'[q].pc \in Checked,
                      NEW p \in req'[q].todo \ dirty'[q]
               PROVE  Payable(p)'
    BY DEF CheckStands
  <2>1. Payable(p) /\ p \in DOMAIN orders
    BY <1>1, <1>5 DEF DishInv, CheckStands, HandlerOK
  <2>2. p = o => s # "CANCELLED"
    BY <1>1, <1>5 DEF Checked, Paying
  <2>3. QED
    BY <1>1, <1>3, <1>4, <2>1, <2>2 DEF Payable, IsPaid
<1>7. ASSUME NEW x, ~Excused(x)' PROVE OneOrder(x)'
  <2>1. \A p \in DOMAIN orders : /\ orders'[p].items = orders[p].items
                                 /\ orders'[p].raced = orders[p].raced
                                 /\ orders[p].revived => orders'[p].revived
    BY <1>3, <1>4
  <2>2. OneOrder(x)
    BY <1>2, <1>7, <2>1 DEF DishInv, Excused
  <2>3. LiveWith(x)' \subseteq LiveWith(x)
    BY <1>2, <1>3, <1>4, <1>7 DEF LiveWith, Excused
  <2>4. \A i \in DOMAIN pays' : PaidWith(i, x)' => PaidWith(i, x)
    BY <1>1, <2>1 DEF PaidWith, DishInv
  <2>5. QED
    BY <1>1, <2>2, <2>3, <2>4 DEF OneOrder
<1>8. QED
  BY <1>1, <1>2, <1>6, <1>7 DEF DishInv

LEMMA DishStep == TInv /\ DishInv /\ [Next]_vars => DishInv'
<1> SUFFICES ASSUME TypeOK, HandlerOK, DishInv, [Next]_vars PROVE DishInv'
  BY DEF TInv
<1>1. ASSUME NEW r \in Requests, NewRequest(r) \/ HandlerStep(r) \/ Abort(r)
      PROVE  DishInv'
  <2>1. ASSUME NEW G \in SUBSET DOMAIN orders, NEW m \in Members \cup {NoMember},
               NEW p \in Promos \cup {NoPromo}, PayRead(r, G, m, p)
        PROVE  DishInv'
    <3> DEFINE h == [Idle EXCEPT !.pc = "member", !.kind = "pay", !.todo = G,
                                 !.group = G, !.member = m, !.promo = p]
    <3>1. Start(r, h) /\ h.todo = G
      BY <2>1 DEF PayRead, Idle
    <3> HIDE DEF h
    <3>2. QED
      BY <2>1, <3>1, DishChecked DEF PayRead
  <2>2. ASSUME NEW o \in DOMAIN orders, SplitRead(r, o) PROVE DishInv'
    <3> DEFINE h == [Idle EXCEPT !.pc = "split", !.kind = "split", !.todo = {o},
                                 !.was = orders[o].status]
    <3>1. Start(r, h) /\ h.todo = {o}
      BY <2>2 DEF SplitRead, Idle
    <3> HIDE DEF h
    <3>2. QED
      BY <2>2, <3>1, DishChecked DEF SplitRead
  <2>3. ASSUME NEW o \in req[r].todo, PayCreate(r, o) \/ PayMarker(r, o)
        PROVE  DishInv'
    BY <2>3, DishPaid
  <2>4. ASSUME NEW o \in req[r].todo, NEW groups \in GroupLists(o),
               SplitCommit(r, o, groups)
        PROVE  DishInv'
    BY <2>4, DishSplit
  <2>5. CASE PaysNothing /\ SplitsNothing
    BY <2>5, DishKept
  <2>6. QED
    BY <1>1, <2>1, <2>2, <2>3, <2>4, <2>5, OtherPayments, OtherSplits
<1>2. ASSUME NEW o \in DOMAIN orders, NEW s \in StatusTargets, UpdateStatus(o, s)
      PROVE  DishInv'
  BY <1>2, DishStatus
<1>3. CASE UNCHANGED vars
  BY <1>3, DishKept DEF vars, PaysNothing, SplitsNothing
<1>4. QED
  BY <1>1, <1>2, <1>3 DEF Next

LEMMA DishInit == Init => DishInv
<1> SUFFICES ASSUME Init PROVE DishInv
  OBVIOUS
<1>1. DOMAIN pays = {}
  BY DEF Init
<1>2. CheckStands
  BY DEF Init, CheckStands, Idle
<1>3. \A x : OneOrder(x)
  BY <1>1, PaymentsAssumption DEF Init, OneOrder, LiveWith
<1>4. QED
  BY <1>1, <1>2, <1>3 DEF DishInv

\* A dish on an order and on the copies a split has made of it is paid on one of
\* them, unless a check was overtaken by another handler or a cancelled order was
\* brought back: whatever the number of splits, bills and refunds at work.
THEOREM DishesPaidOnce == Spec => []DishPaidTwiceOnlyByRace
<1>1. DishInv => DishPaidTwiceOnlyByRace
  <2> SUFFICES ASSUME DishInv, NEW i \in DOMAIN pays, NEW j \in DOMAIN pays,
                      NEW x, x \in orders[pays[i].order].items,
                      x \in orders[pays[j].order].items,
                      pays[i].order # pays[j].order,
                      pays[i].status = "PAID", pays[j].status = "PAID",
                      ~pays[i].raced, ~pays[j].raced
               PROVE  Excused(x)
    BY DEF DishPaidTwiceOnlyByRace, Excused
  <2>1. PaidWith(i, x) /\ PaidWith(j, x)
    BY DEF PaidWith
  <2>2. QED
    BY <2>1 DEF DishInv, OneOrder
<1>2. Spec => []TInv
  BY TypeInit, TypeStep, PTL DEF Spec
<1>3. QED
  BY <1>1, <1>2, DishInit, DishStep, PTL DEF Spec

-----------------------------------------------------------------------------
(* Balances and counters.  With one handler at a time, what a member's points *)
(* and a promotion's counter lack against the payment rows is exactly what    *)
(* the handler at work has still to write.                                    *)

Gain(n) == IF n > 0 THEN n ELSE 0

PastRow    == {"marker", "usage", "points", "pointsWrite"}
PastRefund == {"unuse", "unuseWrite", "points", "pointsWrite"}

\* What handler h has still to add to the points of member m.
Owed(h, m) ==
    IF h.member # m THEN 0
    ELSE IF h.kind = "pay" /\ h.pc \in PastRow THEN Gain(h.give) - h.take
    ELSE IF h.kind = "refund" /\ h.pc \in PastRefund THEN h.give - Gain(h.take)
    ELSE 0

\* What it has still to add to the counter of promotion p.
UsesOwed(h, p) ==
    IF h.promo # p THEN 0
    ELSE IF h.pc \in {"marker", "usage"} THEN 1
    ELSE IF h.pc \in {"unuse", "unuseWrite"} THEN -1
    ELSE 0

\* A handler's local copies: what it will book is what the row says, and the
\* balance it has read is still the member's.
Copies(h) ==
    /\ (h.kind = "pay" /\ h.pc # "member") => h.take \in Nat
    /\ h.kind = "refund" =>
          /\ h.give \in Nat
          /\ h.row \in DOMAIN pays
          /\ pays[h.row].member = h.member
    /\ h.pc = "refund" =>
          /\ pays[h.row].status = "PAID"
          /\ pays[h.row].promo = h.promo
          /\ pays[h.row].discountPoints = h.give /\ pays[h.row].pointsEarned = h.take
    /\ h.pc = "pointsWrite" =>
          /\ h.member \in Members
          /\ h.cur = points[h.member]

NoneCut == \A i \in DOMAIN pays : ~pays[i].cut

PointsAgree(h) == \A m \in Members : points[m] = Account(m) - Owed(h, m)
UsesAgree(h)   == \A p \in Promos : uses[p] = Cardinality(Used(p)) - UsesOwed(h, p)

Books(h) == Shape(h) /\ Copies(h) /\ (NoneCut => PointsAgree(h) /\ UsesAgree(h))

\* The handlers that will count a use of p: those that have checked its coupon,
\* and those whose row names it.
Counting(p) ==
    {r \in Requests : /\ req[r].promo = p
                      /\ \/ req[r].pc = "create" /\ req[r].coupon
                         \/ req[r].pc \in {"marker", "usage"}}

CouponRows(p) == \A i \in DOMAIN pays : pays[i].promo = p => pays[i].coupon

CouponInv ==
    \A p \in Promos :
        (PromoOf[p].maxUses # NoLimit /\ CouponRows(p)) =>
            uses[p] + Cardinality(Counting(p))
               <= PromoOf[p].maxUses + Cardinality(Requests) - 1

LEMMA GainIsMax ==
    ASSUME NEW n \in Int
    PROVE  Max({n, 0}) = Gain(n)
<1>1. CASE n > 0
  <2>1. \A x \in {n, 0} : (\A y \in {n, 0} : x >= y) <=> x = n
    BY <1>1
  <2>2. QED
    BY <1>1, <2>1 DEF Max, Gain
<1>2. CASE ~(n > 0)
  <2>1. \A x \in {n, 0} : (\A y \in {n, 0} : x >= y) <=> x = 0
    BY <1>2
  <2>2. QED
    BY <1>2, <2>1 DEF Max, Gain
<1>3. QED
  BY <1>1, <1>2

LEMMA EntryIs ==
    ASSUME NEW row \in Payment, NEW m
    PROVE  /\ Entry(row, m) \in Int
           /\ row.member # m => Entry(row, m) = 0
           /\ (row.member = m /\ row.status = "PAID") =>
                 Entry(row, m) = Gain(row.pointsEarned) - row.discountPoints + row.kept
           /\ (row.member = m /\ row.status # "PAID") => Entry(row, m) = row.kept
<1>1. /\ row.pointsEarned \in Int /\ row.discountPoints \in Nat /\ row.kept \in Nat
      /\ Max({row.pointsEarned, 0}) = Gain(row.pointsEarned)
      /\ Gain(row.pointsEarned) \in Int
  BY GainIsMax DEF Payment, Gain
<1>2. QED
  BY <1>1 DEF Entry

\* The account of a member is an integer; a row that is added adds its entry, and
\* one that is edited replaces it.
Entries(m) == [i \in DOMAIN pays |-> Entry(pays[i], m)]

LEMMA EntriesInt ==
    ASSUME pays \in Seq(Payment), NEW m
    PROVE  /\ IsFiniteSet(DOMAIN pays)
           /\ Integral(Entries(m), DOMAIN pays)
           /\ SumFunctionOnSet(Entries(m), DOMAIN pays) \in Int
<1>1. DOMAIN pays = 1..Len(pays) /\ Len(pays) \in Nat
  OBVIOUS
<1>2. 1 \in Int /\ Len(pays) \in Int
  BY <1>1
<1>3. IsFiniteSet(DOMAIN pays)
  BY <1>1, <1>2, FS_Interval
<1>4. Integral(Entries(m), DOMAIN pays)
  <2>1. \A i \in DOMAIN pays : Entry(pays[i], m) \in Int
    BY EntryIs
  <2>2. QED
    BY <2>1 DEF Integral, Entries
<1>5. QED
  BY <1>3, <1>4, SumInt

LEMMA AccountInt ==
    ASSUME pays \in Seq(Payment), NEW m \in Members
    PROVE  Account(m) \in Int
<1>1. SumFunctionOnSet(Entries(m), DOMAIN pays) \in Int
  BY EntriesInt
<1>2. InitialPoints[m] \in Int
  BY PaymentsAssumption
<1>3. Account(m) = InitialPoints[m] + SumFunctionOnSet(Entries(m), DOMAIN pays)
  BY DEF Account, Entries
<1>4. QED
  BY <1>1, <1>2, <1>3

LEMMA AccountGrow ==
    ASSUME TypeOK, NEW row \in Payment, pays' = Append(pays, row), NEW m \in Members
    PROVE  Account(m)' = Account(m) + Entry(row, m)
<1> DEFINE n == Len(pays)
           f == Entries(m)
           k == Entries(m)'
<1>1. pays \in Seq(Payment) /\ pays' \in Seq(Payment)
  BY DEF TypeOK
<1>2. n \in Nat /\ DOMAIN pays = 1..n /\ DOMAIN pays' = 1..(n + 1)
  BY <1>1
<1>3. pays'[n + 1] = row /\ \A i \in 1..n : pays'[i] = pays[i]
  BY <1>1
<1>4. /\ \A i \in 1..n : k[i] = f[i]
      /\ k[n + 1] = Entry(row, m)
  BY <1>2, <1>3 DEF Entries
<1>5. Integral(f, DOMAIN pays) /\ SumFunctionOnSet(f, DOMAIN pays) \in Int
  BY <1>1, EntriesInt
<1>6. Entry(row, m) \in Int
  BY EntryIs
<1>a. InitialPoints[m] \in Int
  BY PaymentsAssumption
<1>b. /\ Account(m) = InitialPoints[m] + SumFunctionOnSet(f, DOMAIN pays)
      /\ Account(m)' = InitialPoints[m] + SumFunctionOnSet(k, DOMAIN pays')
  BY DEF Account, Entries
<1> HIDE DEF n, f, k
<1>7. Same(f, k, 1..n) /\ Integral(f, 1..n) /\ k[n + 1] \in Int
  BY <1>2, <1>4, <1>5, <1>6 DEF Same
<1>8. SumFunctionOnSet(k, 1..(n + 1)) = SumFunctionOnSet(f, 1..n) + k[n + 1]
  BY <1>2, <1>7, SumGrow
<1>9. QED
  BY <1>2, <1>4, <1>5, <1>6, <1>8, <1>a, <1>b

LEMMA AccountEdit ==
    ASSUME TypeOK, NEW i \in DOMAIN pays, NEW row \in Payment,
           pays' = [pays EXCEPT ![i] = row], NEW m \in Members
    PROVE  Account(m)' = Account(m) - Entry(pays[i], m) + Entry(row, m)
<1> DEFINE S == DOMAIN pays
           f == Entries(m)
           k == Entries(m)'
<1>1. pays \in Seq(Payment)
  BY DEF TypeOK
<1>2. pays' \in Seq(Payment)
  BY <1>1, SeqEdit
<1>3. DOMAIN pays' = S
  OBVIOUS
<1>4. /\ f[i] = Entry(pays[i], m)
      /\ k[i] = Entry(row, m)
      /\ \A j \in S : j # i => k[j] = f[j]
  BY DEF Entries
<1>5. /\ Integral(f, S) /\ IsFiniteSet(S)
      /\ SumFunctionOnSet(f, S) \in Int
  BY <1>1, EntriesInt
<1>6. Integral(k, DOMAIN pays')
  <2>1. \A j \in DOMAIN pays' : Entry(pays'[j], m) \in Int
    BY <1>2, EntryIs
  <2>2. QED
    BY <2>1 DEF Integral, Entries
<1>7. pays[i] \in Payment
  BY <1>1
<1>8. Entry(row, m) \in Int /\ Entry(pays[i], m) \in Int
  BY <1>7, EntryIs
<1>a. InitialPoints[m] \in Int
  BY PaymentsAssumption
<1>b. /\ Account(m) = InitialPoints[m] + SumFunctionOnSet(f, S)
      /\ Account(m)' = InitialPoints[m] + SumFunctionOnSet(k, S)
  BY <1>3 DEF Account, Entries
<1>c. i \in S
  OBVIOUS
<1> HIDE DEF S, f, k
<1>9. Differ(f, k, S, i) /\ Integral(k, S)
  BY <1>3, <1>4, <1>6 DEF Differ
<1>10. SumFunctionOnSet(k, S) = SumFunctionOnSet(f, S) - f[i] + k[i]
  BY <1>5, <1>9, <1>c, SumUpdate
<1>11. QED
  BY <1>4, <1>5, <1>8, <1>10, <1>a, <1>b

LEMMA UsedFinite ==
    ASSUME pays \in Seq(Payment), NEW p
    PROVE  IsFiniteSet(Used(p)) /\ Cardinality(Used(p)) \in Nat
<1>1. IsFiniteSet(DOMAIN pays) /\ Used(p) \subseteq DOMAIN pays
  BY EntriesInt DEF Used
<1>2. IsFiniteSet(Used(p))
  BY <1>1, FS_Subset
<1>3. QED
  BY <1>2, FS_CardinalityType

LEMMA UsedGrow ==
    ASSUME TypeOK, NEW row \in Payment, pays' = Append(pays, row),
           row.status = "PAID", NEW p
    PROVE  Cardinality(Used(p))' = IF row.promo = p THEN Cardinality(Used(p)) + 1
                                                    ELSE Cardinality(Used(p))
<1> DEFINE n == Len(pays) + 1
<1>1. pays \in Seq(Payment)
  BY DEF TypeOK
<1>2. /\ DOMAIN pays' = DOMAIN pays \cup {n} /\ n \notin DOMAIN pays
      /\ pays'[n] = row
      /\ \A i \in DOMAIN pays : pays'[i] = pays[i]
  BY <1>1
<1>3. IsFiniteSet(Used(p)) /\ Cardinality(Used(p)) \in Nat /\ n \notin Used(p)
  BY <1>1, <1>2, UsedFinite DEF Used
<1> HIDE DEF n
<1>4. CASE row.promo = p
  <2>1. Used(p)' = Used(p) \cup {n}
    BY <1>2, <1>4 DEF Used
  <2>2. QED
    BY <1>3, <1>4, <2>1, FS_AddElement
<1>5. CASE row.promo # p
  <2>1. Used(p)' = Used(p)
    BY <1>2, <1>5 DEF Used
  <2>2. QED
    BY <1>5, <2>1
<1>6. QED
  BY <1>4, <1>5

\* A paid row that is refunded is no longer counted.
LEMMA UsedRefunded ==
    ASSUME TypeOK, NEW i \in DOMAIN pays, pays[i].status = "PAID",
           pays' = [pays EXCEPT ![i].status = "REFUNDED"], NEW p
    PROVE  Cardinality(Used(p))' = IF pays[i].promo = p THEN Cardinality(Used(p)) - 1
                                                        ELSE Cardinality(Used(p))
<1>1. pays \in Seq(Payment) /\ pays[i] \in Payment
  BY DEF TypeOK
<1>2. /\ DOMAIN pays' = DOMAIN pays
      /\ pays'[i].status # "PAID"
      /\ pays'[i].promo = pays[i].promo
      /\ \A j \in DOMAIN pays : j # i => pays'[j] = pays[j]
  BY <1>1 DEF Payment
<1>3. IsFiniteSet(Used(p)) /\ Cardinality(Used(p)) \in Nat
  BY <1>1, UsedFinite
<1>4. CASE pays[i].promo = p
  <2>1. Used(p)' = Used(p) \ {i} /\ i \in Used(p)
    BY <1>2, <1>4 DEF Used
  <2>2. QED
    BY <1>3, <1>4, <2>1, FS_RemoveElement
<1>5. CASE pays[i].promo # p
  <2>1. Used(p)' = Used(p)
    BY <1>2, <1>5 DEF Used
  <2>2. QED
    BY <1>5, <2>1
<1>6. QED
  BY <1>4, <1>5

\* The edits that leave status and promotion alone leave the paid rows alone.
LEMMA UsedKept ==
    ASSUME TypeOK, DOMAIN pays' = DOMAIN pays,
           \A i \in DOMAIN pays : /\ pays'[i].promo = pays[i].promo
                                  /\ pays'[i].status = pays[i].status,
           NEW p
    PROVE  Cardinality(Used(p))' = Cardinality(Used(p))
<1>1. Used(p)' = Used(p)
  BY DEF Used
<1>2. QED
  BY <1>1

\* A step that books nothing, and after which the handler owes what it owed.
BooksNothing(r) ==
    /\ UNCHANGED <<pays, points, uses>>
    /\ \A m \in Members : Owed(req'[r], m) = Owed(req[r], m)
    /\ \A p \in Promos : UsesOwed(req'[r], p) = UsesOwed(req[r], p)

LEMMA BooksStill ==
    ASSUME NEW r \in Requests, Books(req[r]), Shape(req'[r]), BooksNothing(r),
           Copies(req[r])'
    PROVE  Books(req[r])'
<1>1. \A m : Account(m)' = Account(m)
  BY DEF Account, BooksNothing
<1>2. \A p : Used(p)' = Used(p)
  BY DEF Used, BooksNothing
<1>3. NoneCut' => PointsAgree(req[r])'
  BY <1>1 DEF Books, BooksNothing, NoneCut, PointsAgree
<1>4. NoneCut' => UsesAgree(req[r])'
  BY <1>2 DEF Books, BooksNothing, NoneCut, UsesAgree
<1>5. Shape(req[r])'
  BY DEF Shape
<1>6. QED
  BY <1>3, <1>4, <1>5 DEF Books

\* The steps before the first row, and those that book nothing.
LEMMA BooksRead ==
    ASSUME TypeOK, HandlerOK, NEW r \in Requests, Books(req[r]), Shape(req'[r]),
           \/ NewRequest(r)
           \/ \E n \in RequestedPoints \cup {0} : PayMember(r, n)
           \/ \E isCoupon \in BOOLEAN : PayPromo(r, isCoupon)
           \/ PayRowsDone(r)
           \/ PointsRead(r)
           \/ Respond(r)
           \/ Reject(r)
           \/ \E o \in req[r].todo : \E groups \in GroupLists(o) : SplitCommit(r, o, groups)
    PROVE  Books(req[r])'
<1>t. /\ req \in [Requests -> Handler] /\ req[r] \in Handler
      /\ Shape(req[r]) /\ Copies(req[r])
      /\ \A i \in DOMAIN pays : pays[i] \in Payment
  BY DEF TypeOK, Books
<1> DEFINE Ok == BooksNothing(r) /\ Copies(req[r])'
<1> USE DEF BooksNothing, Copies, Owed, UsesOwed, PastRow, PastRefund, Shape
<1>1. ASSUME NEW G \in SUBSET DOMAIN orders, NEW m \in Members \cup {NoMember},
             NEW p \in Promos \cup {NoPromo}, PayRead(r, G, m, p)
      PROVE  Ok
  <2>1. req'[r].pc = "member" /\ req'[r].kind = "pay" /\ req[r].pc = "idle"
        /\ UNCHANGED <<pays, points, uses>>
    BY <1>t, <1>1 DEF PayRead, Start, Idle
  <2>2. QED
    BY <1>t, <2>1
<1>2. ASSUME NEW i \in DOMAIN pays, RefundRead(r, i) PROVE Ok
  <2>1. /\ req'[r].pc = "refund" /\ req'[r].kind = "refund" /\ req[r].pc = "idle"
        /\ req'[r].row = i
        /\ req'[r].member = pays[i].member /\ req'[r].promo = pays[i].promo
        /\ req'[r].give = pays[i].discountPoints /\ req'[r].take = pays[i].pointsEarned
        /\ UNCHANGED <<pays, points, uses>>
        /\ pays[i].status = "PAID"
    BY <1>t, <1>2 DEF RefundRead, Start, Idle, Refundable
  <2>2. pays[i].discountPoints \in Nat
    BY <1>t DEF Payment
  <2>3. BooksNothing(r)
    BY <1>t, <2>1
  <2>4. pays'[req'[r].row] = pays[i] /\ i \in DOMAIN pays'
    BY <2>1
  <2> HIDE DEF BooksNothing
  <2>5. QED
    BY <2>1, <2>2, <2>3, <2>4
<1>3. ASSUME NEW o \in DOMAIN orders, SplitRead(r, o) PROVE Ok
  <2>1. req'[r].pc = "split" /\ req'[r].kind = "split" /\ req[r].pc = "idle"
        /\ UNCHANGED <<pays, points, uses>>
    BY <1>t, <1>3 DEF SplitRead, Start, Idle
  <2>2. QED
    BY <1>t, <2>1
<1>4. ASSUME NEW n \in RequestedPoints \cup {0}, PayMember(r, n) PROVE Ok
  <2>1. n \in Nat /\ Subtotal(req[r].group) \in Nat
    BY PaymentsAssumption, SubtotalType DEF HandlerOK
  <2>2. DiscountPoints(n, Subtotal(req[r].group)) \in Nat
    BY <2>1, DiscountPointsType
  <2>3. /\ req'[r].pc = "promo" /\ req'[r].kind = req[r].kind /\ req[r].pc = "member"
        /\ req'[r].take = DiscountPoints(n, Subtotal(req[r].group))
        /\ UNCHANGED <<pays, points, uses>>
    BY <1>t, <1>4 DEF PayMember, Handler
  <2>4. QED
    BY <1>t, <2>2, <2>3
<1>5. ASSUME NEW isCoupon \in BOOLEAN, PayPromo(r, isCoupon) PROVE Ok
  <2>1. /\ req'[r].pc = "create" /\ req'[r].kind = req[r].kind /\ req[r].pc = "promo"
        /\ req'[r].take = req[r].take
        /\ UNCHANGED <<pays, points, uses>>
    BY <1>t, <1>5 DEF PayPromo, Handler
  <2>2. QED
    BY <1>t, <2>1
<1>6. ASSUME PayRowsDone(r) PROVE Ok
  <2>1. Goto(r, "usage") /\ req[r].pc = "marker" /\ UNCHANGED <<pays, points, uses>>
    BY <1>6 DEF PayRowsDone
  <2>2. QED
    BY <1>t, <2>1, GotoFields
<1>7. ASSUME PointsRead(r) PROVE Ok
  <2>1. /\ req'[r].pc = "pointsWrite" /\ req[r].pc = "points"
        /\ req'[r].kind = req[r].kind /\ req'[r].row = req[r].row
        /\ req'[r].member = req[r].member /\ req'[r].promo = req[r].promo
        /\ req'[r].take = req[r].take /\ req'[r].give = req[r].give
        /\ req'[r].cur = points[req[r].member]
        /\ UNCHANGED <<pays, points, uses>>
    BY <1>t, <1>7 DEF PointsRead, Handler
  <2>2. req[r].member \in Members
    BY <1>t, <1>7 DEF PointsRead, Handler
  <2>3. QED
    BY <1>t, <2>1, <2>2
<1>8. ASSUME Respond(r) PROVE Ok
  <2>1. /\ req'[r] = Idle /\ req[r].pc = "points"
        /\ req[r].member = NoMember \/ PointsStep(req[r]) = "done"
        /\ UNCHANGED <<pays, points, uses>>
    BY <1>t, <1>8 DEF Respond, Stop
  <2>2. \A m \in Members : Owed(req[r], m) = 0
    BY <1>t, <2>1, PaymentsAssumption DEF PointsStep, Gain, Handler
  <2>3. QED
    BY <1>t, <2>1, <2>2 DEF Idle
<1>9. ASSUME Reject(r) PROVE Ok
  <2>1. /\ req'[r] = Idle /\ req[r].pc \in BeforeFirstWrite
        /\ UNCHANGED <<pays, points, uses>>
    BY <1>t, <1>9 DEF Reject, Stop
  <2>2. QED
    BY <1>t, <2>1 DEF Idle, BeforeFirstWrite
<1>10. ASSUME NEW o \in req[r].todo, NEW groups \in GroupLists(o),
              SplitCommit(r, o, groups)
       PROVE  Ok
  <2>1. req'[r] = Idle /\ req[r].pc = "split" /\ UNCHANGED <<pays, points, uses>>
    BY <1>t, <1>10 DEF SplitCommit, Stop
  <2>2. QED
    BY <1>t, <2>1 DEF Idle
<1> HIDE DEF Ok
<1>11. Ok
  BY <1>1, <1>2, <1>3, <1>4, <1>5, <1>6, <1>7, <1>8, <1>9, <1>10 DEF NewRequest
<1>12. QED
  BY <1>11, BooksStill DEF Ok

\* A step that changes no handler and books nothing.
LEMMA BooksApart ==
    ASSUME TypeOK, NEW r \in Requests, Books(req[r]), UNCHANGED <<pays, points, uses, req>>
    PROVE  Books(req[r])'
<1>1. BooksNothing(r) /\ Copies(req[r])'
  BY DEF BooksNothing, Books, Copies
<1>2. Shape(req'[r])
  BY DEF Books
<1>3. QED
  BY <1>1, <1>2, BooksStill

\* The row of a bill: the payment is on the books, and the handler owes it.
LEMMA BooksPay ==
    ASSUME TypeOK, HandlerOK, NEW r \in Requests, Books(req[r]), Shape(req'[r]),
           NEW o \in req[r].todo, PayCreate(r, o) \/ PayMarker(r, o)
    PROVE  Books(req[r])'
<1> DEFINE h == req[r]
<1>t. /\ req \in [Requests -> Handler] /\ h \in Handler
      /\ Shape(h) /\ Copies(h) /\ pays \in Seq(Payment)
      /\ points \in [Members -> Int] /\ uses \in [Promos -> Int]
  BY DEF TypeOK, Books
<1>1. ASSUME PayCreate(r, o)
      PROVE  \E row \in Payment :
                /\ pays' = Append(pays, row) /\ row.status = "PAID" /\ row.kept = 0
                /\ \A m \in Members : Entry(row, m) = Owed(req'[r], m) - Owed(h, m)
                /\ \A p \in Promos :
                      (IF row.promo = p THEN 1 ELSE 0) = UsesOwed(req'[r], p) - UsesOwed(h, p)
  <2> DEFINE row == PrimaryRow(r, o)
  <2>1. /\ row \in Payment
        /\ pays' = Append(pays, row)
        /\ row.status = "PAID" /\ row.kept = 0
        /\ row.member = h.member /\ row.promo = h.promo
        /\ row.pointsEarned = h.give /\ row.discountPoints = h.take
    <3>1. h.pc = "create" /\ h.take \in Nat
      BY <1>1 DEF PayCreate, HandlerOK
    <3>2. /\ h.give \in Int /\ h.group \subseteq Nat
          /\ h.member \in Members \cup {NoMember} /\ h.promo \in Promos \cup {NoPromo}
          /\ h.coupon \in BOOLEAN /\ o \in Nat \ {0} /\ Len(pays) + 1 \in Nat \ {0}
      BY <1>t DEF Handler
    <3>3. row \in Payment
      BY <3>1, <3>2 DEF PrimaryRow, Payment, PaymentStatus
    <3>4. QED
      BY <1>1, <3>3 DEF PayCreate, PrimaryRow
  <2>2. /\ req'[r].pc = "marker" /\ h.pc = "create" /\ req'[r].kind = h.kind
        /\ req'[r].member = h.member /\ req'[r].promo = h.promo
        /\ req'[r].take = h.take /\ req'[r].give = h.give
    BY <1>t, <1>1 DEF PayCreate, Handler
  <2> HIDE DEF row, h
  <2>3. h.kind = "pay"
    BY <1>t, <2>2 DEF Shape
  <2>4. h.give \in Int /\ h.take \in Int
    BY <1>t DEF Handler
  <2>5. \A m \in Members : Owed(h, m) = 0
    BY <2>2, <2>3 DEF Owed, PastRow
  <2>6. \A m \in Members : Owed(req'[r], m) = IF h.member = m THEN Gain(h.give) - h.take ELSE 0
    BY <2>2, <2>3 DEF Owed, PastRow
  <2>7. \A m \in Members : Entry(row, m) = IF h.member = m THEN Gain(h.give) - h.take ELSE 0
    BY <2>1, <2>4, EntryIs DEF Gain
  <2>8. \A m \in Members : Entry(row, m) = Owed(req'[r], m) - Owed(h, m)
    BY <2>4, <2>5, <2>6, <2>7 DEF Gain
  <2>9. \A p \in Promos :
           (IF row.promo = p THEN 1 ELSE 0) = UsesOwed(req'[r], p) - UsesOwed(h, p)
    BY <2>1, <2>2 DEF UsesOwed
  <2>10. QED
    BY <2>1, <2>8, <2>9
<1>2. ASSUME PayMarker(r, o)
      PROVE  \E row \in Payment :
                /\ pays' = Append(pays, row) /\ row.status = "PAID" /\ row.kept = 0
                /\ \A m \in Members : Entry(row, m) = Owed(req'[r], m) - Owed(h, m)
                /\ \A p \in Promos :
                      (IF row.promo = p THEN 1 ELSE 0) = UsesOwed(req'[r], p) - UsesOwed(h, p)
  <2> DEFINE row == MarkerRow(r, o)
  <2>1. /\ row \in Payment
        /\ pays' = Append(pays, row)
        /\ row.status = "PAID" /\ row.kept = 0
        /\ row.member = NoMember /\ row.promo = NoPromo
    <3>1. h.row \in DOMAIN pays
      BY <1>2 DEF PayMarker, HandlerOK, AfterFirstWrite
    <3>2. h.group \subseteq Nat /\ o \in Nat \ {0} /\ h.row \in Nat \ {0}
      BY <1>t, <3>1 DEF Handler
    <3>3. row \in Payment
      BY <3>2 DEF MarkerRow, Payment, PaymentStatus
    <3>4. QED
      BY <1>2, <3>3 DEF PayMarker, MarkerRow
  <2>2. /\ req'[r].pc = "marker" /\ h.pc = "marker" /\ req'[r].kind = h.kind
        /\ req'[r].member = h.member /\ req'[r].promo = h.promo
        /\ req'[r].take = h.take /\ req'[r].give = h.give
    BY <1>t, <1>2 DEF PayMarker, Handler
  <2> HIDE DEF row, h
  <2>3. \A m \in Members : Owed(req'[r], m) = Owed(h, m) /\ Owed(h, m) \in Int
    BY <1>t, <2>2 DEF Owed, Gain, Handler
  <2>4. \A m \in Members : Entry(row, m) = 0
    BY <2>1, EntryIs, PaymentsAssumption
  <2>5. \A p \in Promos : row.promo # p /\ UsesOwed(req'[r], p) = UsesOwed(h, p)
    BY <2>1, <2>2, PaymentsAssumption DEF UsesOwed
  <2>6. \A p \in Promos : UsesOwed(h, p) \in Int
    BY DEF UsesOwed
  <2>7. QED
    BY <2>1, <2>3, <2>4, <2>5, <2>6
<1>3. PICK row \in Payment :
         /\ pays' = Append(pays, row) /\ row.status = "PAID" /\ row.kept = 0
         /\ \A m \in Members : Entry(row, m) = Owed(req'[r], m) - Owed(h, m)
         /\ \A p \in Promos :
               (IF row.promo = p THEN 1 ELSE 0) = UsesOwed(req'[r], p) - UsesOwed(h, p)
  BY <1>1, <1>2
<1>4. points' = points /\ uses' = uses
  BY DEF PayCreate, PayMarker
<1>5. NoneCut' => NoneCut
  <2>1. \A i \in DOMAIN pays : i \in DOMAIN pays' /\ pays'[i] = pays[i]
    BY <1>t, <1>3
  <2>2. QED
    BY <2>1 DEF NoneCut
<1>6. \A m \in Members : Owed(req'[r], m) \in Int /\ Owed(h, m) \in Int
  <2>1. req'[r].give \in Int /\ req'[r].take \in Int /\ h.give \in Int /\ h.take \in Int
    <3>1. req'[r].give = h.give /\ req'[r].take = h.take
      <4>1. CASE PayCreate(r, o)
        BY <1>t, <4>1 DEF PayCreate, Handler
      <4>2. CASE PayMarker(r, o)
        BY <1>t, <4>2 DEF PayMarker, Handler
      <4>3. QED
        BY <4>1, <4>2
    <3>2. QED
      BY <1>t, <3>1 DEF Handler
  <2>2. QED
    BY <2>1 DEF Owed, Gain
<1>7. NoneCut' => PointsAgree(req[r])'
  <2> SUFFICES ASSUME NoneCut', NEW m \in Members
               PROVE  points'[m] = Account(m)' - Owed(req'[r], m)
    BY DEF PointsAgree
  <2>1. points[m] = Account(m) - Owed(h, m)
    BY <1>5 DEF Books, PointsAgree
  <2>2. Account(m)' = Account(m) + Entry(row, m)
    BY <1>3, AccountGrow
  <2>3. Account(m) \in Int
    BY <1>t, AccountInt
  <2> HIDE DEF h
  <2>4. QED
    BY <1>3, <1>4, <1>6, <2>1, <2>2, <2>3
<1>8. NoneCut' => UsesAgree(req[r])'
  <2> SUFFICES ASSUME NoneCut', NEW p \in Promos
               PROVE  uses'[p] = Cardinality(Used(p))' - UsesOwed(req'[r], p)
    BY DEF UsesAgree
  <2>1. uses[p] = Cardinality(Used(p)) - UsesOwed(h, p)
    BY <1>5 DEF Books, UsesAgree
  <2>2. Cardinality(Used(p))' = IF row.promo = p THEN Cardinality(Used(p)) + 1
                                                 ELSE Cardinality(Used(p))
    BY <1>3, UsedGrow
  <2>3. Cardinality(Used(p)) \in Nat
    BY <1>t, UsedFinite
  <2>4. UsesOwed(h, p) \in Int /\ UsesOwed(req'[r], p) \in Int
    BY DEF UsesOwed
  <2> HIDE DEF h
  <2>5. QED
    BY <1>3, <1>4, <2>1, <2>2, <2>3, <2>4
<1>9. Copies(req[r])'
  <2>1. CASE PayCreate(r, o)
    BY <1>t, <2>1 DEF PayCreate, Handler, Copies, Shape
  <2>2. CASE PayMarker(r, o)
    BY <1>t, <2>2 DEF PayMarker, Handler, Copies, Shape
  <2>3. QED
    BY <2>1, <2>2
<1>10. Shape(req[r])'
  BY DEF Shape
<1>11. QED
  BY <1>7, <1>8, <1>9, <1>10 DEF Books

\* A handler books its use of the promotion, or takes it back.
LEMMA BooksUse ==
    ASSUME TypeOK, NEW r \in Requests, Books(req[r]), Shape(req'[r]),
           PayUsage(r) \/ UnuseRead(r) \/ UnuseWrite(r)
    PROVE  Books(req[r])'
<1> DEFINE h == req[r]
<1>t. /\ req \in [Requests -> Handler] /\ h \in Handler
      /\ Shape(h) /\ Copies(h) /\ pays \in Seq(Payment)
      /\ uses \in [Promos -> Int]
  BY DEF TypeOK, Books
<1>1. PICK pc \in {"points", "unuseWrite"} :
         Goto(r, pc) /\ (pc = "unuseWrite" => h.pc = "unuse")
  BY DEF PayUsage, UnuseRead, UnuseWrite
<1>2. pays' = pays /\ points' = points /\ h.pc \in {"usage", "unuse", "unuseWrite"}
  BY DEF PayUsage, UnuseRead, UnuseWrite
<1>3. /\ req'[r].pc = pc /\ req'[r].kind = h.kind /\ req'[r].row = h.row
      /\ req'[r].member = h.member /\ req'[r].promo = h.promo
      /\ req'[r].take = h.take /\ req'[r].give = h.give
  BY <1>1, GotoFields
<1>4. h.kind \in {"pay", "refund"} /\ (h.kind = "pay" <=> h.pc = "usage")
  BY <1>t, <1>2 DEF Shape
<1>5. Copies(req[r])'
  BY <1>t, <1>1, <1>2, <1>3, <1>4 DEF Copies
<1>6. NoneCut' => PointsAgree(req[r])'
  <2>1. \A m \in Members : Owed(req'[r], m) = Owed(h, m)
    BY <1>1, <1>2, <1>3, <1>4 DEF Owed, PastRow, PastRefund
  <2>2. \A m \in Members : Account(m)' = Account(m)
    BY <1>2 DEF Account
  <2>3. QED
    BY <1>2, <2>1, <2>2 DEF Books, NoneCut, PointsAgree
<1>7. \A p \in Promos : /\ Cardinality(Used(p))' = Cardinality(Used(p))
                        /\ Cardinality(Used(p)) \in Nat
  <2>1. \A p \in Promos : Used(p)' = Used(p)
    BY <1>2 DEF Used
  <2>2. QED
    BY <1>t, <2>1, UsedFinite
<1>8. ASSUME NoneCut, NEW p \in Promos
      PROVE  uses'[p] = Cardinality(Used(p)) - UsesOwed(req'[r], p)
  <2>1. uses[p] = Cardinality(Used(p)) - UsesOwed(h, p)
    BY <1>8 DEF Books, UsesAgree
  <2>2. CASE PayUsage(r)
    <3>1. uses'[p] = IF h.promo = p THEN uses[p] + 1 ELSE uses[p]
      BY <1>t, <2>2, PaymentsAssumption DEF PayUsage
    <3>2. h.pc = "usage" /\ req'[r].pc = "points"
      BY <2>2, <1>1, <1>3 DEF PayUsage
    <3>3. QED
      BY <1>3, <1>7, <2>1, <3>1, <3>2 DEF UsesOwed
  <2>3. CASE UnuseRead(r)
    <3>1. uses' = uses /\ h.pc = "unuse"
      BY <2>3 DEF UnuseRead
    <3>2. h.promo = p => uses[p] > 0
      BY <1>7, <2>1, <3>1 DEF UsesOwed
    <3>3. h.promo = p => Goto(r, "unuseWrite")
      BY <2>3, <3>2, PaymentsAssumption DEF UnuseRead, HasUses
    <3>4. h.promo = p => req'[r].pc = "unuseWrite"
      BY <3>3, GotoFields
    <3>5. QED
      BY <1>3, <2>1, <3>1, <3>4 DEF UsesOwed
  <2>4. CASE UnuseWrite(r)
    <3>1. uses'[p] = IF h.promo = p THEN uses[p] - 1 ELSE uses[p]
      BY <1>t, <2>4 DEF UnuseWrite
    <3>2. h.pc = "unuseWrite" /\ Goto(r, "points")
      BY <2>4 DEF UnuseWrite
    <3>3. req'[r].pc = "points"
      BY <3>2, GotoFields
    <3>4. QED
      BY <1>3, <1>7, <2>1, <3>1, <3>2, <3>3 DEF UsesOwed
  <2>5. QED
    BY <2>2, <2>3, <2>4
<1>9. NoneCut' => UsesAgree(req[r])'
  BY <1>2, <1>7, <1>8 DEF NoneCut, UsesAgree
<1>10. Shape(req[r])'
  BY DEF Shape
<1>11. QED
  BY <1>5, <1>6, <1>9, <1>10 DEF Books

\* A handler books points, which with one handler at a time are added to the
\* balance as it stands.
LEMMA BooksPoints ==
    ASSUME TypeOK, TypeOK', NEW r \in Requests, Books(req[r]), Shape(req'[r]),
           PointsWrite(r)
    PROVE  Books(req[r])'
<1> DEFINE h == req[r]
<1>t. /\ req \in [Requests -> Handler] /\ h \in Handler
      /\ Shape(h) /\ Copies(h) /\ pays \in Seq(Payment)
      /\ points \in [Members -> Int]
  BY DEF TypeOK, Books
<1>1. h.pc = "pointsWrite" /\ pays' = pays /\ uses' = uses
  BY DEF PointsWrite
<1>2. /\ h.kind \in {"pay", "refund"}
      /\ h.member \in Members /\ h.cur = points[h.member]
      /\ h.give \in Int /\ h.take \in Int
      /\ h.kind = "pay" => h.take \in Nat
      /\ h.kind = "refund" => h.give \in Nat
  BY <1>t, <1>1 DEF Copies, Shape, Handler
<1>3. ASSUME PointsStep(h) = "redeem",
             points' = [points EXCEPT ![h.member] = RedeemedBalance(h)],
             req' = [req EXCEPT ![r].pc = "points", ![r].take = 0]
      PROVE  /\ req'[r].pc = "points" /\ req'[r].kind = h.kind /\ req'[r].row = h.row
             /\ req'[r].member = h.member /\ req'[r].promo = h.promo
             /\ req'[r].take \in Nat
             /\ h.kind = "refund" => req'[r].give \in Nat
             /\ \A m \in Members : points'[m] + Owed(req'[r], m) = points[m] + Owed(h, m)
  <2>1. /\ req'[r].pc = "points" /\ req'[r].kind = h.kind /\ req'[r].row = h.row
        /\ req'[r].member = h.member /\ req'[r].promo = h.promo
        /\ req'[r].take = 0 /\ req'[r].give = h.give
    BY <1>t, <1>3 DEF Handler
  <2>2. \A m \in Members :
           points'[m] = IF m = h.member THEN points[m] - h.take ELSE points[m]
    BY <1>t, <1>2, <1>3 DEF RedeemedBalance
  <2>3. h.take > 0 /\ (h.kind = "refund" => ~(h.give > 0))
    BY <1>2, <1>3 DEF PointsStep
  <2> HIDE DEF h
  <2>4. \A m \in Members : points'[m] + Owed(req'[r], m) = points[m] + Owed(h, m)
    BY <1>t, <1>1, <1>2, <2>1, <2>2, <2>3 DEF Owed, Gain, PastRow, PastRefund
  <2>5. QED
    BY <1>2, <2>1, <2>4
<1>4. ASSUME PointsStep(h) = "add",
             points' = [points EXCEPT ![h.member] = AddedBalance(h)],
             req' = [req EXCEPT ![r].pc = "points", ![r].give = 0]
      PROVE  /\ req'[r].pc = "points" /\ req'[r].kind = h.kind /\ req'[r].row = h.row
             /\ req'[r].member = h.member /\ req'[r].promo = h.promo
             /\ h.kind = "pay" => req'[r].take \in Nat
             /\ h.kind = "refund" => req'[r].give \in Nat
             /\ \A m \in Members : points'[m] + Owed(req'[r], m) = points[m] + Owed(h, m)
  <2>1. /\ req'[r].pc = "points" /\ req'[r].kind = h.kind /\ req'[r].row = h.row
        /\ req'[r].member = h.member /\ req'[r].promo = h.promo
        /\ req'[r].take = h.take /\ req'[r].give = 0
    BY <1>t, <1>4 DEF Handler
  <2>2. \A m \in Members :
           points'[m] = IF m = h.member THEN points[m] + h.give ELSE points[m]
    BY <1>t, <1>2, <1>4 DEF AddedBalance
  <2>3. h.give > 0
    BY <1>2, <1>4 DEF PointsStep
  <2> HIDE DEF h
  <2>4. \A m \in Members : points'[m] + Owed(req'[r], m) = points[m] + Owed(h, m)
    BY <1>t, <1>1, <1>2, <2>1, <2>2, <2>3 DEF Owed, Gain, PastRow, PastRefund
  <2>5. QED
    BY <1>2, <2>1, <2>4
<1>5. /\ req'[r].pc = "points" /\ req'[r].kind = h.kind /\ req'[r].row = h.row
      /\ req'[r].member = h.member /\ req'[r].promo = h.promo
      /\ h.kind = "pay" => req'[r].take \in Nat
      /\ h.kind = "refund" => req'[r].give \in Nat
      /\ \A m \in Members : points'[m] + Owed(req'[r], m) = points[m] + Owed(h, m)
  BY <1>3, <1>4 DEF PointsWrite
<1>6. /\ req'[r].give \in Int /\ req'[r].take \in Int
      /\ points' \in [Members -> Int]
  BY DEF TypeOK, Handler
<1>7. \A m \in Members : /\ Owed(h, m) \in Int /\ Owed(req'[r], m) \in Int
                         /\ points[m] \in Int /\ points'[m] \in Int
  <2>1. ASSUME NEW g, g.give \in Int, g.take \in Int, NEW m
        PROVE  Owed(g, m) \in Int
    BY <2>1 DEF Owed, Gain
  <2>2. \A m \in Members : points[m] \in Int /\ points'[m] \in Int
    BY <1>t, <1>6
  <2> HIDE DEF h
  <2>3. QED
    BY <1>2, <1>6, <2>1, <2>2
<1>8. NoneCut' => PointsAgree(req[r])'
  <2> SUFFICES ASSUME NoneCut', NEW m \in Members
               PROVE  points'[m] = Account(m)' - Owed(req'[r], m)
    BY DEF PointsAgree
  <2>1. points[m] = Account(m) - Owed(h, m)
    BY <1>1 DEF Books, PointsAgree, NoneCut
  <2>2. Account(m)' = Account(m) /\ Account(m) \in Int
    BY <1>t, <1>1, AccountInt DEF Account
  <2> HIDE DEF h
  <2>3. QED
    BY <1>5, <1>7, <2>1, <2>2
<1>9. NoneCut' => UsesAgree(req[r])'
  <2>1. \A p \in Promos : Used(p)' = Used(p)
    BY <1>1 DEF Used
  <2>2. \A p \in Promos : UsesOwed(req'[r], p) = UsesOwed(h, p)
    BY <1>1, <1>5 DEF UsesOwed
  <2>3. QED
    BY <1>1, <2>1, <2>2 DEF Books, UsesAgree, NoneCut
<1>10. Copies(req[r])'
  BY <1>t, <1>1, <1>2, <1>5 DEF Copies
<1>11. Shape(req[r])'
  BY DEF Shape
<1>12. QED
  BY <1>8, <1>9, <1>10, <1>11 DEF Books

\* A row is marked REFUNDED: its points leave the books, and the handler owes them.
LEMMA BooksRefund ==
    ASSUME TypeOK, NEW r \in Requests, Books(req[r]), Shape(req'[r]), RefundWrite(r)
    PROVE  Books(req[r])'
<1> DEFINE h == req[r]
           i == h.row
           row == [pays[i] EXCEPT !.status = "REFUNDED"]
<1>t. /\ req \in [Requests -> Handler] /\ h \in Handler
      /\ Shape(h) /\ Copies(h) /\ pays \in Seq(Payment)
  BY DEF TypeOK, Books
<1>1. /\ h.pc = "refund" /\ points' = points /\ uses' = uses /\ Goto(r, "unuse")
      /\ pays' = [pays EXCEPT ![i].status = "REFUNDED"]
  BY DEF RefundWrite
<1>2. /\ i \in DOMAIN pays /\ pays[i] \in Payment
      /\ pays[i].status = "PAID"
      /\ pays[i].member = h.member /\ pays[i].promo = h.promo
      /\ pays[i].discountPoints = h.give /\ pays[i].pointsEarned = h.take
      /\ h.kind = "refund" /\ h.give \in Nat /\ h.take \in Int
      /\ pays[i].kept \in Nat
  <2>1. h.kind = "refund"
    BY <1>t, <1>1 DEF Shape
  <2>2. /\ i \in DOMAIN pays
        /\ pays[i].status = "PAID"
        /\ pays[i].member = h.member /\ pays[i].promo = h.promo
        /\ pays[i].discountPoints = h.give /\ pays[i].pointsEarned = h.take
        /\ h.give \in Nat
    BY <1>t, <1>1, <2>1 DEF Copies
  <2>3. pays[i] \in Payment /\ h.take \in Int
    BY <1>t, <2>2 DEF Handler
  <2>4. pays[i].kept \in Nat
    BY <2>3 DEF Payment
  <2>5. QED
    BY <2>1, <2>2, <2>3, <2>4
<1>3. /\ req'[r].pc = "unuse" /\ req'[r].kind = h.kind /\ req'[r].row = h.row
      /\ req'[r].member = h.member /\ req'[r].promo = h.promo
      /\ req'[r].take = h.take /\ req'[r].give = h.give
  BY <1>1, GotoFields
<1>4. /\ row \in Payment /\ row.status = "REFUNDED" /\ row.member = h.member
      /\ row.kept = pays[i].kept
  BY <1>2 DEF Payment, PaymentStatus
<1>5. pays' = [pays EXCEPT ![i] = row]
  BY <1>1, <1>2
<1>6. NoneCut' => NoneCut
  <2>1. \A j \in DOMAIN pays : j \in DOMAIN pays' /\ pays'[j].cut = pays[j].cut
    BY <1>1, <1>2 DEF Payment
  <2>2. QED
    BY <2>1 DEF NoneCut
<1> HIDE DEF i, row
<1>7. NoneCut' => PointsAgree(req[r])'
  <2> SUFFICES ASSUME NoneCut', NEW m \in Members
               PROVE  points'[m] = Account(m)' - Owed(req'[r], m)
    BY DEF PointsAgree
  <2>1. points[m] = Account(m) - Owed(h, m)
    BY <1>6 DEF Books, PointsAgree
  <2>2. Account(m)' = Account(m) - Entry(pays[i], m) + Entry(row, m)
    <3>1. /\ i \in DOMAIN pays /\ row \in Payment
          /\ pays' = [pays EXCEPT ![i] = row]
      BY <1>2, <1>4, <1>5
    <3> HIDE DEF h
    <3>2. QED
      BY <3>1, AccountEdit
  <2>3. Account(m) \in Int
    BY <1>t, AccountInt
  <2>4. /\ Entry(pays[i], m) = IF h.member = m THEN Gain(h.take) - h.give + pays[i].kept
                                               ELSE 0
        /\ Entry(row, m) = IF h.member = m THEN pays[i].kept ELSE 0
    BY <1>2, <1>4, EntryIs
  <2>5. /\ Owed(h, m) = 0
        /\ Owed(req'[r], m) = IF h.member = m THEN h.give - Gain(h.take) ELSE 0
    BY <1>1, <1>2, <1>3 DEF Owed, PastRow, PastRefund
  <2>6. Gain(h.take) \in Int
    BY <1>2 DEF Gain
  <2> HIDE DEF h
  <2>7. QED
    BY <1>1, <1>2, <2>1, <2>2, <2>3, <2>4, <2>5, <2>6
<1>8. NoneCut' => UsesAgree(req[r])'
  <2> SUFFICES ASSUME NoneCut', NEW p \in Promos
               PROVE  uses'[p] = Cardinality(Used(p))' - UsesOwed(req'[r], p)
    BY DEF UsesAgree
  <2>1. uses[p] = Cardinality(Used(p)) - UsesOwed(h, p)
    BY <1>6 DEF Books, UsesAgree
  <2>2. Cardinality(Used(p))' = IF pays[i].promo = p THEN Cardinality(Used(p)) - 1
                                                     ELSE Cardinality(Used(p))
    BY <1>1, <1>2, UsedRefunded DEF i
  <2>3. Cardinality(Used(p)) \in Nat
    BY <1>t, UsedFinite
  <2>4. /\ UsesOwed(h, p) = 0
        /\ UsesOwed(req'[r], p) = IF h.promo = p THEN -1 ELSE 0
    BY <1>1, <1>3 DEF UsesOwed
  <2> HIDE DEF h
  <2>5. QED
    BY <1>1, <1>2, <2>1, <2>2, <2>3, <2>4
<1>9. Copies(req[r])'
  <2>1. pays'[i] = row /\ i \in DOMAIN pays'
    BY <1>2, <1>5
  <2>2. QED
    BY <1>2, <1>3, <1>4, <2>1 DEF Copies, i
<1>10. Shape(req[r])'
  BY DEF Shape
<1>11. QED
  BY <1>7, <1>8, <1>9, <1>10 DEF Books

\* A handler that fails after its first write leaves its row cut.
LEMMA BooksCut ==
    ASSUME TypeOK, NEW r \in Requests, Books(req[r]), Shape(req'[r]), Stop(r),
           req[r].row \in DOMAIN pays,
           pays' = [pays EXCEPT ![req[r].row].cut = TRUE]
    PROVE  Books(req[r])'
<1>1. req'[r] = Idle
  BY DEF TypeOK, Stop
<1>2. ~NoneCut'
  <2>1. pays[req[r].row] \in Payment
    BY DEF TypeOK
  <2>2. req[r].row \in DOMAIN pays' /\ pays'[req[r].row].cut
    BY <2>1 DEF Payment
  <2>3. QED
    BY <2>2 DEF NoneCut
<1>3. Copies(req[r])'
  BY <1>1 DEF Copies, Idle
<1>4. Shape(req[r])'
  BY DEF Shape
<1>5. QED
  BY <1>2, <1>3, <1>4 DEF Books

\* The member no longer has the points that a refund takes back: the row keeps
\* them.
LEMMA BooksKeep ==
    ASSUME TypeOK, NEW r \in Requests, Books(req[r]), Shape(req'[r]),
           req[r].pc = "points", req[r].kind = "refund",
           req[r].member # NoMember, req[r].row \in DOMAIN pays,
           pays[req[r].row].member = req[r].member,
           PointsStep(req[r]) = "redeem",
           req' = [req EXCEPT ![r].take = 0],
           pays' = [pays EXCEPT ![req[r].row].kept = @ + req[r].take],
           UNCHANGED <<points, uses>>
    PROVE  Books(req[r])'
<1> DEFINE h == req[r]
           i == h.row
           row == [pays[i] EXCEPT !.kept = pays[i].kept + h.take]
<1>t. /\ req \in [Requests -> Handler] /\ h \in Handler
      /\ Shape(h) /\ Copies(h) /\ pays \in Seq(Payment)
  BY DEF TypeOK, Books
<1>1. /\ h.give \in Nat /\ ~(h.give > 0) /\ h.take \in Nat /\ h.take > 0
  BY <1>t DEF Copies, PointsStep, Handler
<1>2. /\ i \in DOMAIN pays /\ pays[i] \in Payment /\ pays[i].member = h.member
      /\ pays[i].kept \in Nat /\ pays[i].discountPoints \in Nat
      /\ pays[i].pointsEarned \in Int
  <2>1. i \in DOMAIN pays /\ pays[i].member = h.member
    BY <1>t DEF Copies
  <2>2. pays[i] \in Payment
    BY <1>t, <2>1
  <2>3. QED
    BY <2>1, <2>2 DEF Payment
<1>3. /\ req'[r].pc = "points" /\ req'[r].kind = h.kind /\ req'[r].row = h.row
      /\ req'[r].member = h.member /\ req'[r].promo = h.promo
      /\ req'[r].take = 0 /\ req'[r].give = h.give
  BY <1>t DEF Handler
<1>4. /\ row \in Payment /\ row.status = pays[i].status /\ row.member = h.member
      /\ row.promo = pays[i].promo
      /\ row.kept = pays[i].kept + h.take /\ row.cut = pays[i].cut
      /\ row.discountPoints = pays[i].discountPoints
      /\ row.pointsEarned = pays[i].pointsEarned
  BY <1>1, <1>2 DEF Payment
<1>5. pays' = [pays EXCEPT ![i] = row]
  BY <1>2
<1>a. /\ DOMAIN pays' = DOMAIN pays /\ pays'[i] = row
      /\ \A j \in DOMAIN pays : j # i => pays'[j] = pays[j]
  BY <1>2, <1>5
<1> HIDE DEF i, row
<1>6. NoneCut' => NoneCut
  BY <1>4, <1>a DEF NoneCut
<1>7. NoneCut' => PointsAgree(req[r])'
  <2> SUFFICES ASSUME NoneCut', NEW m \in Members
               PROVE  points'[m] = Account(m)' - Owed(req'[r], m)
    BY DEF PointsAgree
  <2>1. points[m] = Account(m) - Owed(h, m)
    BY <1>6 DEF Books, PointsAgree
  <2>2. Account(m)' = Account(m) - Entry(pays[i], m) + Entry(row, m)
    <3>1. /\ i \in DOMAIN pays /\ row \in Payment
          /\ pays' = [pays EXCEPT ![i] = row]
      BY <1>2, <1>4, <1>5
    <3> HIDE DEF h
    <3>2. QED
      BY <3>1, AccountEdit
  <2>3. Account(m) \in Int
    BY <1>t, AccountInt
  <2>4. Entry(row, m) = IF h.member = m THEN Entry(pays[i], m) + h.take
                                        ELSE Entry(pays[i], m)
    <3>1. Gain(pays[i].pointsEarned) \in Int
      BY <1>2 DEF Gain
    <3>2. CASE h.member = m /\ pays[i].status = "PAID"
      <4>1. Entry(pays[i], m)
              = Gain(pays[i].pointsEarned) - pays[i].discountPoints + pays[i].kept
        BY <1>2, <3>2, EntryIs
      <4>2. Entry(row, m) = Gain(row.pointsEarned) - row.discountPoints + row.kept
        BY <1>4, <3>2, EntryIs
      <4> HIDE DEF h
      <4>3. QED
        BY <1>1, <1>2, <1>4, <3>1, <3>2, <4>1, <4>2
    <3>3. CASE h.member = m /\ pays[i].status # "PAID"
      <4>1. Entry(pays[i], m) = pays[i].kept /\ Entry(row, m) = row.kept
        BY <1>2, <1>4, <3>3, EntryIs
      <4>2. QED
        BY <1>4, <3>3, <4>1
    <3>4. CASE h.member # m
      BY <1>2, <1>4, <3>4, EntryIs
    <3>5. QED
      BY <3>2, <3>3, <3>4
  <2>5. /\ Owed(h, m) = IF h.member = m THEN h.give - h.take ELSE 0
        /\ Owed(req'[r], m) = IF h.member = m THEN h.give ELSE 0
    BY <1>1, <1>3 DEF Owed, PastRow, PastRefund, Gain
  <2>6. Entry(pays[i], m) \in Int
    BY <1>2, EntryIs
  <2> HIDE DEF h
  <2>7. QED
    BY <1>1, <2>1, <2>2, <2>3, <2>4, <2>5, <2>6
<1>8. NoneCut' => UsesAgree(req[r])'
  <2>1. \A j \in DOMAIN pays : /\ pays'[j].promo = pays[j].promo
                               /\ pays'[j].status = pays[j].status
    BY <1>4, <1>a
  <2>2. \A p \in Promos : Cardinality(Used(p))' = Cardinality(Used(p))
    BY <1>a, <2>1, UsedKept
  <2>3. \A p \in Promos : UsesOwed(req'[r], p) = UsesOwed(h, p)
    BY <1>3 DEF UsesOwed
  <2>4. QED
    BY <1>6, <2>2, <2>3 DEF Books, UsesAgree
<1>9. Copies(req[r])'
  BY <1>t, <1>1, <1>3, <1>4, <1>a DEF Copies, i
<1>10. Shape(req[r])'
  BY DEF Shape
<1>11. QED
  BY <1>7, <1>8, <1>9, <1>10 DEF Books

LEMMA BooksStep ==
    ASSUME TypeOK, TypeOK', HandlerOK, NEW r \in Requests, Requests = {r},
           Books(req[r]), [Next]_vars
    PROVE  Books(req[r])'
<1>1. ASSUME NewRequest(r) \/ HandlerStep(r) \/ Abort(r)
      PROVE  Books(req[r])'
  <2>s. Shape(req'[r])
    BY <1>1, ShapeStep DEF Books
  <2>1. ASSUME NEW o \in req[r].todo, PayCreate(r, o) \/ PayMarker(r, o)
        PROVE  Books(req[r])'
    BY <2>s, <2>1, BooksPay
  <2>2. ASSUME PayUsage(r) \/ UnuseRead(r) \/ UnuseWrite(r)
        PROVE  Books(req[r])'
    BY <2>s, <2>2, BooksUse
  <2>3. ASSUME PointsWrite(r) PROVE Books(req[r])'
    BY <2>s, <2>3, BooksPoints
  <2>4. ASSUME RefundWrite(r) PROVE Books(req[r])'
    BY <2>s, <2>4, BooksRefund
  <2>5. ASSUME Abort(r) PROVE Books(req[r])'
    <3>1. req[r].row \in DOMAIN pays
      BY <2>5 DEF Abort, HandlerOK
    <3>2. QED
      BY <2>s, <2>5, <3>1, BooksCut DEF Abort
  <2>6. ASSUME PointsShort(r) PROVE Books(req[r])'
    <3>1. req[r].row \in DOMAIN pays /\ req[r].pc = "points"
      BY <2>6 DEF PointsShort, HandlerOK, AfterFirstWrite
    <3>2. CASE req[r].kind = "refund"
      <4>1. pays[req[r].row].member = req[r].member
        BY <3>2 DEF Books, Copies
      <4>2. /\ req' = [req EXCEPT ![r].take = 0]
            /\ pays' = [pays EXCEPT ![req[r].row].kept = @ + req[r].take]
            /\ UNCHANGED <<points, uses>>
            /\ req[r].member # NoMember /\ PointsStep(req[r]) = "redeem"
        BY <2>6, <3>2 DEF PointsShort
      <4>3. QED
        BY <2>s, <3>1, <3>2, <4>1, <4>2, BooksKeep
    <3>3. CASE req[r].kind # "refund"
      <4>1. Stop(r) /\ pays' = [pays EXCEPT ![req[r].row].cut = TRUE]
        BY <2>6, <3>3 DEF PointsShort
      <4>2. QED
        BY <2>s, <3>1, <4>1, BooksCut
    <3>4. QED
      BY <3>2, <3>3
  <2>7. ASSUME \/ NewRequest(r)
               \/ \E n \in RequestedPoints \cup {0} : PayMember(r, n)
               \/ \E isCoupon \in BOOLEAN : PayPromo(r, isCoupon)
               \/ PayRowsDone(r)
               \/ PointsRead(r)
               \/ Respond(r)
               \/ Reject(r)
               \/ \E o \in req[r].todo : \E groups \in GroupLists(o) :
                     SplitCommit(r, o, groups)
        PROVE  Books(req[r])'
    BY <2>s, <2>7, BooksRead
  <2>8. QED
    BY <1>1, <2>1, <2>2, <2>3, <2>4, <2>5, <2>6, <2>7 DEF HandlerStep
<1>2. ASSUME NEW o \in DOMAIN orders, NEW s \in StatusTargets, UpdateStatus(o, s)
      PROVE  Books(req[r])'
  <2>1. UNCHANGED <<pays, points, uses, req>>
    BY <1>2 DEF UpdateStatus
  <2>2. QED
    BY <2>1, BooksApart
<1>3. CASE UNCHANGED vars
  <2>1. UNCHANGED <<pays, points, uses, req>>
    BY <1>3 DEF vars
  <2>2. QED
    BY <2>1, BooksApart
<1>4. QED
  BY <1>1, <1>2, <1>3 DEF Next

LEMMA BooksInit ==
    ASSUME Init, NEW r \in Requests
    PROVE  Books(req[r])
<1>1. req[r] = Idle /\ pays = << >> /\ DOMAIN pays = {}
  BY DEF Init
<1>2. Shape(req[r]) /\ Copies(req[r])
  BY <1>1 DEF Shape, Copies, Idle
<1>3. PointsAgree(req[r])
  <2> SUFFICES ASSUME NEW m \in Members PROVE points[m] = Account(m) - Owed(req[r], m)
    BY DEF PointsAgree
  <2>1. SumFunctionOnSet([i \in DOMAIN pays |-> Entry(pays[i], m)], DOMAIN pays) = 0
    BY <1>1, SumEmpty
  <2>2. Owed(req[r], m) = 0
    BY <1>1 DEF Owed, Idle, PastRow, PastRefund
  <2>3. points[m] = InitialPoints[m] /\ InitialPoints[m] \in Int
    BY PaymentsAssumption DEF Init
  <2>4. QED
    BY <2>1, <2>2, <2>3 DEF Account
<1>4. UsesAgree(req[r])
  <2>1. \A p \in Promos : Used(p) = {} /\ UsesOwed(req[r], p) = 0 /\ uses[p] = 0
    BY <1>1 DEF Init, Used, UsesOwed, Idle
  <2>2. QED
    BY <2>1, FS_EmptySet DEF UsesAgree
<1>5. QED
  BY <1>2, <1>3, <1>4 DEF Books

-----------------------------------------------------------------------------
(* Coupons.  A handler that has found its coupon unused up counts a use later; *)
(* what is counted and what will be stays below the limit, plus one for every *)
(* other handler.                                                             *)

LEMMA CountingFinite ==
    ASSUME NEW p
    PROVE  /\ IsFiniteSet(Counting(p)) /\ Cardinality(Counting(p)) \in Nat
           /\ Cardinality(Counting(p)) <= Cardinality(Requests)
<1>1. Counting(p) \subseteq Requests
  BY DEF Counting
<1>2. QED
  BY <1>1, PaymentsAssumption, FS_Subset, FS_CardinalityType

\* What the other steps keep: rows are not lost, nobody joins those that will
\* count a use unless a row named the promotion by its id, and the counter does
\* not grow.
CountsNothing(p) ==
    CouponRows(p)' =>
        /\ CouponRows(p)
        /\ Counting(p)' \subseteq Counting(p)
        /\ uses'[p] <= uses[p]

\* A promotion's rows keep what they say of it.
RowsTell ==
    \A i \in DOMAIN pays : /\ i \in DOMAIN pays'
                           /\ pays'[i].promo = pays[i].promo
                           /\ pays'[i].coupon = pays[i].coupon

LEMMA RowsTold ==
    ASSUME RowsTell, NEW p
    PROVE  CouponRows(p)' => CouponRows(p)
  BY DEF RowsTell, CouponRows

\* Only an entry of the handler that moves can join.
LEMMA NobodyJoins ==
    ASSUME RowsTell, NEW p \in Promos, NEW r \in Requests,
           \A q \in Requests \ {r} : req'[q] = req[q],
           CouponRows(p)' => (r \in Counting(p)' => r \in Counting(p)),
           uses'[p] <= uses[p]
    PROVE  CountsNothing(p)
<1>1. CouponRows(p)' => CouponRows(p)
  BY RowsTold
<1>2. \A q \in Requests \ {r} : q \in Counting(p)' <=> q \in Counting(p)
  BY DEF Counting
<1>3. Counting(p)' \subseteq Requests
  BY DEF Counting
<1>4. QED
  BY <1>1, <1>2, <1>3 DEF CountsNothing

LEMMA CouponSteps ==
    ASSUME TypeOK, HandlerOK, NEW r \in Requests,
           NewRequest(r) \/ HandlerStep(r) \/ Abort(r)
    PROVE  \/ PayPromo(r, TRUE)
           \/ PayUsage(r)
           \/ \A p \in Promos : CountsNothing(p)
<1> DEFINE Ok == \A p \in Promos : CountsNothing(p)
<1>t. /\ req \in [Requests -> Handler] /\ req[r] \in Handler
      /\ pays \in Seq(Payment) /\ uses \in [Promos -> Int]
      /\ \A p \in Promos : uses[p] \in Int
  BY DEF TypeOK
<1>n. pays' = pays => RowsTell
  BY DEF RowsTell
\* A step to a place where nothing is to be counted any more.
<1>a. ASSUME RowsTell, \A q \in Requests \ {r} : req'[q] = req[q],
             req'[r].pc \notin {"create", "marker", "usage"},
             \A p \in Promos : uses'[p] <= uses[p]
      PROVE  Ok
  <2>1. \A p \in Promos : r \notin Counting(p)'
    BY <1>a DEF Counting
  <2>2. QED
    BY <1>a, <2>1, NobodyJoins
<1>u. uses' = uses => \A p \in Promos : uses'[p] <= uses[p]
  BY <1>t
<1>s. Stop(r) => /\ \A q \in Requests \ {r} : req'[q] = req[q]
                 /\ req'[r].pc \notin {"create", "marker", "usage"}
  BY <1>t DEF Stop, Idle
<1>e. ASSUME NEW i \in DOMAIN pays, NEW n \in Nat,
             \/ pays' = [pays EXCEPT ![i].status = "REFUNDED"]
             \/ pays' = [pays EXCEPT ![i].cut = TRUE]
             \/ pays' = [pays EXCEPT ![i].kept = @ + n]
      PROVE  RowsTell
  <2>1. \A j \in DOMAIN pays : pays[j] \in Payment
    BY <1>t
  <2>2. CASE pays' = [pays EXCEPT ![i].status = "REFUNDED"]
    BY <2>1, <2>2 DEF Payment, RowsTell
  <2>3. CASE pays' = [pays EXCEPT ![i].cut = TRUE]
    BY <2>1, <2>3 DEF Payment, RowsTell
  <2>4. CASE pays' = [pays EXCEPT ![i].kept = @ + n]
    BY <2>1, <2>4 DEF Payment, RowsTell
  <2>5. QED
    BY <1>e, <2>2, <2>3, <2>4
<1> HIDE DEF Ok
<1>1. ASSUME NEW G \in SUBSET DOMAIN orders, NEW m \in Members \cup {NoMember},
             NEW p \in Promos \cup {NoPromo}, PayRead(r, G, m, p)
      PROVE  Ok
  <2>1. /\ req'[r].pc = "member" /\ \A q \in Requests \ {r} : req'[q] = req[q]
        /\ pays' = pays /\ uses' = uses
    BY <1>t, <1>1 DEF PayRead, Start, Idle
  <2>2. QED
    BY <1>a, <1>n, <1>u, <2>1
<1>2. ASSUME NEW i \in DOMAIN pays, RefundRead(r, i) PROVE Ok
  <2>1. /\ req'[r].pc = "refund" /\ \A q \in Requests \ {r} : req'[q] = req[q]
        /\ pays' = pays /\ uses' = uses
    BY <1>t, <1>2 DEF RefundRead, Start, Idle
  <2>2. QED
    BY <1>a, <1>n, <1>u, <2>1
<1>3. ASSUME NEW o \in DOMAIN orders, SplitRead(r, o) PROVE Ok
  <2>1. /\ req'[r].pc = "split" /\ \A q \in Requests \ {r} : req'[q] = req[q]
        /\ pays' = pays /\ uses' = uses
    BY <1>t, <1>3 DEF SplitRead, Start, Idle
  <2>2. QED
    BY <1>a, <1>n, <1>u, <2>1
<1>4. ASSUME NEW n \in RequestedPoints \cup {0}, PayMember(r, n) PROVE Ok
  <2>1. /\ req'[r].pc = "promo" /\ \A q \in Requests \ {r} : req'[q] = req[q]
        /\ pays' = pays /\ uses' = uses
    BY <1>t, <1>4 DEF PayMember, Handler
  <2>2. QED
    BY <1>a, <1>n, <1>u, <2>1
<1>5. ASSUME PayPromo(r, FALSE) PROVE Ok
  <2>1. /\ req'[r].pc = "create" /\ req'[r].coupon = FALSE
        /\ \A q \in Requests \ {r} : req'[q] = req[q]
        /\ pays' = pays /\ uses' = uses
    BY <1>t, <1>5 DEF PayPromo, Handler
  <2>2. \A p \in Promos : r \notin Counting(p)'
    BY <2>1 DEF Counting
  <2>3. QED
    BY <1>n, <1>u, <2>1, <2>2, NobodyJoins DEF Ok
<1>6. ASSUME NEW o \in req[r].todo, PayCreate(r, o) PROVE Ok
  <2>1. /\ pays' = Append(pays, PrimaryRow(r, o)) /\ uses' = uses
        /\ req[r].pc = "create"
    BY <1>6 DEF PayCreate
  <2>2. /\ req'[r].pc = "marker" /\ req'[r].promo = req[r].promo
        /\ \A q \in Requests \ {r} : req'[q] = req[q]
    BY <1>t, <1>6 DEF PayCreate, Handler
  <2>3. PICK n \in DOMAIN pays' : pays'[n] = PrimaryRow(r, o)
    <3>1. Len(pays) + 1 \in DOMAIN pays' /\ pays'[Len(pays) + 1] = PrimaryRow(r, o)
      BY <1>t, <2>1
    <3>2. QED
      BY <3>1
  <2>4. pays'[n].promo = req[r].promo /\ pays'[n].coupon = req[r].coupon
    BY <2>3 DEF PrimaryRow
  <2>5. RowsTell
    BY <1>t, <2>1 DEF RowsTell
  <2>6. ASSUME NEW p \in Promos, CouponRows(p)', r \in Counting(p)'
        PROVE  r \in Counting(p)
    <3>1. req[r].promo = p
      BY <2>2, <2>6 DEF Counting
    <3>2. req[r].coupon
      BY <2>3, <2>4, <2>6, <3>1 DEF CouponRows
    <3>3. QED
      BY <2>1, <3>1, <3>2 DEF Counting
  <2>7. QED
    BY <1>u, <2>1, <2>2, <2>5, <2>6, NobodyJoins DEF Ok
<1>7. ASSUME NEW o \in req[r].todo, PayMarker(r, o) PROVE Ok
  <2>1. /\ pays' = Append(pays, MarkerRow(r, o)) /\ uses' = uses
        /\ req[r].pc = "marker"
    BY <1>7 DEF PayMarker
  <2>2. /\ req'[r].pc = "marker" /\ req'[r].promo = req[r].promo
        /\ \A q \in Requests \ {r} : req'[q] = req[q]
    BY <1>t, <1>7 DEF PayMarker, Handler
  <2>3. RowsTell
    BY <1>t, <2>1 DEF RowsTell
  <2>4. \A p \in Promos : r \in Counting(p)' => r \in Counting(p)
    BY <2>1, <2>2 DEF Counting
  <2>5. QED
    BY <1>u, <2>1, <2>2, <2>3, <2>4, NobodyJoins DEF Ok
<1>8. ASSUME PayRowsDone(r) PROVE Ok
  <2>1. Goto(r, "usage") /\ req[r].pc = "marker" /\ pays' = pays /\ uses' = uses
    BY <1>8 DEF PayRowsDone
  <2>2. /\ req'[r].pc = "usage" /\ req'[r].promo = req[r].promo
        /\ \A q \in Requests \ {r} : req'[q] = req[q]
    BY <2>1, GotoFields
  <2>3. \A p \in Promos : r \in Counting(p)' => r \in Counting(p)
    BY <2>1, <2>2 DEF Counting
  <2>4. QED
    BY <1>n, <1>u, <2>1, <2>2, <2>3, NobodyJoins DEF Ok
<1>9. ASSUME PointsRead(r) PROVE Ok
  <2>1. /\ req'[r].pc = "pointsWrite" /\ \A q \in Requests \ {r} : req'[q] = req[q]
        /\ pays' = pays /\ uses' = uses
    BY <1>t, <1>9 DEF PointsRead, Handler
  <2>2. QED
    BY <1>a, <1>n, <1>u, <2>1
<1>10. ASSUME PointsShort(r) PROVE Ok
  <2>1. /\ req[r].row \in DOMAIN pays /\ req[r].take \in Nat /\ req[r].pc = "points"
        /\ uses' = uses
    BY <1>t, <1>10 DEF PointsShort, PointsStep, HandlerOK, AfterFirstWrite, Handler
  <2>2. RowsTell
    BY <1>10, <1>e, <2>1 DEF PointsShort
  <2>3. CASE req' = [req EXCEPT ![r].take = 0]
    <3>1. req'[r].pc = "points" /\ \A q \in Requests \ {r} : req'[q] = req[q]
      BY <1>t, <2>1, <2>3 DEF Handler
    <3>2. QED
      BY <1>a, <1>u, <2>1, <2>2, <3>1
  <2>4. CASE Stop(r)
    BY <1>a, <1>s, <1>u, <2>1, <2>2, <2>4
  <2>5. QED
    BY <1>10, <2>3, <2>4 DEF PointsShort
<1>11. ASSUME PointsWrite(r) PROVE Ok
  <2>1. /\ UNCHANGED <<pays, uses>>
        /\ \/ req' = [req EXCEPT ![r].pc = "points", ![r].take = 0]
           \/ req' = [req EXCEPT ![r].pc = "points", ![r].give = 0]
    BY <1>11 DEF PointsWrite
  <2>2. req'[r].pc = "points" /\ \A q \in Requests \ {r} : req'[q] = req[q]
    <3>1. CASE req' = [req EXCEPT ![r].pc = "points", ![r].take = 0]
      BY <1>t, <3>1 DEF Handler
    <3>2. CASE req' = [req EXCEPT ![r].pc = "points", ![r].give = 0]
      BY <1>t, <3>2 DEF Handler
    <3>3. QED
      BY <2>1, <3>1, <3>2
  <2>3. QED
    BY <1>a, <1>n, <1>u, <2>1, <2>2
<1>12. ASSUME Respond(r) \/ Reject(r) PROVE Ok
  <2>1. Stop(r) /\ pays' = pays /\ uses' = uses
    BY <1>12 DEF Respond, Reject
  <2>2. QED
    BY <1>a, <1>n, <1>s, <1>u, <2>1
<1>13. ASSUME Abort(r) PROVE Ok
  <2>1. /\ Stop(r) /\ uses' = uses /\ req[r].row \in DOMAIN pays
        /\ pays' = [pays EXCEPT ![req[r].row].cut = TRUE]
    BY <1>13 DEF Abort, HandlerOK
  <2>2. RowsTell
    BY <1>e, <2>1, 0 \in Nat
  <2>3. QED
    BY <1>a, <1>s, <1>u, <2>1, <2>2
<1>14. ASSUME RefundWrite(r) PROVE Ok
  <2>1. /\ Goto(r, "unuse") /\ uses' = uses /\ req[r].row \in DOMAIN pays
        /\ pays' = [pays EXCEPT ![req[r].row].status = "REFUNDED"]
    BY <1>14 DEF RefundWrite, HandlerOK
  <2>2. RowsTell
    BY <1>e, <2>1, 0 \in Nat
  <2>3. req'[r].pc = "unuse" /\ \A q \in Requests \ {r} : req'[q] = req[q]
    BY <2>1, GotoFields
  <2>4. QED
    BY <1>a, <1>u, <2>1, <2>2, <2>3
<1>15. ASSUME UnuseRead(r) PROVE Ok
  <2>1. PICK pc \in {"unuseWrite", "points"} : Goto(r, pc)
    BY <1>15 DEF UnuseRead
  <2>2. req'[r].pc = pc /\ \A q \in Requests \ {r} : req'[q] = req[q]
    BY <2>1, GotoFields
  <2>3. pays' = pays /\ uses' = uses
    BY <1>15 DEF UnuseRead
  <2>4. QED
    BY <1>a, <1>n, <1>u, <2>2, <2>3
<1>16. ASSUME UnuseWrite(r) PROVE Ok
  <2>1. Goto(r, "points") /\ pays' = pays /\ uses' = [uses EXCEPT ![req[r].promo] = @ - 1]
    BY <1>16 DEF UnuseWrite
  <2>2. req'[r].pc = "points" /\ \A q \in Requests \ {r} : req'[q] = req[q]
    BY <2>1, GotoFields
  <2>3. \A p \in Promos : uses'[p] <= uses[p]
    BY <1>t, <2>1
  <2>4. QED
    BY <1>a, <1>n, <2>1, <2>2, <2>3
<1>17. ASSUME NEW o \in req[r].todo, NEW groups \in GroupLists(o),
              SplitCommit(r, o, groups)
       PROVE  Ok
  <2>1. Stop(r) /\ pays' = pays /\ uses' = uses
    BY <1>17 DEF SplitCommit
  <2>2. QED
    BY <1>a, <1>n, <1>s, <1>u, <2>1
<1>18. ASSUME NEW isCoupon \in BOOLEAN, PayPromo(r, isCoupon)
       PROVE  PayPromo(r, TRUE) \/ Ok
  <2>1. isCoupon = TRUE \/ isCoupon = FALSE
    OBVIOUS
  <2>2. QED
    BY <1>5, <1>18, <2>1
<1>19. PayPromo(r, TRUE) \/ PayUsage(r) \/ Ok
  BY <1>1, <1>2, <1>3, <1>4, <1>6, <1>7, <1>8, <1>9, <1>10, <1>11, <1>12, <1>13,
     <1>14, <1>15, <1>16, <1>17, <1>18 DEF NewRequest, HandlerStep
<1>20. QED
  BY <1>19 DEF Ok

LEMMA CouponStep == TInv /\ TInv' /\ CouponInv /\ [Next]_vars => CouponInv'
<1> SUFFICES ASSUME TypeOK, HandlerOK, TypeOK', CouponInv, [Next]_vars,
                    NEW p \in Promos, PromoOf[p].maxUses # NoLimit, CouponRows(p)'
             PROVE  uses'[p] + Cardinality(Counting(p)')
                       <= PromoOf[p].maxUses + Cardinality(Requests) - 1
  BY DEF TInv, CouponInv
<1>t. /\ req \in [Requests -> Handler] /\ uses \in [Promos -> Int] /\ uses[p] \in Int
      /\ PromoOf[p].maxUses \in Nat
      /\ Cardinality(Requests) \in Nat
  BY PaymentsAssumption, FS_CardinalityType DEF TypeOK, Promotion
<1>f. /\ IsFiniteSet(Counting(p)) /\ Cardinality(Counting(p)) \in Nat
      /\ Counting(p)' \subseteq Requests
  BY CountingFinite DEF Counting
<1>g. /\ IsFiniteSet(Counting(p)') /\ Cardinality(Counting(p)') \in Nat
      /\ Cardinality(Counting(p)') <= Cardinality(Requests)
  BY <1>f, PaymentsAssumption, FS_Subset, FS_CardinalityType
<1>v. uses'[p] \in Int
  BY DEF TypeOK
<1>i. CouponRows(p) => uses[p] + Cardinality(Counting(p))
                          <= PromoOf[p].maxUses + Cardinality(Requests) - 1
  BY DEF CouponInv
<1>1. ASSUME CountsNothing(p)
      PROVE  uses'[p] + Cardinality(Counting(p)')
                <= PromoOf[p].maxUses + Cardinality(Requests) - 1
  <2>1. Counting(p)' \subseteq Counting(p) /\ uses'[p] <= uses[p] /\ CouponRows(p)
    BY <1>1 DEF CountsNothing
  <2>2. Cardinality(Counting(p)') <= Cardinality(Counting(p))
    BY <1>f, <2>1, FS_Subset
  <2> DEFINE a == Cardinality(Counting(p))
             b == Cardinality(Counting(p)')
  <2>3. a \in Nat /\ b \in Nat /\ b <= a
    BY <1>f, <1>g, <2>2
  <2>4. uses[p] + a <= PromoOf[p].maxUses + Cardinality(Requests) - 1
    BY <1>i, <2>1
  <2> HIDE DEF a, b
  <2>5. uses'[p] + b <= PromoOf[p].maxUses + Cardinality(Requests) - 1
    BY <1>t, <1>v, <2>1, <2>3, <2>4
  <2>6. QED
    BY <2>5 DEF b
<1>2. ASSUME NEW r \in Requests, PayPromo(r, TRUE)
      PROVE  uses'[p] + Cardinality(Counting(p)')
                <= PromoOf[p].maxUses + Cardinality(Requests) - 1
  <2>1. /\ req'[r].pc = "create" /\ req'[r].promo = req[r].promo
        /\ \A q \in Requests \ {r} : req'[q] = req[q]
        /\ pays' = pays /\ uses' = uses
    BY <1>t, <1>2 DEF PayPromo, Handler
  <2>2. CASE req[r].promo = p
    <3>1. uses[p] < PromoOf[p].maxUses
      BY <1>2, <2>2 DEF PayPromo, BelowMaxUses
    <3> DEFINE b == Cardinality(Counting(p)')
    <3>2. b \in Nat /\ b <= Cardinality(Requests)
      BY <1>g
    <3> HIDE DEF b
    <3>3. uses'[p] + b <= PromoOf[p].maxUses + Cardinality(Requests) - 1
      BY <1>t, <2>1, <3>1, <3>2
    <3>4. QED
      BY <3>3 DEF b
  <2>3. CASE req[r].promo # p
    <3>1. r \notin Counting(p)'
      BY <2>1, <2>3 DEF Counting
    <3>2. RowsTell /\ uses'[p] <= uses[p]
      BY <1>t, <2>1 DEF RowsTell
    <3>3. CountsNothing(p)
      BY <2>1, <3>1, <3>2, NobodyJoins
    <3>4. QED
      BY <1>1, <3>3
  <2>4. QED
    BY <2>2, <2>3
<1>3. ASSUME NEW r \in Requests, PayUsage(r)
      PROVE  uses'[p] + Cardinality(Counting(p)')
                <= PromoOf[p].maxUses + Cardinality(Requests) - 1
  <2>1. Goto(r, "points") /\ pays' = pays /\ req[r].pc = "usage"
    BY <1>3 DEF PayUsage
  <2>2. /\ req'[r].pc = "points" /\ \A q \in Requests \ {r} : req'[q] = req[q]
    BY <2>1, GotoFields
  <2>3. r \notin Counting(p)' /\ \A q \in Requests \ {r} :
                                      q \in Counting(p)' <=> q \in Counting(p)
    BY <2>2 DEF Counting
  <2>4. CouponRows(p)
    BY <2>1 DEF CouponRows
  <2>5. CASE req[r].promo = p
    <3>1. uses'[p] = uses[p] + 1
      BY <1>t, <1>3, <2>5, PaymentsAssumption DEF PayUsage
    <3>2. r \in Counting(p)
      BY <2>1, <2>5 DEF Counting
    <3>3. Counting(p)' = Counting(p) \ {r}
      BY <1>f, <2>3, <3>2 DEF Counting
    <3>4. Cardinality(Counting(p)') = Cardinality(Counting(p)) - 1
      BY <1>f, <3>2, <3>3, FS_RemoveElement
    <3> DEFINE a == Cardinality(Counting(p))
               b == Cardinality(Counting(p)')
    <3>5. a \in Nat /\ b = a - 1
               /\ uses[p] + a <= PromoOf[p].maxUses + Cardinality(Requests) - 1
      BY <1>f, <1>i, <2>4, <3>4
    <3> HIDE DEF a, b
    <3>6. uses'[p] + b <= PromoOf[p].maxUses + Cardinality(Requests) - 1
      BY <1>t, <3>1, <3>5
    <3>7. QED
      BY <3>6 DEF b
  <2>6. CASE req[r].promo # p
    <3>1. uses'[p] <= uses[p]
      BY <1>t, <1>3, <2>6 DEF PayUsage
    <3>2. RowsTell
      BY <2>1 DEF RowsTell
    <3>3. CountsNothing(p)
      BY <2>2, <2>3, <3>1, <3>2, NobodyJoins
    <3>4. QED
      BY <1>1, <3>3
  <2>7. QED
    BY <2>5, <2>6
<1>4. ASSUME UNCHANGED <<pays, uses, req>> PROVE CountsNothing(p)
  BY <1>t, <1>4 DEF CountsNothing, CouponRows, Counting
<1>5. ASSUME NEW o \in DOMAIN orders, NEW s \in StatusTargets, UpdateStatus(o, s)
      PROVE  CountsNothing(p)
  BY <1>4, <1>5 DEF UpdateStatus
<1>6. CASE UNCHANGED vars
  BY <1>1, <1>4, <1>6 DEF vars
<1>7. ASSUME NEW r \in Requests, NewRequest(r) \/ HandlerStep(r) \/ Abort(r)
      PROVE  uses'[p] + Cardinality(Counting(p)')
                <= PromoOf[p].maxUses + Cardinality(Requests) - 1
  BY <1>1, <1>2, <1>3, <1>7, CouponSteps
<1>8. QED
  BY <1>1, <1>5, <1>6, <1>7 DEF Next

LEMMA CouponInit == Init => CouponInv
<1> SUFFICES ASSUME Init, NEW p \in Promos, PromoOf[p].maxUses # NoLimit
             PROVE  uses[p] + Cardinality(Counting(p))
                       <= PromoOf[p].maxUses + Cardinality(Requests) - 1
  BY DEF CouponInv
<1>1. PromoOf[p].maxUses \in Nat
  BY PaymentsAssumption DEF Promotion
<1>2. Counting(p) = {} /\ uses[p] = 0
  BY DEF Init, Counting, Idle
<1>3. Cardinality(Counting(p)) = 0
  BY <1>2, FS_EmptySet
<1>4. Cardinality(Requests) \in Nat /\ Cardinality(Requests) # 0
  BY PaymentsAssumption, FS_CardinalityType, FS_EmptySet
<1>5. QED
  BY <1>1, <1>2, <1>3, <1>4

\* A promotion that bills name only by its coupon code is used at most as often
\* as it may be, and once more for every other handler that can run at the same
\* time: of the handlers that find it below its limit, each counts its use
\* later, and the last of them checked before it was reached.
THEOREM CouponsStayLimited == Spec => []CouponsLimited
<1>1. TypeOK /\ CouponInv => CouponsLimited
  <2> SUFFICES ASSUME TypeOK, CouponInv, NEW p \in Promos,
                      PromoOf[p].maxUses # NoLimit, CouponRows(p)
               PROVE  uses[p] <= PromoOf[p].maxUses + Cardinality(Requests) - 1
    BY DEF CouponsLimited, CouponRows
  <2>1. /\ uses[p] \in Int /\ PromoOf[p].maxUses \in Nat
        /\ Cardinality(Requests) \in Nat /\ Cardinality(Counting(p)) \in Nat
    BY PaymentsAssumption, FS_CardinalityType, CountingFinite DEF TypeOK, Promotion
  <2>2. uses[p] + Cardinality(Counting(p)) <= PromoOf[p].maxUses + Cardinality(Requests) - 1
    BY DEF CouponInv
  <2>3. QED
    BY <2>1, <2>2
<1>2. Spec => []TInv
  BY TypeInit, TypeStep, PTL DEF Spec
<1>3. TInv => TypeOK
  BY DEF TInv
<1>4. QED
  BY <1>1, <1>2, <1>3, CouponInit, CouponStep, PTL DEF Spec

\* One handler runs at a time.
OneSlot == \E r : Requests = {r}

\* With one handler at a time, whenever none is running and none has failed
\* halfway, every member's balance and every promotion's counter agree with the
\* payment rows: bills, merged bills, refunds and the points that a refund could
\* not take back.  No coupon is used more often than it may be.
THEOREM BalancesStayAccounted == OneSlot => (Spec => []BalancesAccounted)
<1> SUFFICES ASSUME OneSlot PROVE Spec => []BalancesAccounted
  OBVIOUS
<1> DEFINE AllBooks == \A r \in Requests : Books(req[r])
<1>1. Init => AllBooks
  BY BooksInit
<1>2. TInv /\ TInv' /\ AllBooks /\ [Next]_vars => AllBooks'
  <2> SUFFICES ASSUME TypeOK, HandlerOK, TypeOK', AllBooks, [Next]_vars,
                      NEW r \in Requests
               PROVE  Books(req[r])'
    BY DEF TInv
  <2>1. Requests = {r}
    BY DEF OneSlot
  <2>2. QED
    BY <2>1, BooksStep
<1>3. TypeOK /\ AllBooks => PointsAccounted /\ UsesAccounted
  <2> SUFFICES ASSUME TypeOK, AllBooks, Quiet PROVE PointsAccounted /\ UsesAccounted
    BY DEF PointsAccounted, UsesAccounted
  <2>1. PICK r \in Requests : req[r].pc = "idle" /\ Books(req[r]) /\ NoneCut
    BY PaymentsAssumption DEF Quiet, NoneCut
  <2>2. PointsAgree(req[r]) /\ UsesAgree(req[r])
    BY <2>1 DEF Books
  <2>3. /\ \A m : Owed(req[r], m) = 0
        /\ \A p : UsesOwed(req[r], p) = 0
    BY <2>1 DEF Owed, UsesOwed, PastRow, PastRefund
  <2>4. pays \in Seq(Payment)
    BY DEF TypeOK
  <2>5. \A m \in Members : Account(m) \in Int
    BY <2>4, AccountInt
  <2>6. \A p \in Promos : Cardinality(Used(p)) \in Nat
    BY <2>4, UsedFinite
  <2>7. PointsAccounted
    BY <2>2, <2>3, <2>5 DEF PointsAgree, PointsAccounted
  <2>8. UsesAccounted
    BY <2>2, <2>3, <2>6 DEF UsesAgree, UsesAccounted
  <2>9. QED
    BY <2>7, <2>8
<1>4. Spec => []TInv
  BY TypeInit, TypeStep, PTL DEF Spec
<1>5. TInv => TypeOK
  BY DEF TInv
<1>6. PointsAccounted /\ UsesAccounted /\ CouponsLimited => BalancesAccounted
  BY DEF BalancesAccounted
<1> HIDE DEF AllBooks
<1>7. QED
  BY <1>1, <1>2, <1>3, <1>4, <1>5, <1>6, CouponsStayLimited, PTL DEF Spec
=============================================================================
