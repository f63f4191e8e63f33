------------------------------ MODULE Payments ------------------------------
(***************************************************************************)
(* Billing: PaymentsService.createPayment, createMergedPayment and         *)
(* refundPayment, OrdersService.splitOrder, and the member points and      *)
(* promotion counters those handlers write.                                *)
(*                                                                         *)
(* A handler is a sequence of awaited database calls.  Only splitOrder     *)
(* wraps its writes in a transaction, and no handler locks or re-reads     *)
(* what it checked, so the calls of several HTTP requests interleave.      *)
(* Each element of Requests is one slot in which a handler can run: req[r] *)
(* holds the handler's program counter and local variables, and an action  *)
(* is what the handler does from one await to the next.                    *)
(*                                                                         *)
(* The receipt number is left to the module Documents: here a payment row   *)
(* is written or the handler gives up.                                     *)
(***************************************************************************)
EXTENDS Pricing, Sequences, FiniteSetsExt

CONSTANTS
    Requests,         \* slots for handlers that run at the same time
    Items,            \* the dishes on the orders
    Value,            \* what a set of dishes costs
    InitialOrders,    \* the Order table when the model starts
    Members, NoMember,
    InitialPoints,
    RequestedPoints,  \* values of discountPoints in a request
    Promos, NoPromo,
    PromoOf,          \* the Promotion row of each promotion
    StatusTargets,    \* the statuses that staff write to orders
    MaxOrders,        \* bound: rows of the Order table
    MaxPayments,      \* bound: rows of the Payment table
    MaxFaults         \* bound: handlers that fail after their first write

OrderStatus   == {"PREPARING", "COMPLETED", "DELIVERED", "CANCELLED"}
PaymentStatus == {"PAID", "REFUNDED"}

\* revived: history, the order left CANCELLED.  raced: history, the split that
\* made this row committed although its original had changed after the check.
Order == [ status : OrderStatus, items : SUBSET Items, table : STRING,
           parent : Nat, revived : BOOLEAN, raced : BOOLEAN ]

\* anchor: the row whose receipt number a marker row extends.  coupon: the bill
\* named its promotion by the coupon code, which the row keeps.  raced, kept and
\* cut are history: the order had changed between the handler's check and this
\* row; earned points a refund could not take back; a handler that worked on
\* this row failed halfway.
Payment == [ order : Nat \ {0}, status : PaymentStatus, group : SUBSET Nat,
             anchor : Nat \ {0}, member : Members \cup {NoMember},
             promo : Promos \cup {NoPromo}, coupon : BOOLEAN, discountPoints : Nat,
             pointsEarned : Int, raced : BOOLEAN, kept : Nat, cut : BOOLEAN ]

\* A dish is a line of one order: copies come only from splits.
ASSUME PaymentsAssumption ==
    /\ Value \in [SUBSET Items -> Nat]
    /\ InitialOrders \in Seq(Order)
    /\ \A a, b \in DOMAIN InitialOrders :
          a # b => InitialOrders[a].items \cap InitialOrders[b].items = {}
    /\ InitialPoints \in [Members -> Nat]
    /\ RequestedPoints \subseteq Nat
    /\ IsFiniteSet(Items)
    /\ IsFiniteSet(Requests) /\ Requests # {}
    /\ PromoOf \in [Promos -> Promotion]
    /\ StatusTargets \subseteq OrderStatus
    /\ NoMember \notin Members
    /\ NoPromo \notin Promos

VARIABLES
    orders,   \* the Order table; the id of an order is its index
    pays,     \* the Payment table, likewise
    points,   \* Member.points
    uses,     \* Promotion.currentUses
    req,      \* the handler running in each slot
    dirty,    \* history: the orders others paid or cancelled since r's check
    faults    \* handlers that failed after their first write

vars == <<orders, pays, points, uses, req, dirty, faults>>

Idle == [ pc |-> "idle", kind |-> "none", todo |-> {}, group |-> {},
          member |-> NoMember, promo |-> NoPromo, coupon |-> FALSE,
          take |-> 0, give |-> 0, off |-> 0, row |-> 0, cur |-> 0, was |-> "none" ]

BeforeFirstWrite == {"member", "promo", "create", "refund", "split"}
AfterFirstWrite  == {"marker", "usage", "points", "pointsWrite",
                     "unuse", "unuseWrite"}

Handler == [ pc     : {"idle"} \cup BeforeFirstWrite \cup AfterFirstWrite,
             kind   : {"none", "pay", "refund", "split"},
             todo   : SUBSET (Nat \ {0}),  \* orders still to be written
             group  : SUBSET Nat,          \* orders of the bill
             member : Members \cup {NoMember},
             promo  : Promos \cup {NoPromo},
             coupon : BOOLEAN,             \* the promotion came from its code
             take   : Int,                 \* points still to be redeemed
             give   : Int,                 \* points still to be added
             off    : Int,                 \* the promotion's discount
             row    : Nat,                 \* the payment row at work
             cur    : Int,                 \* member.points as read
             was    : OrderStatus \cup {"none"} ]  \* order.status as read

-----------------------------------------------------------------------------
(* Reading the tables. *)

IsPaid(o) == \E i \in DOMAIN pays : pays[i].order = o /\ pays[i].status = "PAID"

\* Mutation of Payable: the already-paid check forgotten.
PayableWithoutPaidCheck(o) == orders[o].status # "CANCELLED"

\* The two checks every billing handler makes on the order it has read.
Payable(o) == orders[o].status # "CANCELLED" /\ ~IsPaid(o)

SameTable(G) == \A o, p \in G : orders[o].table = orders[p].table

IsFirst(o, S) == o \in S /\ \A p \in S : o <= p

Subtotal(G) == Value[UNION {orders[o].items : o \in G}]

\* r has changed the orders in S under the feet of the other handlers.
Touch(r, S) == [q \in Requests |->
                   IF q = r \/ req[q].pc = "idle" THEN dirty[q]
                                                  ELSE dirty[q] \cup S]

Start(r, h) == /\ req' = [req EXCEPT ![r] = h]
               /\ dirty' = [dirty EXCEPT ![r] = {}]

Goto(r, pc) == req' = [req EXCEPT ![r].pc = pc]
Stop(r) == req' = [req EXCEPT ![r] = Idle]

\* Bounds on the input, placed where a request arrives so that they never stop a
\* handler halfway: each bill and each split reserves the rows it can write.
RoomForPayments(n) ==
    Len(pays) + n + MapThenSumSet(
        LAMBDA q : IF req[q].kind = "pay" THEN Cardinality(req[q].todo) ELSE 0,
        Requests) <= MaxPayments

RoomForOrders(n) ==
    Len(orders) + n + MapThenSumSet(
        LAMBDA q : IF req[q].kind = "split"
                   THEN Cardinality(UNION {orders[o].items : o \in req[q].todo})
                   ELSE 0,
        Requests) <= MaxOrders

-----------------------------------------------------------------------------
(* createPayment (one order) and createMergedPayment (several). *)

\* One query returns the orders with their payments; the checks follow.
PayRead(r, G, m, p) ==
    /\ req[r].pc = "idle"
    /\ G # {}
    /\ RoomForPayments(Cardinality(G))
    /\ SameTable(G)
    /\ \A o \in G : Payable(o)
    /\ Start(r, [Idle EXCEPT !.pc = "member", !.kind = "pay", !.todo = G,
                             !.group = G, !.member = m, !.promo = p])
    /\ UNCHANGED <<orders, pays, points, uses, faults>>

\* The member is read and must hold the points the request wants to spend.
EnoughPoints(m, requested) == requested <= points[m]

PayMember(r, requested) ==
    LET h == req[r] IN
    /\ h.pc = "member"
    /\ h.member = NoMember => requested = 0
    /\ h.member # NoMember => EnoughPoints(h.member, requested)
    /\ req' = [req EXCEPT ![r].pc = "promo",
                          ![r].take = DiscountPoints(requested,
                                                     Subtotal(h.group))]
    /\ UNCHANGED <<orders, pays, points, uses, dirty, faults>>

\* A coupon is validated; a promotion named by its id is only looked up.
PayPromo(r, isCoupon) ==
    LET h == req[r]
        subtotal == Subtotal(h.group)
        off == IF h.promo = NoPromo THEN 0
               ELSE CalculateDiscountAmount(PromoOf[h.promo], subtotal)
        total == TotalAmount(subtotal, h.take, off)
    IN
    /\ h.pc = "promo"
    /\ isCoupon => /\ h.promo # NoPromo
                   /\ BelowMaxUses(PromoOf[h.promo], uses[h.promo])
    /\ req' = [req EXCEPT ![r].pc = "create", ![r].off = off, ![r].coupon = isCoupon,
                          ![r].give = IF h.member = NoMember THEN 0
                                      ELSE PointsEarned(total)]
    /\ UNCHANGED <<orders, pays, points, uses, dirty, faults>>

PrimaryRow(r, o) ==
    [ order |-> o, status |-> "PAID", group |-> req[r].group,
      anchor |-> Len(pays) + 1, member |-> req[r].member,
      promo |-> req[r].promo, coupon |-> req[r].coupon,
      discountPoints |-> req[r].take,
      pointsEarned |-> req[r].give, raced |-> o \in dirty[r], kept |-> 0,
      cut |-> FALSE ]

\* Mutation of Remaining: the loop over the other orders starts one too late.
RemainingSkipsOne(todo, o) == {p \in todo : \E q \in todo \ {o} : q < p}

\* The orders of the bill that still lack a row once order o has one.
Remaining(todo, o) == todo \ {o}

\* The order with the lowest id carries the whole bill.
PayCreate(r, o) ==
    /\ req[r].pc = "create"
    /\ IsFirst(o, req[r].todo)
    /\ pays' = Append(pays, PrimaryRow(r, o))
    /\ req' = [req EXCEPT ![r].pc = "marker", ![r].row = Len(pays) + 1,
                          ![r].todo = Remaining(@, o)]
    /\ dirty' = Touch(r, {o})
    /\ UNCHANGED <<orders, points, uses, faults>>

MarkerRow(r, o) ==
    [ order |-> o, status |-> "PAID", group |-> req[r].group,
      anchor |-> req[r].row, member |-> NoMember, promo |-> NoPromo,
      coupon |-> FALSE, discountPoints |-> 0, pointsEarned |-> 0, raced |-> o \in dirty[r],
      kept |-> 0, cut |-> FALSE ]

\* The other orders of the bill get a row of their own, one call each.
PayMarker(r, o) ==
    /\ req[r].pc = "marker"
    /\ IsFirst(o, req[r].todo)
    /\ pays' = Append(pays, MarkerRow(r, o))
    /\ req' = [req EXCEPT ![r].todo = Remaining(@, o)]
    /\ dirty' = Touch(r, {o})
    /\ UNCHANGED <<orders, points, uses, faults>>

PayRowsDone(r) ==
    /\ req[r].pc = "marker"
    /\ req[r].todo = {}
    /\ Goto(r, "usage")
    /\ UNCHANGED <<orders, pays, points, uses, dirty, faults>>

\* incrementUsage is one atomic UPDATE ... SET n = n + 1.
PayUsage(r) ==
    /\ req[r].pc = "usage"
    /\ uses' = IF req[r].promo = NoPromo THEN uses
               ELSE [uses EXCEPT ![req[r].promo] = @ + 1]
    /\ Goto(r, "points")
    /\ UNCHANGED <<orders, pays, points, dirty, faults>>

-----------------------------------------------------------------------------
(* Member points.  A payment redeems and then adds; a refund adds back what  *)
(* was redeemed and then takes back what was earned.                         *)

PointsStep(h) ==
    IF h.kind = "pay"
    THEN IF h.take > 0 THEN "redeem" ELSE IF h.give > 0 THEN "add" ELSE "done"
    ELSE IF h.give > 0 THEN "add" ELSE IF h.take > 0 THEN "redeem" ELSE "done"

\* Mutation of CanRedeem: the balance is not compared with the amount.
CanAlwaysRedeem(m, n) == TRUE

CanRedeem(m, n) == points[m] >= n

PointsRead(r) ==
    LET h == req[r] IN
    /\ h.pc = "points"
    /\ h.member # NoMember
    /\ PointsStep(h) # "done"
    /\ PointsStep(h) = "redeem" => CanRedeem(h.member, h.take)
    /\ req' = [req EXCEPT ![r].pc = "pointsWrite", ![r].cur = points[h.member]]
    /\ UNCHANGED <<orders, pays, points, uses, dirty, faults>>

\* redeemPoints throws: a refund swallows it, a payment fails with 409 although
\* its row has been written.
PointsShort(r) ==
    LET h == req[r] IN
    /\ h.pc = "points"
    /\ h.member # NoMember
    /\ PointsStep(h) = "redeem"
    /\ ~CanRedeem(h.member, h.take)
    /\ IF h.kind = "refund"
       THEN /\ req' = [req EXCEPT ![r].take = 0]
            /\ pays' = [pays EXCEPT ![h.row].kept = @ + h.take]
       ELSE /\ Stop(r)
            /\ pays' = [pays EXCEPT ![h.row].cut = TRUE]
    /\ UNCHANGED <<orders, points, uses, dirty, faults>>

\* Mutation of AddedBalance: the points are written and not added.
OverwrittenBalance(h) == h.give

\* The new balance is computed from the balance read before.
RedeemedBalance(h) == h.cur - h.take
AddedBalance(h) == h.cur + h.give

PointsWrite(r) ==
    LET h == req[r] IN
    /\ h.pc = "pointsWrite"
    /\ \/ /\ PointsStep(h) = "redeem"
          /\ points' = [points EXCEPT ![h.member] = RedeemedBalance(h)]
          /\ req' = [req EXCEPT ![r].pc = "points", ![r].take = 0]
       \/ /\ PointsStep(h) = "add"
          /\ points' = [points EXCEPT ![h.member] = AddedBalance(h)]
          /\ req' = [req EXCEPT ![r].pc = "points", ![r].give = 0]
    /\ UNCHANGED <<orders, pays, uses, dirty, faults>>

\* No member, or nothing left to book: the handler answers.
Respond(r) ==
    /\ req[r].pc = "points"
    /\ req[r].member = NoMember \/ PointsStep(req[r]) = "done"
    /\ Stop(r)
    /\ UNCHANGED <<orders, pays, points, uses, dirty, faults>>

-----------------------------------------------------------------------------
(* refundPayment. *)

Refundable(i) == pays[i].status = "PAID"

RefundRead(r, i) ==
    /\ req[r].pc = "idle"
    /\ Refundable(i)
    /\ Start(r, [Idle EXCEPT !.pc = "refund", !.kind = "refund", !.row = i,
                             !.member = pays[i].member,
                             !.promo = pays[i].promo,
                             !.give = pays[i].discountPoints,
                             !.take = pays[i].pointsEarned])
    /\ UNCHANGED <<orders, pays, points, uses, faults>>

\* The update does not look at the status again.
RefundWrite(r) ==
    /\ req[r].pc = "refund"
    /\ pays' = [pays EXCEPT ![req[r].row].status = "REFUNDED"]
    /\ Goto(r, "unuse")
    /\ UNCHANGED <<orders, points, uses, dirty, faults>>

\* decrementUsage reads the counter, and then decrements it atomically.
HasUses(p) == uses[p] > 0

UnuseRead(r) ==
    LET h == req[r] IN
    /\ h.pc = "unuse"
    /\ Goto(r, IF h.promo # NoPromo /\ HasUses(h.promo) THEN "unuseWrite"
                                                        ELSE "points")
    /\ UNCHANGED <<orders, pays, points, uses, dirty, faults>>

UnuseWrite(r) ==
    /\ req[r].pc = "unuseWrite"
    /\ uses' = [uses EXCEPT ![req[r].promo] = @ - 1]
    /\ Goto(r, "points")
    /\ UNCHANGED <<orders, pays, points, dirty, faults>>

-----------------------------------------------------------------------------
(* splitOrder, and the other writers of Order.status. *)

SplitRead(r, o) ==
    /\ req[r].pc = "idle"
    /\ RoomForOrders(Cardinality(orders[o].items))
    /\ Payable(o)
    /\ Start(r, [Idle EXCEPT !.pc = "split", !.kind = "split", !.todo = {o},
                             !.was = orders[o].status])
    /\ UNCHANGED <<orders, pays, points, uses, faults>>

ChildOrder(r, o, dishes) ==
    [ status |-> req[r].was, items |-> dishes, table |-> orders[o].table,
      parent |-> o, revived |-> FALSE, raced |-> o \in dirty[r] ]

\* The lists of groups a request can name for order o.
GroupLists(o) == UNION { [1..k -> SUBSET orders[o].items] :
                           k \in 2..Cardinality(orders[o].items) }

\* Mutation of SplitsInto: the check for duplicates across groups forgotten.
SplitsWithDuplicates(dishes, groups) ==
    /\ \A i \in DOMAIN groups : groups[i] # {}
    /\ UNION {groups[i] : i \in DOMAIN groups} = dishes

\* Every dish in exactly one of two or more groups, no group empty.
SplitsInto(dishes, groups) ==
    /\ \A i \in DOMAIN groups : groups[i] # {}
    /\ \A i, j \in DOMAIN groups : i # j => groups[i] \cap groups[j] = {}
    /\ UNION {groups[i] : i \in DOMAIN groups} = dishes

\* One transaction: the new orders, and the original cancelled.
SplitCommit(r, o, groups) ==
    LET children == [i \in DOMAIN groups |-> ChildOrder(r, o, groups[i])] IN
    /\ req[r].pc = "split"
    /\ o \in req[r].todo
    /\ SplitsInto(orders[o].items, groups)
    /\ orders' = [orders EXCEPT ![o].status = "CANCELLED"] \o children
    /\ Stop(r)
    /\ dirty' = Touch(r, {o})
    /\ UNCHANGED <<pays, points, uses, faults>>

\* updateStatus allows every change of status, and so do the bulk updates of
\* the table and kitchen services.  Restoring the stock is left to Stock.
UpdateStatus(o, s) ==
    /\ orders[o].status # s
    /\ orders' = [orders EXCEPT ![o].status = s,
                                ![o].revived = @ \/ orders[o].status = "CANCELLED"]
    /\ dirty' = IF s = "CANCELLED" THEN [q \in Requests |->
                    IF req[q].pc = "idle" THEN dirty[q] ELSE dirty[q] \cup {o}]
                ELSE dirty
    /\ UNCHANGED <<pays, points, uses, req, faults>>

-----------------------------------------------------------------------------
(* Handlers that end early. *)

\* Before the first write nothing is left behind: too few points, a coupon
\* that is not valid, too little money, five receipt numbers taken, a split
\* that does not cover the order, a lost connection.
Reject(r) ==
    /\ req[r].pc \in BeforeFirstWrite
    /\ Stop(r)
    /\ UNCHANGED <<orders, pays, points, uses, dirty, faults>>

\* After it, a call that fails or a process that stops leaves the rest undone.
Abort(r) ==
    /\ req[r].pc \in AfterFirstWrite
    /\ faults < MaxFaults
    /\ faults' = faults + 1
    /\ pays' = [pays EXCEPT ![req[r].row].cut = TRUE]
    /\ Stop(r)
    /\ UNCHANGED <<orders, points, uses, dirty>>

-----------------------------------------------------------------------------
Init ==
    /\ orders = InitialOrders
    /\ pays = << >>
    /\ points = InitialPoints
    /\ uses = [p \in Promos |-> 0]
    /\ req = [r \in Requests |-> Idle]
    /\ dirty = [r \in Requests |-> {}]
    /\ faults = 0

\* What a handler does on its own, once its request has arrived.
HandlerStep(r) ==
    \/ \E n \in RequestedPoints \cup {0} : PayMember(r, n)
    \/ \E isCoupon \in BOOLEAN : PayPromo(r, isCoupon)
    \/ \E o \in req[r].todo : PayCreate(r, o) \/ PayMarker(r, o)
    \/ PayRowsDone(r)
    \/ PayUsage(r)
    \/ PointsRead(r)
    \/ PointsShort(r)
    \/ PointsWrite(r)
    \/ Respond(r)
    \/ RefundWrite(r)
    \/ UnuseRead(r)
    \/ UnuseWrite(r)
    \/ \E o \in req[r].todo : \E groups \in GroupLists(o) : SplitCommit(r, o, groups)
    \/ Reject(r)

NewRequest(r) ==
    \/ \E G \in SUBSET DOMAIN orders, m \in Members \cup {NoMember},
          p \in Promos \cup {NoPromo} : PayRead(r, G, m, p)
    \/ \E i \in DOMAIN pays : RefundRead(r, i)
    \/ \E o \in DOMAIN orders : SplitRead(r, o)

Next ==
    \/ \E r \in Requests : NewRequest(r) \/ HandlerStep(r) \/ Abort(r)
    \/ \E o \in DOMAIN orders, s \in StatusTargets : UpdateStatus(o, s)

Spec == Init /\ [][Next]_vars

-----------------------------------------------------------------------------
(* Properties. *)

TypeOK ==
    /\ orders \in Seq(Order)
    /\ pays \in Seq(Payment)
    /\ points \in [Members -> Int]
    /\ uses \in [Promos -> Int]
    /\ req \in [Requests -> Handler]
    /\ dirty \in [Requests -> SUBSET Nat]
    /\ faults \in Nat

\* A member's balance never drops below zero, however the reads and writes of
\* payments and refunds interleave: redeemPoints checks the same read it
\* computes the new balance from.
PointsNonNegative == \A m \in Members : points[m] >= 0

\* Two paid rows for one order can only come about when someone else paid (or
\* cancelled) the order between the handler's check and its insert: the
\* "already paid" check of createPayment and createMergedPayment stops every
\* other double payment.
DoublePayOnlyByRace ==
    \A i, j \in DOMAIN pays :
        /\ i < j
        /\ pays[i].order = pays[j].order
        /\ pays[i].status = "PAID"
        /\ pays[j].status = "PAID"
        => pays[j].raced

\* A dish is not paid twice through an order and its split copies, or through
\* two splits of one order, unless a check was overtaken or a cancelled
\* order was brought back.
DishPaidTwiceOnlyByRace ==
    \A i, j \in DOMAIN pays :
        LET a == pays[i].order
            b == pays[j].order IN
        /\ a # b
        /\ pays[i].status = "PAID"
        /\ pays[j].status = "PAID"
        /\ orders[a].items \cap orders[b].items # {}
        => \/ pays[i].raced \/ pays[j].raced
           \/ \E o \in DOMAIN orders :
                 /\ orders[o].items \cap orders[a].items \cap orders[b].items # {}
                 /\ orders[o].raced \/ orders[o].revived

\* Once createMergedPayment has written the paying row, every other order of
\* the bill has its marker row, or the handler still has to write it, or the
\* handler failed.
MergeComplete ==
    \A i \in DOMAIN pays : pays[i].anchor = i /\ ~pays[i].cut =>
        \A o \in pays[i].group :
            \/ \E j \in DOMAIN pays : pays[j].order = o /\ pays[j].anchor = i
            \/ \E r \in Requests : /\ req[r].kind = "pay"
                                    /\ req[r].row = i
                                    /\ o \in req[r].todo

Quiet == /\ \A r \in Requests : req[r].pc = "idle"
         /\ \A i \in DOMAIN pays : ~pays[i].cut

\* What a payment row says of member m's balance: the points a paid row earned
\* and spent, and those a refund could not take back.
Entry(row, m) ==
    IF row.member = m
    THEN (IF row.status = "PAID" THEN Max({row.pointsEarned, 0}) - row.discountPoints
                                 ELSE 0) + row.kept
    ELSE 0

\* What the balance should be, from the payment rows alone.
Account(m) ==
    InitialPoints[m]
      + SumFunctionOnSet([i \in DOMAIN pays |-> Entry(pays[i], m)], DOMAIN pays)

\* When no handler is running and none has failed halfway, the balances agree
\* with the payment rows.
PointsAccounted == Quiet => \A m \in Members : points[m] = Account(m)

\* The paid rows of a promotion.
Used(p) == {i \in DOMAIN pays : pays[i].promo = p /\ pays[i].status = "PAID"}

\* Likewise currentUses counts the paid rows that used the promotion.
UsesAccounted == Quiet => \A p \in Promos : uses[p] = Cardinality(Used(p))

\* A promotion that bills name only by its coupon code is used at most as often as
\* it may be, and once more for every other handler that can run at the same
\* time: validateCoupon checks the counter well before incrementUsage.  Nothing
\* is said once a bill has named it by its id, which looks at no limit.
CouponsLimited ==
    \A p \in Promos :
        (/\ PromoOf[p].maxUses # NoLimit
         /\ \A i \in DOMAIN pays : pays[i].promo = p => pays[i].coupon) =>
            uses[p] <= PromoOf[p].maxUses + Cardinality(Requests) - 1

\* What the rows of members and promotions count agrees with the payments, and
\* a coupon's limit holds.
BalancesAccounted == PointsAccounted /\ UsesAccounted /\ CouponsLimited

-----------------------------------------------------------------------------
(* What the API's description says of a second payment, refuted by one run. *)

\* "409 Order already paid": an order has at most one paid row.
NoDoublePayment ==
    \A i, j \in DOMAIN pays :
        (/\ pays[i].order = pays[j].order
         /\ pays[i].status = "PAID"
         /\ pays[j].status = "PAID") => i = j
=============================================================================
