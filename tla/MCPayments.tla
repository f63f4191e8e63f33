----------------------------- MODULE MCPayments -----------------------------
(***************************************************************************)
(* Instances of Payments for TLC: one order of two dishes, which a split   *)
(* makes two orders of one dish; one member and one promotion.             *)
(***************************************************************************)
EXTENDS Payments, TLC

CONSTANTS soup, rice, ann, p1

Price == soup :> 60 @@ rice :> 40

MCValue == [S \in SUBSET Items |-> MapThenSumSet(LAMBDA i : Price[i], S)]

NewOrder(dishes) == [ status |-> "PREPARING", items |-> dishes, table |-> "T1",
                      parent |-> 0, revived |-> FALSE, raced |-> FALSE ]

OneOrder == << NewOrder({soup, rice}) >>

MCPoints == [m \in Members |-> 50]

\* A bill of 60 earns two more; the next bill may spend all three, and the refund of
\* the first then finds one point, earned by the second, where it takes back two.
OnePoint == [m \in Members |-> 1]

\* A fixed discount that may be used once.
MCPromoOf == [p \in Promos |-> [ type |-> "COUPON", discountValue |-> 30,
                                 maxDiscount |-> NoLimit, maxUses |-> 1 ]]

SlotSymmetry == Permutations(Requests)
=============================================================================
