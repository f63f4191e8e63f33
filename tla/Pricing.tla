------------------------------ MODULE Pricing ------------------------------
(***************************************************************************)
(* The arithmetic of a bill, as the payment, promotion and member services *)
(* compute it between their database calls: the discount of a promotion,   *)
(* the points a member may turn into a discount, the total, the points     *)
(* earned and the tier.  All of it is pure, so it is kept apart from the   *)
(* state machine of Payments, which uses it at the step where the handler  *)
(* does.                                                                   *)
(*                                                                         *)
(* Amounts are whole baht.  The code computes in floating point; a         *)
(* percentage is modelled by integer division, exact for the amounts the   *)
(* instances use.                                                          *)
(***************************************************************************)
EXTENDS Integers

CONSTANT NoLimit    \* the null of maxDiscount, maxUses and minOrderAmount

PromotionType == {"PERCENTAGE", "FIXED_AMOUNT", "COUPON", "HAPPY_HOUR"}

\* What a promotion row contributes to a price and to its own limit.
Promotion == [ type          : PromotionType,
               discountValue : Nat,
               maxDiscount   : Nat \cup {NoLimit},
               maxUses       : Nat \cup {NoLimit} ]

Lesser(a, b) == IF a <= b THEN a ELSE b

\* Mutation of DiscountPoints: the operands of a difference instead of a minimum.
SwappedDiscountPoints(requested, subtotal) == subtotal - requested

\* One baht off per point, never more points than the bill has baht.
DiscountPoints(requested, subtotal) == Lesser(requested, subtotal)

\* PromotionsService.calculateDiscountAmount.  Only the fixed amount is cut
\* off at the subtotal.
CalculateDiscountAmount(promo, subtotal) ==
    IF promo.type \in {"PERCENTAGE", "HAPPY_HOUR"}
    THEN LET discount == (subtotal * promo.discountValue) \div 100
         IN  IF promo.maxDiscount = NoLimit
             THEN discount
             ELSE Lesser(discount, promo.maxDiscount)
    ELSE Lesser(promo.discountValue, subtotal)

\* Nothing stops the two discounts from exceeding the subtotal together.
TotalAmount(subtotal, discountAmount, promotionDiscount) ==
    subtotal - discountAmount - promotionDiscount

\* One point for every full 25 baht, rounded down: negative for a negative
\* total.
BahtPerPoint == 25
PointsEarned(totalAmount) == totalAmount \div BahtPerPoint

\* The limit test of validateCoupon and getAvailablePromotions.
BelowMaxUses(promo, currentUses) ==
    promo.maxUses = NoLimit \/ currentUses < promo.maxUses
=============================================================================
