------------------------------ MODULE Pricing ------------------------------
(***************************************************************************)
(* PricingService.calculateTotal (src/cart/pricing.service.ts): what the   *)
(* items of a cart cost, and which coupons it refuses.  Amounts are in     *)
(* minor units.                                                            *)
(***************************************************************************)
EXTENDS Integers, FiniteSetsExt

CONSTANTS
    Terms,        \* the coupons that administrators write
    RoundedDown   \* <<subtotal, percent>> whose product with percent / 100 is a
                  \* whole number that binary floating point falls short of

NoLimit == 0      \* usage_limit is null

CouponTerms == [type : {"PERCENTAGE", "FIXED"}, amount : Nat \ {0}, limit : Nat]

ASSUME PricingAssumption ==
    /\ Terms \subseteq CouponTerms
    /\ RoundedDown \subseteq {x \in (Nat \ {0}) \X (Nat \ {0}) : (x[1] * x[2]) % 100 = 0}

(* A row of coupons.  Nothing in the code assigns times_used.              *)
Coupon(terms, expired) == [terms |-> terms, used |-> 0, expired |-> expired]
CouponRows == {Coupon(terms, expired) : terms \in Terms, expired \in BOOLEAN}

Invalid(c) == c.expired \/ (c.terms.limit # NoLimit /\ c.used >= c.terms.limit)

(* items and price: a quantity and a unit price for every product.         *)
Subtotal(items, price) == MapThenSumSet(LAMBDA p : price[p] * items[p], DOMAIN items)

(* Math.floor(subtotal * (amount / 100)).  The rounding error is far below *)
(* a hundredth, so that only a whole product can fall short.               *)
Percentage(subtotal, percent) ==
    LET exact == (subtotal * percent) \div 100
    IN  IF <<subtotal, percent>> \in RoundedDown THEN exact - 1 ELSE exact

UncappedDiscount(terms, subtotal) ==   \* mutant: may exceed the subtotal
    IF terms.type = "PERCENTAGE" THEN Percentage(subtotal, terms.amount)
                                 ELSE terms.amount

Discount(terms, subtotal) ==
    LET discount == IF terms.type = "PERCENTAGE" THEN Percentage(subtotal, terms.amount)
                                                 ELSE terms.amount
    IN  IF discount > subtotal THEN subtotal ELSE discount
=============================================================================
