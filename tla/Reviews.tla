------------------------------ MODULE Reviews -------------------------------
(***************************************************************************)
(* ReviewsService (src/reviews), over the orders of Fulfilment: what a     *)
(* customer reviews must have been paid for, while webhooks change the     *)
(* status of the orders.                                                   *)
(*                                                                         *)
(* The orders are those of one customer; what others do with theirs        *)
(* concerns other rows of reviews.  Rows that differ only in rating and    *)
(* text are counted.                                                       *)
(***************************************************************************)
EXTENDS Fulfilment

CONSTANTS
    Subjects,    \* products
    Bought,      \* the products in an order
    Reviewers    \* the customer's requests, each made once

ASSUME ReviewsAssumption == Bought \in [Orders -> SUBSET Subjects]

VARIABLES
    reviews,     \* rows of reviews, by product and status
    reviewer     \* createReview in progress

reviewVars == <<reviews, reviewer>>

NoSubject == "no subject"
ReviewStatuses == {"PENDING_MODERATION", "APPROVED"}
ReviewTasks == [step : {"idle", "verify", "insert", "done"},
                subject : Subjects \cup {NoSubject}]

ReviewsTypeOK ==
    /\ FulfilmentTypeOK
    /\ reviews \in [Subjects -> [ReviewStatuses -> Nat]]
    /\ reviewer \in [Reviewers -> ReviewTasks]

ReviewsInit ==
    /\ Init
    /\ reviews = [x \in Subjects |-> [s \in ReviewStatuses |-> 0]]
    /\ reviewer = [r \in Reviewers |-> [step |-> "idle", subject |-> NoSubject]]

-----------------------------------------------------------------------------

Step(r, step) == reviewer' = [reviewer EXCEPT ![r].step = step]
RowsOf(x) == reviews[x]["PENDING_MODERATION"] + reviews[x]["APPROVED"]

NeverReviewed(x) == FALSE        \* mutant: an earlier review is not looked for
Reviewed(x) == RowsOf(x) > 0

(* createReview looks for an earlier review,                               *)
LookForReview(r, x) ==
    /\ reviewer[r].step = "idle"
    /\ ~Reviewed(x)
    /\ reviewer' = [reviewer EXCEPT ![r] = [step |-> "verify", subject |-> x]]
    /\ UNCHANGED reviews

HasOrdered(x) == \E o \in Orders : x \in Bought[o]   \* mutant: whatever its status
(* The statuses SHIPPED and DELIVERED, which the query names too, are      *)
(* never given to an order.                                                *)
HasPurchased(x) ==
    \E o \in Orders : x \in Bought[o] /\ status[o] \in {"PAID", "SHIPPED", "DELIVERED"}

(* then for a paid order that contains the product,                        *)
VerifyPurchase(r) ==
    /\ reviewer[r].step = "verify"
    /\ Step(r, IF HasPurchased(reviewer[r].subject) THEN "insert" ELSE "done")
    /\ UNCHANGED reviews

(* and inserts.  No constraint concerns the table.                         *)
InsertReview(r) ==
    LET x == reviewer[r].subject IN
    /\ reviewer[r].step = "insert"
    /\ reviews' = [reviews EXCEPT ![x]["PENDING_MODERATION"] = @ + 1]
    /\ Step(r, "done")

ReviewerFails(r) ==
    /\ reviewer[r].step \in {"verify", "insert"}
    /\ Step(r, "done")
    /\ UNCHANGED reviews

(* approveReview reads the row and saves it; nothing else writes it.       *)
ApproveReview(x) ==
    /\ reviews[x]["PENDING_MODERATION"] > 0
    /\ reviews' = [reviews EXCEPT ![x]["PENDING_MODERATION"] = @ - 1, ![x]["APPROVED"] = @ + 1]
    /\ UNCHANGED reviewer

ReviewStep ==
    \/ \E r \in Reviewers : \/ \E x \in Subjects : LookForReview(r, x)
                            \/ VerifyPurchase(r) \/ InsertReview(r) \/ ReviewerFails(r)
    \/ \E x \in Subjects : ApproveReview(x)

ReviewsNext ==
    \/ Next /\ UNCHANGED reviewVars
    \/ ReviewStep /\ UNCHANGED vars

ReviewsSpec == ReviewsInit /\ [][ReviewsNext]_<<vars, reviewVars>>

-----------------------------------------------------------------------------
(* What can go wrong                                                       *)

(* Each review is a verified purchase (is_verified_purchase): the provider *)
(* has reported the payment of an order that contains the product.  A      *)
(* later failure event may take the status PAID away again, before the     *)
(* review is inserted or after: the report remains.                        *)
ReviewsVerified ==
    \A x \in Subjects :
        RowsOf(x) > 0 \/ (\E r \in Reviewers : reviewer[r] = [step |-> "insert", subject |-> x]) =>
            \E e \in Events : /\ x \in Bought[OrderOf[e]]
                              /\ TypeOf[e] = "payment.succeeded" /\ recorded[e] = "PROCESSED"

(* A product has more than one review of a customer only if the requests   *)
(* overlapped: each of them had passed the first check when the first row  *)
(* was inserted.  Once a review is there and no request is under way, the  *)
(* number of rows stays what it is.                                        *)
Settled(x) ==
    /\ RowsOf(x) > 0
    /\ \A r \in Reviewers : reviewer[r].subject = x => reviewer[r].step = "done"

NoFurtherReview ==
    [][\A x \in Subjects : Settled(x) => Settled(x)' /\ RowsOf(x)' = RowsOf(x)]_<<vars, reviewVars>>
=============================================================================
