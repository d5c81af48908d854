--------------------------- MODULE ReviewsProofs ---------------------------
(***************************************************************************)
(* Theorems about Reviews, for any products, customers' requests, orders,  *)
(* events and faults.  The status of an order is explained by the theorems *)
(* about Fulfilment.                                                       *)
(***************************************************************************)
EXTENDS Reviews, FulfilmentProofs

USE ReviewsAssumption

allVars == <<vars, reviewVars>>

ReportedPaid(x) ==
    \E e \in Events : /\ x \in Bought[OrderOf[e]]
                      /\ TypeOf[e] = "payment.succeeded" /\ recorded[e] = "PROCESSED"

ReviewsInv == PaymentInv /\ ReviewsTypeOK /\ ReviewsVerified

-----------------------------------------------------------------------------
(* Types                                                                   *)

LEMMA CountsAreNat ==
  ASSUME ReviewsTypeOK, NEW x \in Subjects
  PROVE  /\ reviews[x]["PENDING_MODERATION"] \in Nat
         /\ reviews[x]["APPROVED"] \in Nat
         /\ RowsOf(x) \in Nat
BY DEF ReviewsTypeOK, ReviewStatuses, RowsOf

LEMMA ReviewTypeStep ==
  ASSUME ReviewsTypeOK, FulfilmentTypeOK', ReviewStep
  PROVE  ReviewsTypeOK'
<1> USE DEF ReviewsTypeOK
<1>1. ASSUME NEW r \in Reviewers, NEW x \in Subjects, LookForReview(r, x) PROVE ReviewsTypeOK'
  BY <1>1 DEF LookForReview, ReviewTasks
<1>2. ASSUME NEW r \in Reviewers, VerifyPurchase(r) \/ ReviewerFails(r) PROVE ReviewsTypeOK'
  BY <1>2 DEF VerifyPurchase, ReviewerFails, Step, ReviewTasks
<1>3. ASSUME NEW r \in Reviewers, InsertReview(r) PROVE ReviewsTypeOK'
  <2>1. reviews' \in [Subjects -> [ReviewStatuses -> Nat]]
    <3>1. CASE reviewer[r].subject \in Subjects
      <4>1. reviews[reviewer[r].subject]["PENDING_MODERATION"] + 1 \in Nat
        BY <3>1, CountsAreNat
      <4> QED
        BY <1>3, <3>1, <4>1 DEF InsertReview, ReviewStatuses
    <3>2. CASE reviewer[r].subject \notin Subjects
      BY <1>3, <3>2 DEF InsertReview
    <3> QED
      BY <3>1, <3>2
  <2>2. reviewer' \in [Reviewers -> ReviewTasks]
    BY <1>3 DEF InsertReview, Step, ReviewTasks
  <2> QED
    BY <2>1, <2>2
<1>4. ASSUME NEW x \in Subjects, ApproveReview(x) PROVE ReviewsTypeOK'
  <2>1. /\ reviews[x]["PENDING_MODERATION"] - 1 \in Nat
        /\ reviews[x]["APPROVED"] + 1 \in Nat
    BY <1>4, CountsAreNat DEF ApproveReview
  <2>2. reviews' \in [Subjects -> [ReviewStatuses -> Nat]]
    BY <1>4, <2>1 DEF ApproveReview, ReviewStatuses
  <2> QED
    BY <1>4, <2>2 DEF ApproveReview
<1> QED
  BY <1>1, <1>2, <1>3, <1>4 DEF ReviewStep

-----------------------------------------------------------------------------
(* What was reported stays reported                                        *)

LEMMA ProcessedStays ==
  ASSUME FulfilmentTypeOK, HandlersOwnEvents, [Next]_vars,
         NEW e \in Events, recorded[e] = "PROCESSED"
  PROVE  recorded'[e] = "PROCESSED"
<1> USE DEF FulfilmentTypeOK
<1>1. ASSUME NEW w \in Handlers, NEW d \in Events, Receive(w, d) PROVE recorded'[e] = "PROCESSED"
  BY <1>1 DEF Receive, IsDuplicate, None
<1>2. ASSUME NEW w \in Handlers, CommitPayment(w) PROVE recorded'[e] = "PROCESSED"
  BY <1>2 DEF CommitPayment
<1>3. CASE UNCHANGED recorded
  BY <1>3
<1> QED
  BY <1>1, <1>2, <1>3 DEF Next, ReadOrder, SaveOrder, HookFails, CreateShipment,
     QueueConfirmation, ListenerFails, ReadShipment, SaveShipment, ClerkFails,
     StartPoll, SendNext, SendRow, PollFails, vars, paymentVars

LEMMA ReportStays ==
  ASSUME FulfilmentTypeOK, HandlersOwnEvents, [Next]_vars, NEW x \in Subjects, ReportedPaid(x)
  PROVE  ReportedPaid(x)'
BY ProcessedStays DEF ReportedPaid

(* A status PAID comes from a processed report, even if it does not last.  *)
LEMMA PurchaseIsReported ==
  ASSUME FulfilmentTypeOK, StatusMatchesEvents, NEW x \in Subjects, HasPurchased(x)
  PROVE  ReportedPaid(x)
<1>1. PICK o \in Orders : x \in Bought[o] /\ status[o] = "PAID"
  BY DEF HasPurchased, FulfilmentTypeOK, OrderStatuses
<1>2. PICK e \in Processed(o) : status[o] = Outcome(e)
  BY <1>1 DEF StatusMatchesEvents
<1> QED
  BY <1>1, <1>2 DEF Processed, Outcome, ReportedPaid

-----------------------------------------------------------------------------

LEMMA VerifiedStep ==
  ASSUME ReviewsInv, ReviewsTypeOK', ReviewStep, UNCHANGED vars
  PROVE  ReviewsVerified'
<1> USE DEF ReviewsInv, ReviewsTypeOK
<1> SUFFICES ASSUME NEW x \in Subjects,
                    RowsOf(x)' > 0 \/ \E r \in Reviewers : reviewer'[r] = [step |-> "insert", subject |-> x]
             PROVE  ReportedPaid(x)
  BY DEF ReviewsVerified, ReportedPaid, vars, paymentVars
<1> DEFINE Wanted == RowsOf(x) > 0 \/ \E r \in Reviewers : reviewer[r] = [step |-> "insert", subject |-> x]
<1>0. Wanted => ReportedPaid(x)
  BY DEF ReviewsVerified, ReportedPaid
<1>1. ASSUME NEW r \in Reviewers, NEW y \in Subjects, LookForReview(r, y) PROVE Wanted
  BY <1>1 DEF LookForReview, RowsOf, ReviewTasks
<1>2. ASSUME NEW r \in Reviewers, VerifyPurchase(r) PROVE ReportedPaid(x)
  <2>1. CASE Wanted
    BY <2>1, <1>0
  <2>2. CASE ~Wanted
    <3>1. UNCHANGED reviews /\ RowsOf(x)' = RowsOf(x)
      BY <1>2 DEF VerifyPurchase, RowsOf
    <3>2. PICK s \in Reviewers : reviewer'[s] = [step |-> "insert", subject |-> x]
      BY <2>2, <3>1
    <3>3. s = r /\ reviewer[r].subject = x /\ HasPurchased(reviewer[r].subject)
      BY <1>2, <2>2, <3>2 DEF VerifyPurchase, Step, ReviewTasks
    <3>4. HasPurchased(x)
      BY <3>3
    <3> QED
      BY <3>4, PurchaseIsReported DEF PaymentInv
  <2> QED
    BY <2>1, <2>2
<1>3. ASSUME NEW r \in Reviewers, InsertReview(r) PROVE Wanted
  <2>1. CASE reviewer[r].subject = x
    <3>1. reviewer[r] = [step |-> "insert", subject |-> x]
      BY <1>3, <2>1 DEF InsertReview, ReviewTasks
    <3> QED
      BY <3>1
  <2>2. CASE reviewer[r].subject # x
    BY <1>3, <2>2 DEF InsertReview, Step, RowsOf, ReviewTasks
  <2> QED
    BY <2>1, <2>2
<1>4. ASSUME NEW r \in Reviewers, ReviewerFails(r) PROVE Wanted
  BY <1>4 DEF ReviewerFails, Step, RowsOf, ReviewTasks
<1>5. ASSUME NEW y \in Subjects, ApproveReview(y) PROVE Wanted
  <2>1. RowsOf(x)' = RowsOf(x)
    BY <1>5, CountsAreNat DEF ApproveReview, RowsOf, ReviewStatuses
  <2> QED
    BY <1>5, <2>1 DEF ApproveReview
<1> QED
  BY <1>0, <1>1, <1>2, <1>3, <1>4, <1>5 DEF ReviewStep

LEMMA VerifiedKept ==
  ASSUME ReviewsInv, [Next]_vars, UNCHANGED reviewVars
  PROVE  ReviewsVerified'
<1> USE DEF ReviewsInv
<1>1. ASSUME NEW x \in Subjects, ReportedPaid(x) PROVE ReportedPaid(x)'
  BY <1>1, ReportStays DEF PaymentInv
<1> QED
  BY <1>1 DEF ReviewsVerified, ReportedPaid, RowsOf, reviewVars

LEMMA ReviewsInvInit == ReviewsInit => ReviewsInv
<1> SUFFICES ASSUME ReviewsInit PROVE ReviewsInv
  OBVIOUS
<1>1. PaymentInv
  BY PaymentInit DEF ReviewsInit
<1>2. ReviewsTypeOK
  BY <1>1 DEF ReviewsInit, ReviewsTypeOK, PaymentInv, ReviewStatuses, ReviewTasks
<1>3. ReviewsVerified
  BY DEF ReviewsInit, ReviewsVerified, RowsOf, ReviewStatuses
<1> QED
  BY <1>1, <1>2, <1>3 DEF ReviewsInv

LEMMA ReviewsInvStep == ReviewsInv /\ [ReviewsNext]_allVars => ReviewsInv'
<1> SUFFICES ASSUME ReviewsInv, [ReviewsNext]_allVars PROVE ReviewsInv'
  OBVIOUS
<1>1. PaymentInv'
  BY PaymentStep DEF ReviewsInv, ReviewsNext, allVars
<1>2. CASE [Next]_vars /\ UNCHANGED reviewVars
  <2>1. ReviewsTypeOK'
    BY <1>1, <1>2 DEF ReviewsInv, ReviewsTypeOK, PaymentInv, reviewVars
  <2> QED
    BY <1>1, <1>2, <2>1, VerifiedKept DEF ReviewsInv
<1>3. CASE ReviewStep /\ UNCHANGED vars
  <2>1. ReviewsTypeOK'
    BY <1>1, <1>3, ReviewTypeStep DEF ReviewsInv, PaymentInv
  <2> QED
    BY <1>1, <1>3, <2>1, VerifiedStep DEF ReviewsInv
<1> QED
  BY <1>2, <1>3 DEF ReviewsNext, allVars

LEMMA ReviewsInvariance == ReviewsSpec => []ReviewsInv
BY ReviewsInvInit, ReviewsInvStep, PTL DEF ReviewsSpec, allVars

(* Orders, shipments and reviews keep their types, whatever overlaps or    *)
(* fails.                                                                  *)
THEOREM ReviewsTypeCorrect == ReviewsSpec => []ReviewsTypeOK
<1>1. ReviewsInv => ReviewsTypeOK
  BY DEF ReviewsInv
<1> QED
  BY <1>1, ReviewsInvariance, PTL

(* Every review, and every review about to be inserted, has a processed    *)
(* payment of an order with its product behind it, although createReview   *)
(* reads a status that a later webhook may take back.                      *)
THEOREM PurchasesAreVerified == ReviewsSpec => []ReviewsVerified
<1>1. ReviewsInv => ReviewsVerified
  BY DEF ReviewsInv
<1> QED
  BY <1>1, ReviewsInvariance, PTL

(* Once a product is reviewed and no request is past its first check, no   *)
(* request adds a row: only overlapping ones do.                           *)
THEOREM OneReviewUnlessOverlapping == ReviewsSpec => NoFurtherReview
<1> DEFINE Stays == \A x \in Subjects : Settled(x) => Settled(x)' /\ RowsOf(x)' = RowsOf(x)
<1>1. ReviewsInv /\ [ReviewsNext]_allVars => [Stays]_allVars
  <2> SUFFICES ASSUME ReviewsInv, [ReviewsNext]_allVars, NEW x \in Subjects, Settled(x)
               PROVE  Settled(x)' /\ RowsOf(x)' = RowsOf(x)
    OBVIOUS
  <2> USE DEF ReviewsInv, ReviewsTypeOK
  <2>1. CASE UNCHANGED reviewVars
    BY <2>1 DEF Settled, RowsOf, reviewVars
  <2>2. ASSUME NEW r \in Reviewers, NEW y \in Subjects, LookForReview(r, y)
        PROVE  Settled(x)' /\ RowsOf(x)' = RowsOf(x)
    BY <2>2 DEF LookForReview, Reviewed, Settled, RowsOf, ReviewTasks
  <2>3. ASSUME NEW r \in Reviewers, VerifyPurchase(r)
        PROVE  Settled(x)' /\ RowsOf(x)' = RowsOf(x)
    BY <2>3 DEF VerifyPurchase, Step, Settled, RowsOf, ReviewTasks
  <2>4. ASSUME NEW r \in Reviewers, InsertReview(r)
        PROVE  Settled(x)' /\ RowsOf(x)' = RowsOf(x)
    BY <2>4 DEF InsertReview, Step, Settled, RowsOf, ReviewTasks
  <2>5. ASSUME NEW r \in Reviewers, ReviewerFails(r)
        PROVE  Settled(x)' /\ RowsOf(x)' = RowsOf(x)
    BY <2>5 DEF ReviewerFails, Step, Settled, RowsOf, ReviewTasks
  <2>6. ASSUME NEW y \in Subjects, ApproveReview(y)
        PROVE  Settled(x)' /\ RowsOf(x)' = RowsOf(x)
    <3>1. RowsOf(x)' = RowsOf(x)
      BY <2>6, CountsAreNat DEF ApproveReview, RowsOf, ReviewStatuses
    <3> QED
      BY <2>6, <3>1 DEF ApproveReview, Settled
  <2> QED
    BY <2>1, <2>2, <2>3, <2>4, <2>5, <2>6 DEF ReviewsNext, ReviewStep, allVars
<1> QED
  BY <1>1, ReviewsInvariance, PTL DEF ReviewsSpec, NoFurtherReview, allVars

(* Reviews read the orders' tables and write none of them, so that the     *)
(* theorems about Fulfilment hold with reviewers at work as well.          *)
THEOREM ReviewersOnlyRead == ReviewsSpec => Spec
<1>1. ReviewsInit => Init
  BY DEF ReviewsInit
<1>2. [ReviewsNext]_allVars => [Next]_vars
  BY DEF ReviewsNext, allVars
<1> QED
  BY <1>1, <1>2, PTL DEF ReviewsSpec, Spec, allVars
=============================================================================
