----------------------------- MODULE MCReviews ------------------------------
(* The order of MCFulfilment contains one of two products.                 *)
EXTENDS Reviews, MCFulfilment

CONSTANTS bought, other

MCSubjects == {bought, other}
MCBought == [o \in Orders |-> {bought}]

MCReviewsSymmetry == MCSymmetry \cup Permutations(Reviewers)
=============================================================================
