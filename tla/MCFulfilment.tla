---------------------------- MODULE MCFulfilment ----------------------------
(* One order, two events that report its payment and one that denies it.   *)
EXTENDS Fulfilment, TLC

MCEvents == {"paid", "paid again", "failed"}
MCOrderOf == [e \in MCEvents |-> CHOOSE o \in Orders : TRUE]
MCTypeOf == [e \in MCEvents |->
                IF e = "failed" THEN "payment.failed" ELSE "payment.succeeded"]

MCSymmetry == Permutations(Handlers) \cup Permutations(Clerks) \cup Permutations(Polls)
=============================================================================
