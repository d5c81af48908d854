----------------------------- MODULE MCCheckout -----------------------------
(***************************************************************************)
(* Small instances of Checkout for TLC.                                    *)
(***************************************************************************)
EXTENDS Checkout, FiniteSets, TLC

(* Requests and users are interchangeable: nothing orders them.            *)
Symmetry == Permutations(Orders) \cup Permutations(Users)

MCBaskets == {<<1>>, <<2>>}
MCProducts == {1}
MCStartingStock == {<<3>>}
MCDeltas == {-1}
MCNoDeltas == {}
=============================================================================
