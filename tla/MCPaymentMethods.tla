-------------------------- MODULE MCPaymentMethods --------------------------
(***************************************************************************)
(* Instances of PaymentMethods for TLC.                                    *)
(***************************************************************************)
EXTENDS PaymentMethods, TLC

Symmetry == Permutations(Handlers) \cup Permutations(Cards) \cup Permutations(Customers)
=============================================================================
