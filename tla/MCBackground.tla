---------------------------- MODULE MCBackground ----------------------------
(***************************************************************************)
(* Background, for TLC: the plans of the product.                           *)
(***************************************************************************)
EXTENDS Background

\* The product's only plan: free, with no seat limit and two devices.
FreeOnly == {[perSeat |-> FALSE, maxSeats |-> 0, maxActivations |-> 2,
              minQuantity |-> 1, maxQuantity |-> 0, free |-> TRUE]}
=============================================================================
