----------------------------- MODULE MCDelivery -----------------------------
(***************************************************************************)
(* Delivery, for TLC: requests of administrators are interchangeable, and   *)
(* so are platforms.                                                        *)
(***************************************************************************)
EXTENDS Delivery, TLC

Interchangeable == Permutations(Workers) \cup Permutations(Platforms)
=============================================================================
