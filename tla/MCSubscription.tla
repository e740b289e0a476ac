--------------------------- MODULE MCSubscription ---------------------------
(***************************************************************************)
(* Subscription.tla for TLC: the workers are interchangeable, and what is  *)
(* checked are invariants and step properties, so symmetry is sound.       *)
(***************************************************************************)
EXTENDS Subscription, TLC

Interchangeable == Permutations(Workers)
=============================================================================
