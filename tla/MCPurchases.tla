---------------------------- MODULE MCPurchases ----------------------------
(***************************************************************************)
(* Purchases, for TLC: the workers are interchangeable, and one renewal is  *)
(* of another length than the others.                                       *)
(***************************************************************************)
EXTENDS Purchases, TLC

RenewalDays == [i \in Intents |-> IF i = CHOOSE j \in Intents : TRUE THEN 1 ELSE 2]

Interchangeable == Permutations(Workers)
=============================================================================
