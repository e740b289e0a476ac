------------------------------ MODULE Standing ------------------------------
(***************************************************************************)
(* What a customer, a seller and Stripe may rely on about a licence that a *)
(* subscription bills: who may move it where.  Billing moves it between    *)
(* working, paused and ended, but an operator's hold is the operator's to  *)
(* lift, a revocation is nobody's, and a subscription known to be over     *)
(* never gives the licence back.  What only an operator may do is counted, *)
(* so that no step of billing's can pass for it.  Subscription.tla         *)
(* implements it.                                                          *)
(***************************************************************************)

EXTENDS Naturals

VARIABLES
  standing,     \* where the licence stands
  over,         \* its subscription is known to be over for good
  restores      \* how often an operator gave the licence back

vars == <<standing, over, restores>>

Held == {"held", "revoked"}
TypeOK ==
  /\ standing \in {"working", "paused", "lapsed", "ended"} \cup Held
  /\ over \in BOOLEAN
  /\ restores \in Nat

Init == standing = "working" /\ over = FALSE /\ restores = 0

\* Billing follows the subscription: paid, paused, unpaid.
Bill ==
  /\ standing \notin Held
  /\ standing' \in {"working", "paused", "ended"}
  /\ over => standing' = "ended"
  /\ UNCHANGED <<over, restores>>

\* The subscription is over.
End ==
  /\ standing' = IF standing \in Held THEN standing ELSE "ended"
  /\ over' = TRUE
  /\ UNCHANGED restores

\* Its date or its dunning ran out.
Lapse ==
  /\ standing = "working"
  /\ standing' = "lapsed"
  /\ UNCHANGED <<over, restores>>

Hold ==
  /\ standing = "working"
  /\ standing' = "held"
  /\ UNCHANGED <<over, restores>>

Revoke == standing' = "revoked" /\ UNCHANGED <<over, restores>>

\* An operator gives the licence back, whatever took it, but a revocation:
\* nothing else makes a held licence work, nor one whose subscription is over.
Restore ==
  /\ standing \notin {"working", "revoked"}
  /\ standing' = "working"
  /\ over' = FALSE
  /\ restores' = restores + 1

Next == Bill \/ End \/ Lapse \/ Hold \/ Revoke \/ Restore

Spec == Init /\ [][Next]_vars
=============================================================================
