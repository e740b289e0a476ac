------------------------------ MODULE Delivery ------------------------------
(***************************************************************************)
(* What customers download: the releases of a product, and the gate on its  *)
(* feeds.  They share no state here, so a behaviour is one of them, the     *)
(* part chosen at the start, and the other stays as it begins.              *)
(***************************************************************************)
EXTENDS Releases

CONSTANT LinkLife

VARIABLES part, product, live, shipped, period, request, usable, admins, late, misjudged

feedVars == <<product, live, shipped, period, request, usable, admins, late, misjudged>>

Feeds == INSTANCE Feeds WITH Admins <- Workers

ASSUME DeliveryAssumption == Feeds!FeedsAssumption

-----------------------------------------------------------------------------
DeliveryInit ==
  /\ Init /\ Feeds!Init
  /\ \/ part = "releases"
     \/ part = "feeds" /\ rel = "none" /\ require

ReleasesNext == part = "releases" /\ Next /\ UNCHANGED <<part, feedVars>>
FeedsNext == part = "feeds" /\ Feeds!Next /\ UNCHANGED <<part, vars>>

DeliveryNext == ReleasesNext \/ FeedsNext

Delivery == DeliveryInit /\ [][DeliveryNext]_<<part, vars, feedVars>>

-----------------------------------------------------------------------------
\* Nothing a public feed handed out gets round an update period (Feeds).
PeriodsAreEnforced == part = "feeds" => Feeds!TypeOK /\ Feeds!PeriodsAreEnforced
=============================================================================
