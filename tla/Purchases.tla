----------------------------- MODULE Purchases -----------------------------
(***************************************************************************)
(* Purchases made on a licence and taken back: upgrades, and renewals of    *)
(* the update period.  They share no state here, so a behaviour is one of   *)
(* them, the part chosen at the start, and the other stays as it begins.    *)
(***************************************************************************)
EXTENDS Upgrades

\* Renewals (see there), by the same workers.
CONSTANTS Intents, Life, Days, PlanDays, Ends, MaxTime, MaxEdits

VARIABLES part, now, renewed, ledger, early, payments, handled, renewers, editor, edits, bought

renewalVars == <<now, renewed, ledger, early, payments, handled, renewers, editor, edits, bought>>

Renewals == INSTANCE Renewals WITH lic <- renewed, stripe <- payments, workers <- renewers

ASSUME PurchasesAssumption == Renewals!RenewalsAssumption

-----------------------------------------------------------------------------
PurchasesInit == part \in {"upgrades", "renewals"} /\ Init /\ Renewals!Init

UpgradesNext == part = "upgrades" /\ Next /\ UNCHANGED <<part, renewalVars>>
RenewalsNext == part = "renewals" /\ Renewals!Next /\ UNCHANGED <<part, vars>>

PurchasesNext == UpgradesNext \/ RenewalsNext

Purchases == PurchasesInit /\ [][PurchasesNext]_<<part, vars, renewalVars>>

-----------------------------------------------------------------------------
\* Refunded renewals leave the update period as if they had never been
\* bought, also those refunded before they were applied (Renewals).
EndAsIfNeverBought ==
  part = "renewals" => Renewals!TypeOK /\ Renewals!EndAsIfNeverBought /\ Renewals!RefundNotLost
=============================================================================
