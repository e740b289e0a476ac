----------------------------- MODULE Background -----------------------------
(***************************************************************************)
(* Work that goes on behind the requests: metered billing, webhook          *)
(* deliveries, and the hourly sweep that clears what an older replica left  *)
(* on a team's seats.  They share no state, so a behaviour is one of them,  *)
(* the part chosen at the start, and the others stay as they begin.         *)
(***************************************************************************)
EXTENDS Team, Sequences

CONSTANTS
  \* Metering
  Passes, MaxCalls, Batch, MaxAttempts, FailuresEndPass, MaxMeteringFaults,
  \* Webhooks
  Senders, MaxRetries, Lease, SendTime, MaxWebhookFaults

VARIABLES
  part,
  metered, rows, passes, lock, billed, late, faults,
  webhook, row, senders, webhookFaults, accepted, cutOff

Metering == INSTANCE Metering WITH MaxFaults <- MaxMeteringFaults
Webhooks == INSTANCE Webhooks WITH MaxFaults <- MaxWebhookFaults, faults <- webhookFaults

ASSUME BackgroundAssumption == Metering!MeteringAssumption /\ Webhooks!WebhooksAssumption

meteringVars == <<metered, rows, passes, lock, billed, late, faults>>
webhookVars == <<webhook, row, senders, webhookFaults, accepted, cutOff>>

-----------------------------------------------------------------------------
BackgroundInit ==
  /\ part \in {"metering", "webhooks", "seats"}
  /\ Init /\ Metering!Init /\ Webhooks!Init
  /\ part = "seats" \/ \A d \in DOMAIN acts : ~acts[d].held

MeteringNext == part = "metering" /\ Metering!Next /\ UNCHANGED <<part, vars, webhookVars>>
WebhooksNext == part = "webhooks" /\ Webhooks!Next /\ UNCHANGED <<part, vars, meteringVars>>
SeatsNext == part = "seats" /\ Next /\ UNCHANGED <<part, meteringVars, webhookVars>>

\* Billing and the team may come to rest; a delivery may not, so deadlock is
\* checked for it.
Rests == part # "webhooks" /\ UNCHANGED <<part, vars, meteringVars, webhookVars>>

BackgroundNext == MeteringNext \/ WebhooksNext \/ SeatsNext \/ Rests

\* The fairness of each module, for the part it is about.
MeteringFairness ==
  /\ \A p \in Passes : WF_meteringVars(part = "metering" /\ Metering!PassStep(p))
  /\ WF_meteringVars(part = "metering" /\ \E p \in Passes : Metering!TryMeteredSyncLock(p))

WebhooksFairness ==
  /\ WF_webhookVars(part = "webhooks" /\ Webhooks!Tick)
  /\ WF_webhookVars(part = "webhooks" /\ \E s \in Senders : Webhooks!Claim(s))
  /\ \A s \in Senders :
       /\ WF_webhookVars(part = "webhooks" /\ Webhooks!LookUp(s))
       /\ WF_webhookVars(part = "webhooks" /\ Webhooks!Renew(s))
       /\ WF_webhookVars(part = "webhooks" /\ (Webhooks!Accept(s) \/ Webhooks!Refuse(s)))
       /\ WF_webhookVars(part = "webhooks" /\ Webhooks!Finish(s))

\* The hourly sweep goes on running (ExpiryChecker's loop).
SeatsFairness == \A e \in Members : WF_vars(part = "seats" /\ ClearSeatLeftovers(e))

Background ==
  /\ BackgroundInit /\ [][BackgroundNext]_<<part, vars, meteringVars, webhookVars>>
  /\ MeteringFairness /\ WebhooksFairness /\ SeatsFairness

-----------------------------------------------------------------------------
\* What is recorded as sent, Stripe bills, and bills once (Metering).
BilledOnce == Metering!BilledOnce

\* Every queued row is sent, drained or out of attempts in the end (Metering).
UsageSettles == \A n \in Metering!Calls : Len(rows) >= n ~> (Len(rows) >= n /\ Metering!Settled(n))

\* A webhook delivery is sent by one sender at a time and stays delivered or
\* failed, and only a sender that was cut off has it sent again (Webhooks).
ResentOnlyIfCutOff ==
  [][part = "webhooks" => (Webhooks!TypeOK /\ Webhooks!OneSender)' /\ Webhooks!ResendsOnlyIfCutOff]_<<part, webhookVars>>

\* Every pending delivery is delivered or given up in the end (Webhooks).
Settles == part = "webhooks" /\ row.status = "pending" ~> row.status # "pending"

\* What an older replica leaves on a seat it took off the team is cleared in
\* the end, unless the member is back on the team first (Team).
LeftoversCleared ==
  \A e \in Members :
    part = "seats" /\ OffTeam(e) /\ HoldsAnything(e) ~> ~(OffTeam(e) /\ HoldsAnything(e))
=============================================================================
