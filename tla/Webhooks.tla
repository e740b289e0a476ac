------------------------------ MODULE Webhooks ------------------------------
(***************************************************************************)
(* One webhook delivery: the row (internal/store/webhook.go) and the       *)
(* senders that claim, send and finish it, first the one that created it   *)
(* and then the retry loop of every replica (internal/service/webhook.go). *)
(* Every statement names one delivery, so deliveries do not affect each    *)
(* other but through the wait for one of the 20 sending slots, which here  *)
(* may outlast a lease (HoldUp).                                           *)
(*                                                                         *)
(* A claim is a lease in next_retry and a token.  Each sender has a token  *)
(* of its own, so the token is the sender that holds the row.              *)
(***************************************************************************)
EXTENDS Integers, FiniteSets

CONSTANTS
  Senders,      \* sending goroutines of all replicas
  MaxRetries,   \* attempts before a delivery fails
  Lease,        \* claimLease, in ticks
  SendTime,     \* ticks a request lasts at most (httpTimeout)
  MaxFaults     \* bound: crashes, failed statements and waits past a lease

Nobody == "nobody"

WebhooksAssumption ==
  /\ IsFiniteSet(Senders)
  /\ Nobody \notin Senders
  /\ MaxRetries \in Nat \ {0}
  /\ SendTime \in Nat
  /\ Lease \in Nat /\ SendTime < Lease
  /\ MaxFaults \in Nat

VARIABLES
  webhook,      \* the receiver: "active", "disabled" or "gone"
  row,          \* the webhook_deliveries row
  senders,      \* what each sender is doing
  faults,       \* faults so far
  accepted,     \* history: the receiver has answered 2xx
  cutOff        \* history: a sender was lost, or stalled, before writing its result

vars == <<webhook, row, senders, faults, accepted, cutOff>>

Statuses == {"pending", "delivered", "failed"}

\* due is the time until next_retry, 0 once it has passed.
MaxDue == IF Lease > 2 ^ MaxRetries THEN Lease ELSE 2 ^ MaxRetries
RowType == [status : Statuses \cup {"none"}, attempts : 0 .. MaxRetries, due : 0 .. MaxDue,
            token : Senders \cup {Nobody}]
NoRow == [status |-> "none", attempts |-> 0, due |-> 0, token |-> Nobody]

\* A sender's copy of the row, since when it waits or sends, and whether it is
\* held up past its lease.
SenderType == [pc : {"idle", "claimed", "waiting", "sending", "finishing"}, status : Statuses,
               attempts : 0 .. MaxRetries, due : 0 .. MaxDue, age : 0 .. Lease + 1,
               heldUp : BOOLEAN]
Idle == [pc |-> "idle", status |-> "pending", attempts |-> 0, due |-> 0, age |-> 0,
         heldUp |-> FALSE]

TypeOK ==
  /\ webhook \in {"active", "disabled", "gone"}
  /\ row \in RowType
  /\ senders \in [Senders -> SenderType]
  /\ faults \in 0 .. MaxFaults
  /\ accepted \in BOOLEAN
  /\ cutOff \in BOOLEAN

Init ==
  /\ webhook = "active"
  /\ row = NoRow
  /\ senders = [s \in Senders |-> Idle]
  /\ faults = 0
  /\ accepted = FALSE
  /\ cutOff = FALSE

Ends(s) == senders' = [senders EXCEPT ![s] = Idle]
Held(s) == row.token = s

Fault ==
  /\ faults < MaxFaults
  /\ faults' = faults + 1

-----------------------------------------------------------------------------
(***************************************************************************)
(* Taking the delivery                                                     *)
(***************************************************************************)

\* DispatchWithLog, DeliverTest and Redispatch: the creator holds the row from
\* the start.
Dispatch(s) ==
  /\ webhook = "active"
  /\ row = NoRow
  /\ senders[s].pc = "idle"
  /\ row' = [status |-> "pending", attempts |-> 0, due |-> Lease, token |-> s]
  /\ senders' = [senders EXCEPT ![s].pc = "waiting"]
  /\ UNCHANGED <<webhook, faults, accepted, cutOff>>

\* ClaimPendingDeliveries: the row is due.
Due == row.status = "pending" /\ row.due = 0

Claim(s) ==
  /\ senders[s].pc = "idle"
  /\ Due
  /\ row' = [row EXCEPT !.due = Lease, !.token = s]
  /\ senders' = [senders EXCEPT ![s] = [Idle EXCEPT !.pc = "claimed", !.attempts = row.attempts]]
  /\ cutOff' = (cutOff \/ \E t \in Senders : Held(t) /\ senders[t].pc = "finishing")
  /\ UNCHANGED <<webhook, faults, accepted>>

\* MUTANT: a disabled webhook is skipped, and its delivery stays pending.
LookUp_Skips(s) ==
  /\ senders[s].pc = "claimed"
  /\ senders' = [senders EXCEPT ![s] = IF webhook = "active" THEN [@ EXCEPT !.pc = "waiting"] ELSE Idle]
  /\ UNCHANGED <<webhook, row, faults, accepted, cutOff>>

\* ProcessRetries reads the webhook: one that is gone or disabled fails its
\* delivery.
LookUp(s) ==
  /\ senders[s].pc = "claimed"
  /\ senders' = [senders EXCEPT ![s] =
       IF webhook = "active" THEN [@ EXCEPT !.pc = "waiting"]
       ELSE [@ EXCEPT !.pc = "finishing", !.status = "failed", !.age = 0]]
  /\ UNCHANGED <<webhook, row, faults, accepted, cutOff>>

\* Any other error of that read fails the delivery too.
LookUpFails(s) ==
  /\ senders[s].pc = "claimed"
  /\ Fault
  /\ senders' = [senders EXCEPT ![s].pc = "finishing", ![s].status = "failed", ![s].age = 0]
  /\ UNCHANGED <<webhook, row, accepted, cutOff>>

-----------------------------------------------------------------------------
(***************************************************************************)
(* Sending it                                                              *)
(***************************************************************************)

\* MUTANT: the claim is extended whoever holds it now.
Renewable_Unchecked(s) == row.status = "pending"

\* RenewWebhookClaim: the row is still the sender's and still pending.  The
\* lease may have run out, as long as nobody took the row over.
Renewable(s) == Held(s) /\ row.status = "pending"

\* deliver, from the slot to the request.
Renew(s) ==
  /\ senders[s].pc = "waiting"
  /\ IF Renewable(s)
     THEN /\ row' = [row EXCEPT !.due = Lease]
          /\ senders' = [senders EXCEPT ![s].pc = "sending", ![s].age = 0, ![s].heldUp = FALSE]
     ELSE /\ Ends(s)
          /\ UNCHANGED row
  /\ UNCHANGED <<webhook, faults, accepted, cutOff>>

\* scheduleRetry after attempt n: the backoff is 30s * 2^n.
Outcome(n) ==
  IF n >= MaxRetries THEN [status |-> "failed", attempts |-> n, due |-> 0]
  ELSE [status |-> "pending", attempts |-> n, due |-> 2 ^ n]

Finishing(s, out) ==
  senders' = [senders EXCEPT ![s] = [Idle EXCEPT !.pc = "finishing", !.status = out.status,
                                       !.attempts = out.attempts, !.due = out.due]]

\* The receiver answers 2xx.
Accept(s) ==
  /\ senders[s].pc = "sending"
  /\ Finishing(s, [status |-> "delivered", attempts |-> senders[s].attempts + 1, due |-> row.due])
  /\ accepted' = TRUE
  /\ UNCHANGED <<webhook, row, faults, cutOff>>

\* Another status, an error or a timeout (failDelivery).
Refuse(s) ==
  /\ senders[s].pc = "sending"
  /\ Finishing(s, Outcome(senders[s].attempts + 1))
  /\ UNCHANGED <<webhook, row, faults, accepted, cutOff>>

\* FinishWebhookDelivery is keyed by the token.
Finishable(s) == Held(s)

Finish(s) ==
  /\ senders[s].pc = "finishing"
  /\ row' = IF Finishable(s)
            THEN [status |-> senders[s].status, attempts |-> senders[s].attempts,
                  due |-> senders[s].due, token |-> Nobody]
            ELSE row
  /\ Ends(s)
  /\ UNCHANGED <<webhook, faults, accepted, cutOff>>

\* A replica stops, a renewal fails, or the result cannot be written: the row
\* is left to its lease.
Lose(s) ==
  /\ senders[s].pc # "idle"
  /\ Fault
  /\ cutOff' = TRUE
  /\ Ends(s)
  /\ UNCHANGED <<webhook, row, accepted>>

-----------------------------------------------------------------------------
(***************************************************************************)
(* The webhook, and time                                                   *)
(***************************************************************************)

SetActive ==
  /\ webhook \in {"active", "disabled"}
  /\ webhook' \in {"active", "disabled"} \ {webhook}
  /\ UNCHANGED <<row, senders, faults, accepted, cutOff>>

\* The foreign key deletes the deliveries with it.
DeleteWebhook ==
  /\ webhook # "gone"
  /\ webhook' = "gone"
  /\ row' = NoRow
  /\ UNCHANGED <<senders, faults, accepted, cutOff>>

\* A sender waits for its slot, or for the database, longer than its lease.
HoldUp(s) ==
  /\ senders[s].pc \in {"claimed", "waiting", "finishing"}
  /\ ~senders[s].heldUp
  /\ Fault
  /\ senders' = [senders EXCEPT ![s].heldUp = TRUE]
  /\ UNCHANGED <<webhook, row, accepted, cutOff>>

Limit(s) ==
  CASE senders[s].pc = "sending" -> SendTime
    [] senders[s].heldUp -> Lease + 1
    [] OTHER -> 0

Tick ==
  /\ \A s \in Senders : senders[s].pc # "idle" => senders[s].age < Limit(s)
  /\ row' = [row EXCEPT !.due = IF @ = 0 THEN 0 ELSE @ - 1]
  /\ senders' = [s \in Senders |->
       IF senders[s].pc = "idle" THEN Idle ELSE [senders[s] EXCEPT !.age = @ + 1]]
  /\ UNCHANGED <<webhook, faults, accepted, cutOff>>

Next ==
  \/ \E s \in Senders :
       \/ Dispatch(s) \/ Claim(s) \/ LookUp(s) \/ LookUpFails(s) \/ Renew(s)
       \/ Accept(s) \/ Refuse(s) \/ Finish(s) \/ Lose(s) \/ HoldUp(s)
  \/ SetActive
  \/ DeleteWebhook
  \/ Tick

\* Some replica's retry loop keeps ticking; a sender gets a slot, its request
\* ends within httpTimeout, and it writes the result.
Fairness ==
  /\ WF_vars(Tick)
  /\ WF_vars(\E s \in Senders : Claim(s))
  /\ \A s \in Senders :
       /\ WF_vars(LookUp(s))
       /\ WF_vars(Renew(s))
       /\ WF_vars(Accept(s) \/ Refuse(s))
       /\ WF_vars(Finish(s))

Spec == Init /\ [][Next]_vars /\ Fairness

-----------------------------------------------------------------------------
(***************************************************************************)
(* Properties                                                              *)
(***************************************************************************)

Sending(s) == senders[s].pc = "sending"

\* Two senders never send the same delivery at once: not when one waited for a
\* slot past its lease, nor when the creator and a retry loop both have it.
OneSender == \A s, t \in Senders : Sending(s) /\ Sending(t) => s = t

\* A delivery that was delivered or failed stays so, whatever a sender that
\* stalled past its lease still has to write; and once the receiver has
\* accepted it, it is sent again only if a sender was lost, or stalled past its
\* lease, before it could write that down.
ResendsOnlyIfCutOff ==
  /\ row.status \in {"delivered", "failed"} => row'.status \in {row.status, "none"}
  /\ \A s \in Senders : ~Sending(s) /\ Sending(s)' => ~accepted \/ cutOff

\* Every pending delivery is delivered or given up in the end, when replicas
\* stop, statements fail and senders are held up only finitely often.
Settles == row.status = "pending" ~> row.status # "pending"
=============================================================================
