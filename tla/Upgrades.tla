------------------------------ MODULE Upgrades ------------------------------
(***************************************************************************)
(* Upgrade checkouts (payment/upgrade.go, store/upgrades.go): a licence on *)
(* a free plan is moved to a paid one by a Stripe checkout, and put back   *)
(* when the payment is refunded or the subscription ends.  Each checkout   *)
(* is a row of license_upgrades.  Requests and webhooks read the row and   *)
(* Stripe, call Stripe, and only then open the transaction that writes, so *)
(* a refund, the end of the subscription and the fulfilment overtake one   *)
(* another.  A transaction is one step: it locks the upgrade row and the   *)
(* licence.  The fulfilment claim is left out (Fulfilment models it): any  *)
(* caller may hold it, as one whose claim went stale may.                  *)
(***************************************************************************)
EXTENDS Naturals, FiniteSets

CONSTANTS
  Sessions,     \* upgrade checkouts of the one licence
  Subs,         \* those that sell a subscription; the others a one-time purchase
  Workers       \* requests, webhook handlers and sweep passes under way

None == "none"

ASSUME SubsAssumption == Subs \subseteq Sessions /\ Sessions # {} /\ None \notin Sessions

VARIABLES
  lic,          \* the licence: plan, status, the checkout it is billed by
  plans,        \* of the free and the paid plan, those not deleted
  up,           \* session -> its license_upgrades row
  stripe,       \* session -> checkout, refund and subscription as Stripe has them
  events,       \* webhooks Stripe delivers until one is answered without error
  answered,     \* history: recorded upgrades whose refund was answered without error
  unrecorded,   \* history: checkouts left open without a row
  workers

vars == <<lic, plans, up, stripe, events, answered, unrecorded, workers>>

Linked == Sessions \cup {None}

LicType == [plan : {"free", "paid"},
            status : {"active",          \* and trialing and past_due
                      "lapsed",          \* expired or canceled, alike in all that is read here
                      "suspended", "revoked"},
            link : Linked]
RowType == [state : {"none", "pending", "expired", "applied", "reverted", "refunded", "void"},
            from : {"active", "lapsed"}]
StripeType == [checkout : {"none", "open", "processing", "paid", "failed", "expired"},
               refunded : BOOLEAN, sub : {"none", "live", "past_due", "unpaid", "ended"}]
EventType == [kind : {"refund", "ended", "unpaid", "failed"}, s : Sessions]
Jobs == {"start", "fulfil", "refund", "ended", "unpaid", "failed", "sweep", "admin"}
WorkerType ==
  [pc : {"idle", "open", "record", "apply", "cancel", "close", "revert", "finish",
         "unpaid", "unbill"},
   job : Jobs, s : Sessions,
   saw : {"none", "stands", "refunded", "void"}]     \* what Stripe said of the payment

Idle == [pc |-> "idle", job |-> "start", s |-> CHOOSE s \in Sessions : TRUE, saw |-> "none"]

TypeOK ==
  /\ lic \in LicType /\ plans \subseteq {"free", "paid"}
  /\ up \in [Sessions -> RowType]
  /\ stripe \in [Sessions -> StripeType]
  /\ events \subseteq EventType /\ answered \subseteq Sessions /\ unrecorded \subseteq Sessions
  /\ workers \in [Workers -> WorkerType]

Init ==
  /\ lic = [plan |-> "free", status |-> "active", link |-> None]
  /\ plans = {"free", "paid"}
  /\ up = [s \in Sessions |-> [state |-> "none", from |-> "active"]]
  /\ stripe = [s \in Sessions |-> [checkout |-> "none", refunded |-> FALSE, sub |-> "none"]]
  /\ events = {} /\ answered = {} /\ unrecorded = {}
  /\ workers = [w \in Workers |-> Idle]

-----------------------------------------------------------------------------
(* Rows, and steps of a worker.                                            *)

At(w, pc) == workers[w].pc = pc
On(w) == workers[w].s
Goto(w, pc) == workers' = [workers EXCEPT ![w].pc = pc]
Done(w) == workers' = [workers EXCEPT ![w] = Idle]
Begin(w, job, s, pc) ==
  /\ At(w, "idle")
  /\ workers' = [workers EXCEPT ![w] = [Idle EXCEPT !.pc = pc, !.job = job, !.s = s]]

Unsettled == {"pending", "expired"}          \* an upgrade that may still apply
Pending == {s \in Sessions : up[s].state = "pending"}
\* Closed: the status to go back to is not read again, and forgotten here.
EndUpgrade(s, state) == up' = [up EXCEPT ![s] = [state |-> state, from |-> "active"]]

\* Handled, the webhook is answered; or that could not be recorded, and
\* Stripe delivers it again.
Answer(kind, s) ==
  \/ /\ events' = events \ {[kind |-> kind, s |-> s]}
     /\ answered' = IF kind = "refund" /\ up[s].state # "none" THEN answered \cup {s} ELSE answered
  \/ UNCHANGED <<events, answered>>

Finish(w) == Answer(workers[w].job, On(w)) /\ Done(w)

\* A webhook that waits, and a worker free to handle it.
Delivered(w, kind, s) == At(w, "idle") /\ [kind |-> kind, s |-> s] \in events

\* StartUpgrade holds the licence's upgrade lock and its pending rows.
Starting == {w \in Workers : workers[w].job = "start" /\ ~At(w, "idle")}
RowFree(s) == up[s].state = "pending" => Starting = {}

Held == lic.status \in {"suspended", "revoked"}

Upgradeable ==
  /\ lic.plan = "free" /\ "free" \in plans
  /\ lic.link = None
  /\ lic.status \in {"active", "lapsed"}

-----------------------------------------------------------------------------
(* Stripe and its customer (external).                                     *)

StripeTo(s, r) == stripe' = [stripe EXCEPT ![s] = r]
Notify(kind, s) == events' = events \cup {[kind |-> kind, s |-> s]}

\* The customer has the checkout's address once StartUpgrade has answered.
Shown(s) == \A w \in Starting : On(w) # s

Pay(s) ==
  /\ stripe[s].checkout \in {"open", "processing"} /\ Shown(s)
  /\ StripeTo(s, [stripe[s] EXCEPT !.checkout = "paid", !.sub = IF s \in Subs THEN "live" ELSE "none"])
  /\ UNCHANGED <<lic, plans, up, events, answered, workers, unrecorded>>

\* A delayed payment: the checkout is complete, its money is not there yet.
PayLater(s) ==
  /\ stripe[s].checkout = "open" /\ Shown(s)
  /\ StripeTo(s, [stripe[s] EXCEPT !.checkout = "processing", !.sub = IF s \in Subs THEN "unpaid" ELSE "none"])
  /\ UNCHANGED <<lic, plans, up, events, answered, workers, unrecorded>>

PaymentFails(s) ==
  /\ stripe[s].checkout = "processing"
  /\ StripeTo(s, [stripe[s] EXCEPT !.checkout = "failed"])
  /\ Notify("failed", s)
  /\ UNCHANGED <<lic, plans, up, answered, workers, unrecorded>>

CheckoutLapses(s) ==
  /\ stripe[s].checkout = "open"
  /\ StripeTo(s, [stripe[s] EXCEPT !.checkout = "expired"])
  /\ UNCHANGED <<lic, plans, up, events, answered, workers, unrecorded>>

\* A full refund, or a lost dispute, of what the checkout's period paid.
Refund(s) ==
  /\ stripe[s].checkout = "paid" /\ ~stripe[s].refunded
  /\ StripeTo(s, [stripe[s] EXCEPT !.refunded = TRUE])
  /\ Notify("refund", s)
  /\ UNCHANGED <<lic, plans, up, answered, workers, unrecorded>>

\* An invoice goes unpaid: the subscription is past due, then unpaid (or
\* ended, as the account is set up), and live again once it is paid.
SubscriptionMoves(s) ==
  LET to(sub) == StripeTo(s, [stripe[s] EXCEPT !.sub = sub]) IN
  /\ stripe[s].checkout = "paid"
  /\ \/ stripe[s].sub = "live" /\ to("past_due") /\ UNCHANGED events
     \/ stripe[s].sub = "past_due" /\ to("unpaid") /\ Notify("unpaid", s)
     \/ stripe[s].sub \in {"past_due", "unpaid"} /\ to("live") /\ UNCHANGED events
     \/ stripe[s].sub \in {"live", "past_due", "unpaid"} /\ to("ended") /\ Notify("ended", s)
  /\ UNCHANGED <<lic, plans, up, answered, workers, unrecorded>>

-----------------------------------------------------------------------------
(* StartUpgrade: under the lock, the licence is read again, checkouts      *)
(* still open are expired in Stripe, a new one is made and recorded.       *)

StartUpgrade(w, s) ==
  /\ stripe[s].checkout = "none" /\ up[s].state = "none"
  /\ Starting = {}
  /\ Upgradeable /\ "paid" \in plans
  /\ Begin(w, "start", s, "open")
  /\ UNCHANGED <<lic, plans, up, stripe, events, answered, unrecorded>>

\* MUTANT: a completed checkout is taken for one that is over.
StillPaying_Never(s) == FALSE

\* expireCheckout's errUpgradeInProgress: completed, so its payment is on its way.
StillPaying(s) == stripe[s].checkout \in {"processing", "paid", "failed"}

OpenCheckout(w) ==
  /\ At(w, "open")
  /\ \/ /\ \E s \in Pending : StillPaying(s)
        /\ Done(w) /\ UNCHANGED stripe
     \/ /\ \A s \in Pending : ~StillPaying(s)
        /\ stripe' = [s \in Sessions |->
                       IF s = On(w) THEN [stripe[s] EXCEPT !.checkout = "open"]
                       ELSE IF s \in Pending /\ stripe[s].checkout = "open" THEN [stripe[s] EXCEPT !.checkout = "expired"]
                       ELSE stripe[s]]
        /\ Goto(w, "record")
  /\ UNCHANGED <<lic, plans, up, events, answered, unrecorded>>

\* The row refers to the plan, so that one deleted meanwhile refuses it.
RecordUpgrade(w) ==
  /\ At(w, "record") /\ "paid" \in plans
  /\ up' = [s \in Sessions |-> IF s = On(w) THEN [up[s] EXCEPT !.state = "pending"]
                               ELSE IF s \in Pending THEN [up[s] EXCEPT !.state = "expired"] ELSE up[s]]
  /\ Done(w)
  /\ UNCHANGED <<lic, plans, stripe, events, answered, unrecorded>>

\* Not recorded (or the server stopped): nothing is written, and a checkout
\* that could not be closed again stays open.
NotRecorded(w) ==
  /\ At(w, "record")
  /\ \/ /\ UNCHANGED stripe
        /\ unrecorded' = unrecorded \cup {On(w)}
     \/ /\ StripeTo(On(w), [stripe[On(w)] EXCEPT !.checkout = "expired"])
        /\ UNCHANGED unrecorded
  /\ Done(w)
  /\ UNCHANGED <<lic, plans, up, events, answered>>

-----------------------------------------------------------------------------
(* fulfillUpgrade, from the webhook, the success page and the sync.        *)

\* A paid session whose upgrade is not over.  Nothing is locked or written
\* before Stripe is asked, so that the two are one step.
Fulfillable(s) == stripe[s].checkout = "paid" /\ up[s].state \in Unsettled \cup {"none"}

\* One past due still stands.  An unpaid one is not over: it is cancelled before the upgrade is void.
UpgradeStillPaid(w, s) ==
  LET saw(x) == workers' = [workers EXCEPT ![w] = [pc |-> "apply", job |-> "fulfil", s |-> s, saw |-> x]] IN
  /\ At(w, "idle") /\ Fulfillable(s)
  /\ \/ s \in Subs /\ stripe[s].sub \in {"live", "past_due"} /\ saw("stands") /\ UNCHANGED <<stripe, events>>
     \/ s \in Subs /\ stripe[s].sub = "ended" /\ saw("void") /\ UNCHANGED <<stripe, events>>
     \/ /\ s \in Subs /\ stripe[s].sub = "unpaid" /\ saw("void")
        /\ StripeTo(s, [stripe[s] EXCEPT !.sub = "ended"]) /\ Notify("ended", s)
     \/ s \notin Subs /\ stripe[s].refunded /\ saw("refunded") /\ UNCHANGED <<stripe, events>>
     \/ s \notin Subs /\ ~stripe[s].refunded /\ saw("stands") /\ UNCHANGED <<stripe, events>>
  /\ UNCHANGED <<lic, plans, up, answered, unrecorded>>

\* MUTANT: the row is not looked at again under its lock.
MayApply_Unread(s) == TRUE

\* What the locked row allows: an upgrade closed meanwhile never applies.
MayApply(s) == up[s].state \in Unsettled \cup {"none"}

ApplyUpgrade(w) ==
  LET s == On(w) IN
  /\ At(w, "apply") /\ RowFree(s)
  /\ \/ ~MayApply(s) /\ UNCHANGED <<lic, up>>                                \* errUpgradeClosed
     \/ MayApply(s) /\ workers[w].saw # "stands" /\ EndUpgrade(s, workers[w].saw) /\ UNCHANGED lic
     \/ MayApply(s) /\ workers[w].saw = "stands" /\ ~(Upgradeable /\ "paid" \in plans) /\ UNCHANGED <<lic, up>>
     \/ /\ MayApply(s) /\ workers[w].saw = "stands" /\ Upgradeable /\ "paid" \in plans
        /\ up' = [up EXCEPT ![s] = [state |-> "applied", from |-> lic.status]]
        /\ lic' = [plan |-> "paid", status |-> "active", link |-> s]
  /\ Done(w)
  /\ UNCHANGED <<plans, stripe, events, answered, unrecorded>>

-----------------------------------------------------------------------------
(* Webhooks.  A refund reads the row, cancels the subscription, and closes *)
(* or reverts the upgrade; the end of a subscription reverts it.           *)

\* No row: the purchase path, which finds no licence by this payment.
FindRefunded(w, s) ==
  /\ Delivered(w, "refund", s)
  /\ \/ /\ up[s].state \in Unsettled \cup {"applied"}
        /\ Begin(w, "refund", s, "cancel") /\ UNCHANGED <<events, answered>>
     \/ up[s].state \in {"none", "refunded", "void"} /\ Answer("refund", s) /\ UNCHANGED workers
     \* reverted, its free plan gone: the purchase path revokes, if it has not
     \/ up[s].state = "reverted" /\ lic.link = s /\ Begin(w, "refund", s, "finish") /\ UNCHANGED <<events, answered>>
     \/ up[s].state = "reverted" /\ lic.link # s /\ Answer("refund", s) /\ UNCHANGED workers
  /\ UNCHANGED <<lic, plans, up, stripe, unrecorded>>

\* endSubscriptionUpgrade: only an applied upgrade of this subscription.
\* An unpaid one (and one a sweep or an admin ends) is cancelled first.
FindEnded(w, s) ==
  \E kind \in {"ended", "unpaid"} :
    /\ Delivered(w, kind, s)
    /\ \/ lic.link # s /\ Answer(kind, s) /\ UNCHANGED workers           \* not one of ours
       \/ /\ lic.link = s /\ UNCHANGED <<events, answered>>
          /\ Begin(w, kind, s, IF up[s].state # "applied" THEN "finish"
                               ELSE IF kind = "ended" THEN "revert" ELSE "cancel")
    /\ UNCHANGED <<lic, plans, up, stripe, unrecorded>>

Billing(s) == stripe[s].sub \in {"live", "past_due", "unpaid"}
Cancelled(s) == IF Billing(s) THEN [stripe[s] EXCEPT !.sub = "ended"] ELSE stripe[s]

CancelSubscription(w) ==
  LET s == On(w) IN
  /\ At(w, "cancel")
  /\ StripeTo(s, Cancelled(s))
  /\ events' = IF Billing(s) THEN events \cup {[kind |-> "ended", s |-> s]} ELSE events
  /\ Goto(w, CASE workers[w].job = "refund" -> "close"
               [] workers[w].job = "admin" /\ workers[w].saw = "none" -> "finish"
               [] OTHER -> "revert")
  /\ UNCHANGED <<lic, plans, up, answered, unrecorded>>

\* The refund of an upgrade not applied yet; one applied meanwhile is reverted.
CloseRefunded(w) ==
  LET s == On(w) IN
  /\ At(w, "close") /\ RowFree(s)
  /\ \/ up[s].state \in Unsettled /\ EndUpgrade(s, "refunded") /\ Finish(w)
     \/ up[s].state \notin Unsettled /\ Goto(w, "revert") /\ UNCHANGED <<up, events, answered>>
  /\ UNCHANGED <<lic, plans, stripe, unrecorded>>

\* RevertLicenseUpgradeIn.  A licence another payment bills, or one whose free
\* plan was deleted, stays as it is; the upgrade is closed either way.
Reverted(s) ==
  [plan |-> "free", status |-> IF Held THEN lic.status ELSE up[s].from, link |-> None]

RevertUpgrade(w) ==
  LET s == On(w) IN
  /\ At(w, "revert")
  /\ \/ up[s].state # "applied" /\ UNCHANGED <<lic, up>> /\ Finish(w)
     \/ /\ up[s].state = "applied" /\ EndUpgrade(s, "reverted")
        /\ \/ lic.link # s /\ UNCHANGED lic /\ Finish(w)
           \/ lic.link = s /\ "free" \in plans /\ lic' = Reverted(s) /\ Finish(w)
           \/ lic.link = s /\ "free" \notin plans /\ UNCHANGED lic /\ Goto(w, "finish") /\ UNCHANGED <<events, answered>>
  /\ UNCHANGED <<plans, stripe, unrecorded>>

\* Nothing to go back to: a refund and an admin's cancel revoke, an ended
\* subscription cancels, a sweep expires.
EndStatus(job) == IF job \in {"refund", "admin"} THEN "revoked" ELSE "lapsed"

FinishEnded(w) ==
  /\ At(w, "finish")
  /\ lic' = IF lic.link = On(w) /\ lic.status # "revoked" /\ (workers[w].job = "sweep" => lic.status = "active")
            THEN [lic EXCEPT !.status = EndStatus(workers[w].job)] ELSE lic
  /\ Finish(w)
  /\ UNCHANGED <<plans, up, stripe, unrecorded>>

\* A checkout whose delayed payment failed: its upgrade is void, and its
\* subscription cancelled unless a licence follows it.
CloseFailedUpgrade(w, s) ==
  /\ Delivered(w, "failed", s) /\ RowFree(s)
  /\ up' = IF up[s].state \in Unsettled THEN [up EXCEPT ![s].state = "void"] ELSE up
  /\ Begin(w, "failed", s, "unpaid")
  /\ UNCHANGED <<lic, plans, stripe, events, answered, unrecorded>>

\* Keygate's own, by a plan it still has, and followed by no licence.
FindUnpaid(w) ==
  LET s == On(w) IN
  /\ At(w, "unpaid")
  /\ IF lic.link = s \/ "paid" \notin plans THEN Finish(w) ELSE Goto(w, "unbill") /\ UNCHANGED <<events, answered>>
  /\ UNCHANGED <<lic, plans, up, stripe, unrecorded>>

CancelUnpaid(w) ==
  /\ At(w, "unbill")
  /\ StripeTo(On(w), Cancelled(On(w)))
  /\ Finish(w)
  /\ UNCHANGED <<lic, plans, up, unrecorded>>

-----------------------------------------------------------------------------
(* The expiry sweeps and an operator.                                      *)

\* A licence past due for long, or past its grace.  endLapsedUpgrade ends
\* its upgrade with the subscription, unless Stripe has that as active (past
\* due is not): asked first, a live one is only synced.  Without an upgrade
\* it expires, and Stripe is not asked.
Sweep(w) ==
  LET s == lic.link IN
  /\ s \in Subs /\ lic.status = "active"
  /\ up[s].state = "applied" => stripe[s].sub # "live"
  /\ Begin(w, "sweep", s, IF up[s].state = "applied" THEN "cancel" ELSE "finish")
  /\ UNCHANGED <<lic, plans, up, stripe, events, answered, unrecorded>>

\* CancelForAdmin: an upgraded licence goes back to its free plan, any other
\* on a subscription is revoked once that is cancelled.
CancelForAdmin(w) ==
  LET s == lic.link IN
  /\ s \in Subs /\ lic.status # "revoked" /\ At(w, "idle")
  /\ workers' = [workers EXCEPT ![w] = [pc |-> "cancel", job |-> "admin", s |-> s,
                                        saw |-> IF up[s].state = "applied" THEN "stands" ELSE "none"]]
  /\ UNCHANGED <<lic, plans, up, stripe, events, answered, unrecorded>>

SetStatus(from, to) ==
  /\ lic.status \in from
  /\ lic' = [lic EXCEPT !.status = to]
  /\ UNCHANGED <<plans, up, stripe, events, answered, workers, unrecorded>>

\* A free plan's licence reaches its end date (grace over, expireLicenseWhere).
FreeLicenseLapses == lic.link = None /\ SetStatus({"active"}, "lapsed")

\* An operator holds the licence, gives it back (with a new expiry date
\* where the old one passed), or ends it.
SuspendLicense == SetStatus({"active"}, "suspended")
ReinstateLicense == SetStatus({"suspended", "lapsed"}, "active")
RevokeLicense == SetStatus({"active", "lapsed", "suspended"}, "revoked")

\* UnlinkStripeSubscription, allowed once Stripe says the subscription ended.
UnlinkSubscription ==
  /\ lic.link \in Subs /\ stripe[lic.link].sub = "ended"
  /\ lic' = [lic EXCEPT !.link = None]
  /\ UNCHANGED <<plans, up, stripe, events, answered, workers, unrecorded>>

\* A plan no licence is on may be deleted.
DeletePlan(p) ==
  /\ p \in plans /\ lic.plan # p
  /\ plans' = plans \ {p}
  /\ UNCHANGED <<lic, up, stripe, events, answered, workers, unrecorded>>

-----------------------------------------------------------------------------
\* The handler fails, or the server stops, between two of its steps: Stripe
\* delivers the webhook again, the sync and the sweep come round again.
Fail(w) ==
  /\ ~At(w, "idle") /\ ~At(w, "record")
  /\ Done(w)
  /\ UNCHANGED <<lic, plans, up, stripe, events, answered, unrecorded>>

Step(w) ==
  \/ OpenCheckout(w) \/ RecordUpgrade(w) \/ NotRecorded(w) \/ ApplyUpgrade(w)
  \/ CancelSubscription(w) \/ CloseRefunded(w) \/ RevertUpgrade(w) \/ FinishEnded(w) \/ FindUnpaid(w) \/ CancelUnpaid(w)

Next ==
  \/ \E s \in Sessions : \/ Pay(s) \/ PayLater(s) \/ PaymentFails(s) \/ CheckoutLapses(s)
                         \/ Refund(s) \/ SubscriptionMoves(s)
  \/ \E w \in Workers, s \in Sessions : \/ StartUpgrade(w, s) \/ UpgradeStillPaid(w, s)
                                        \/ FindRefunded(w, s) \/ FindEnded(w, s) \/ CloseFailedUpgrade(w, s)
  \/ \E w \in Workers : Step(w) \/ Sweep(w) \/ CancelForAdmin(w) \/ Fail(w)
  \/ FreeLicenseLapses \/ SuspendLicense \/ ReinstateLicense \/ RevokeLicense \/ UnlinkSubscription
  \/ \E p \in {"free", "paid"} : DeletePlan(p)

Spec == Init /\ [][Next]_vars

-----------------------------------------------------------------------------
\* A refund answered without error ends what it paid for: whether it came
\* before, during or after the fulfilment, and however often, the licence is
\* not on the paid plan by that checkout any more (refundUpgrade,
\* fulfillUpgrade).  A checkout whose row was never written is not found by
\* its refund, and is left out; with the free plan deleted the licence has
\* nowhere to go and is ended where it is (FinishEnded).  And once an upgrade
\* is closed and nothing for it is under way, Stripe bills no subscription for
\* it: every path cancels before it closes (cancelSubscription in
\* refundUpgrade, endSubscriptionUpgrade, upgradeStillPaid).  Only the
\* subscription of a checkout whose payment failed is left alone once the
\* plan that says it is Keygate's was deleted (FindUnpaid).
UnderWay(s) == (\E e \in events : e.s = s) \/ (\E w \in Workers : ~At(w, "idle") /\ On(w) = s)
Closed(s) == up[s].state \in {"reverted", "refunded", "void"}
RefundEndsUpgrade ==
  /\ \A s \in answered : "free" \in plans => lic.link # s
  /\ \A s \in Subs : Closed(s) /\ ~UnderWay(s) =>
       \/ stripe[s].sub \in {"none", "ended"}
       \/ stripe[s].checkout = "failed" /\ "paid" \notin plans

\* The licence is never owed two upgrades at once: two paid checkouts would
\* leave the second subscription billing with nothing to apply it to
\* (StartUpgrade's expiry of the checkouts before it).  Nothing replaces a
\* checkout that was not recorded.
Owed(s) == /\ up[s].state \in {"pending", "expired", "applied"}
           /\ stripe[s].checkout = "paid" /\ ~stripe[s].refunded /\ stripe[s].sub # "ended"
OneOwed == \A s, t \in Sessions \ unrecorded : Owed(s) /\ Owed(t) => s = t
=============================================================================
