-------------------------- MODULE PurchasesProofs --------------------------
(***************************************************************************)
(* Proofs about Purchases.  Upgrades: for any checkouts, one-time or       *)
(* subscriptions, and any number of requests, webhooks and sweeps under    *)
(* way.  Renewals: for any number of checkouts of any length, callers,     *)
(* refunds and edits.                                                      *)
(***************************************************************************)
EXTENDS Purchases, Sequences, WellFoundedInduction, TLAPS

\* Stripe bills nothing by the checkout.
Over(s) == stripe[s].sub \in {"none", "ended"}

\* One request at a time starts an upgrade; its checkout cannot be paid before
\* the request has answered, and has no row yet.
Starts ==
  /\ \A w \in Workers :
       /\ At(w, "open") \/ At(w, "record") => workers[w].job = "start"
       /\ ~At(w, "idle") /\ workers[w].job = "start" => At(w, "open") \/ At(w, "record")
       /\ At(w, "open") => up[On(w)].state = "none" /\ stripe[On(w)].checkout = "none"
       /\ At(w, "record") => up[On(w)].state = "none" /\ stripe[On(w)].checkout \in {"open", "expired"}
  /\ \A v, w \in Starting : v = w

\* What a row says of its checkout.  A checkout that may be paid has a row, or
\* was not recorded.
Rows ==
  \A s \in Sessions :
    /\ up[s].state = "pending" => stripe[s].checkout # "none"
    /\ up[s].state = "expired" => stripe[s].checkout = "expired"
    /\ up[s].state \in {"applied", "reverted", "refunded"} => stripe[s].checkout = "paid"
    /\ up[s].state = "void" => stripe[s].checkout \in {"paid", "failed"}
    /\ up[s].state = "none" /\ stripe[s].checkout \notin {"none", "expired"} /\ Shown(s) => s \in unrecorded
    /\ s \in unrecorded => /\ up[s].state \notin Unsettled /\ Shown(s)
                           /\ stripe[s].checkout # "none"

\* What a webhook that waits says of its checkout.
Events ==
  \A e \in events :
    /\ stripe[e.s].checkout = IF e.kind = "failed" THEN "failed" ELSE "paid"
    /\ e.kind = "ended" => Over(e.s)

\* What a handler under way knows: the checkout is paid; what it reverts or
\* closes is not billed any more; a refund finds the upgrade closed or applied.
Knows(w) ==
  /\ At(w, "apply") => /\ stripe[On(w)].checkout = "paid"
                       /\ workers[w].job = "fulfil"
                       /\ workers[w].saw # "none"
                       /\ On(w) \in Subs /\ workers[w].saw # "stands" => Over(On(w))
  /\ workers[w].pc \in {"cancel", "close", "revert", "finish"} =>
       /\ stripe[On(w)].checkout = "paid"
       /\ workers[w].job \in {"refund", "ended", "unpaid", "sweep", "admin"}
       /\ workers[w].job = "refund" => up[On(w)].state # "none"
  /\ workers[w].pc \in {"close", "revert"} => Over(On(w))
  /\ At(w, "close") => workers[w].job = "refund"
  /\ At(w, "revert") /\ workers[w].job = "refund" => up[On(w)].state \notin Unsettled
  /\ At(w, "finish") /\ workers[w].job = "refund" => Closed(On(w))
  /\ workers[w].pc \in {"unpaid", "unbill"} => workers[w].job = "failed" /\ stripe[On(w)].checkout = "failed"
Handlers == \A w \in Workers : Knows(w)

\* The licence is billed by an upgrade that applies, or one closed with the
\* free plan gone; and an upgrade that applies bills it, or is over.
Links ==
  \A s \in Sessions :
    /\ lic.link = s => up[s].state = "applied" \/ (up[s].state = "reverted" /\ "free" \notin plans)
    /\ up[s].state = "applied" => lic.link = s \/ stripe[s].sub = "ended"

AnsweredClosed == \A s \in answered : Closed(s)

\* A closed upgrade is not billed, or its failed payment is still to be
\* handled, or was with the paid plan gone.
ClosedOver ==
  \A s \in Subs : Closed(s) =>
    \/ Over(s) \/ [kind |-> "failed", s |-> s] \in events
    \/ stripe[s].checkout = "failed" /\ "paid" \notin plans

\* A checkout that applies or may: two never do at a time.
Active(s) ==
  \/ up[s].state = "pending" /\ stripe[s].checkout # "expired"
  \/ up[s].state = "applied" /\ lic.link = s
  \/ \E w \in Workers : At(w, "record") /\ On(w) = s
Sole ==
  /\ \A s, t \in Sessions \ unrecorded : Active(s) /\ Active(t) => s = t
  /\ \A w \in Workers : At(w, "open") => lic.link = None \/ lic.link \in unrecorded

UpgradesInv ==
  /\ TypeOK /\ Starts /\ Rows /\ Events /\ Handlers
  /\ Links /\ AnsweredClosed /\ ClosedOver /\ Sole

-----------------------------------------------------------------------------
(***************************************************************************)
(* Types                                                                   *)
(***************************************************************************)

\* An idle worker is a worker.
LEMMA IdleType == Idle \in WorkerType
<1>1. (CHOOSE s \in Sessions : TRUE) \in Sessions
  BY SubsAssumption
<1> QED
  BY <1>1 DEF Idle, WorkerType, Jobs

\* The ways a worker moves on keep its type.
LEMMA WorkerUpdates ==
  ASSUME TypeOK, NEW w \in Workers
  PROVE  /\ Done(w) => workers' \in [Workers -> WorkerType]
         /\ \A pc \in {"record", "close", "finish", "revert", "unbill"} : Goto(w, pc) => workers' \in [Workers -> WorkerType]
         /\ \A job \in Jobs, s \in Sessions, pc \in {"open", "cancel", "revert", "finish", "unpaid"} :
              Begin(w, job, s, pc) => workers' \in [Workers -> WorkerType]
<1> USE DEF TypeOK
<1>1. Done(w) => workers' \in [Workers -> WorkerType]
  BY IdleType DEF Done
<1>2. ASSUME NEW pc \in {"record", "close", "finish", "revert", "unbill"}, Goto(w, pc)
      PROVE  workers' \in [Workers -> WorkerType]
  <2>1. [workers[w] EXCEPT !.pc = pc] \in WorkerType
    BY DEF WorkerType
  <2> QED
    BY <1>2, <2>1 DEF Goto
<1>3. ASSUME NEW job \in Jobs, NEW s \in Sessions, NEW pc \in {"open", "cancel", "revert", "finish", "unpaid"},
             Begin(w, job, s, pc)
      PROVE  workers' \in [Workers -> WorkerType]
  <2>1. [Idle EXCEPT !.pc = pc, !.job = job, !.s = s] \in WorkerType
    BY IdleType DEF WorkerType
  <2> QED
    BY <1>3, <2>1 DEF Begin
<1> QED
  BY <1>1, <1>2, <1>3

\* Every step keeps the types.
LEMMA TypeNext == TypeOK /\ [Next]_vars => TypeOK'
<1> SUFFICES ASSUME TypeOK, [Next]_vars PROVE TypeOK'
  OBVIOUS
<1> USE DEF TypeOK
<1>1. ASSUME NEW s \in Sessions,
             \/ Pay(s) \/ PayLater(s) \/ PaymentFails(s) \/ CheckoutLapses(s) \/ Refund(s) \/ SubscriptionMoves(s)
      PROVE  TypeOK'
  <2>1. stripe' \in [Sessions -> StripeType]
    <3>1. PICK r \in StripeType : StripeTo(s, r)
      <4>1. CASE Pay(s)
        BY <4>1 DEF Pay, StripeType
      <4>2. CASE PayLater(s)
        BY <4>2 DEF PayLater, StripeType
      <4>3. CASE PaymentFails(s) \/ CheckoutLapses(s) \/ Refund(s)
        BY <4>3 DEF PaymentFails, CheckoutLapses, Refund, StripeType
      <4>4. CASE SubscriptionMoves(s)
        BY <4>4 DEF SubscriptionMoves, StripeType
      <4> QED
        BY <1>1, <4>1, <4>2, <4>3, <4>4
    <3> QED
      BY <3>1 DEF StripeTo
  <2>2. events' \subseteq EventType
    BY <1>1 DEF Pay, PayLater, PaymentFails, CheckoutLapses, Refund, SubscriptionMoves, Notify, EventType
  <2> QED
    BY <1>1, <2>1, <2>2 DEF Pay, PayLater, PaymentFails, CheckoutLapses, Refund, SubscriptionMoves
<1>2. ASSUME NEW w \in Workers, NEW s \in Sessions, StartUpgrade(w, s) PROVE TypeOK'
  BY <1>2, WorkerUpdates DEF StartUpgrade, Jobs
<1>3. ASSUME NEW w \in Workers, OpenCheckout(w) PROVE TypeOK'
  <2>1. stripe' \in [Sessions -> StripeType]
    BY <1>3 DEF OpenCheckout, StripeType
  <2>2. workers' \in [Workers -> WorkerType]
    BY <1>3, WorkerUpdates DEF OpenCheckout
  <2> QED
    BY <1>3, <2>1, <2>2 DEF OpenCheckout
<1>4. ASSUME NEW w \in Workers, RecordUpgrade(w) PROVE TypeOK'
  <2>1. up' \in [Sessions -> RowType]
    BY <1>4 DEF RecordUpgrade, RowType
  <2> QED
    BY <1>4, <2>1, WorkerUpdates DEF RecordUpgrade
<1>5. ASSUME NEW w \in Workers, NotRecorded(w) PROVE TypeOK'
  <2>1. On(w) \in Sessions
    BY DEF On, WorkerType
  <2>2. stripe' \in [Sessions -> StripeType] /\ unrecorded' \subseteq Sessions
    BY <1>5, <2>1 DEF NotRecorded, StripeTo, StripeType
  <2> QED
    BY <1>5, <2>2, WorkerUpdates DEF NotRecorded
<1>6. ASSUME NEW w \in Workers, NEW s \in Sessions, UpgradeStillPaid(w, s) PROVE TypeOK'
  <2>1. /\ stripe' \in [Sessions -> StripeType]
        /\ events' \subseteq EventType
    BY <1>6 DEF UpgradeStillPaid, StripeTo, StripeType, Notify, EventType
  <2>2. \A x \in {"stands", "refunded", "void"} :
          [pc |-> "apply", job |-> "fulfil", s |-> s, saw |-> x] \in WorkerType
    BY DEF WorkerType, Jobs
  <2>3. workers' \in [Workers -> WorkerType]
    BY <1>6, <2>2 DEF UpgradeStillPaid
  <2> QED
    BY <1>6, <2>1, <2>3 DEF UpgradeStillPaid
<1>7. ASSUME NEW w \in Workers, ApplyUpgrade(w) PROVE TypeOK'
  <2>1. On(w) \in Sessions /\ workers[w].saw \in {"none", "stands", "refunded", "void"}
    BY DEF On, WorkerType
  <2>2. up' \in [Sessions -> RowType]
    BY <1>7, <2>1 DEF ApplyUpgrade, EndUpgrade, RowType, Upgradeable
  <2>3. lic' \in LicType
    BY <1>7, <2>1 DEF ApplyUpgrade, LicType, Linked
  <2> QED
    BY <1>7, <2>2, <2>3, WorkerUpdates DEF ApplyUpgrade
<1>8. \A kind : \A s \in Sessions : Answer(kind, s) => events' \subseteq EventType /\ answered' \subseteq Sessions
  BY DEF Answer
<1>9. ASSUME NEW w \in Workers, NEW s \in Sessions, FindRefunded(w, s) \/ FindEnded(w, s) PROVE TypeOK'
  <2>1. workers' \in [Workers -> WorkerType]
    BY <1>9, WorkerUpdates DEF FindRefunded, FindEnded, Jobs
  <2>2. events' \subseteq EventType /\ answered' \subseteq Sessions
    BY <1>8, <1>9 DEF FindRefunded, FindEnded
  <2> QED
    BY <1>9, <2>1, <2>2 DEF FindRefunded, FindEnded
<1>10. ASSUME NEW w \in Workers, CancelSubscription(w) PROVE TypeOK'
  <2>1. On(w) \in Sessions
    BY DEF On, WorkerType
  <2>2. stripe' \in [Sessions -> StripeType] /\ events' \subseteq EventType
    BY <1>10, <2>1 DEF CancelSubscription, StripeTo, Cancelled, Billing, StripeType, EventType
  <2>3. workers' \in [Workers -> WorkerType]
    BY <1>10, WorkerUpdates DEF CancelSubscription
  <2> QED
    BY <1>10, <2>2, <2>3 DEF CancelSubscription
<1>11. ASSUME NEW w \in Workers, CloseRefunded(w) \/ RevertUpgrade(w) \/ FinishEnded(w) PROVE TypeOK'
  <2>1. On(w) \in Sessions
    BY DEF On, WorkerType
  <2>2. up' \in [Sessions -> RowType]
    BY <1>11, <2>1 DEF CloseRefunded, RevertUpgrade, FinishEnded, EndUpgrade, RowType
  <2>3. lic' \in LicType
    BY <1>11, <2>1 DEF CloseRefunded, RevertUpgrade, FinishEnded, Reverted, Held, EndStatus, LicType, RowType,
                       Linked
  <2>4. workers' \in [Workers -> WorkerType]
    BY <1>11, WorkerUpdates DEF CloseRefunded, RevertUpgrade, FinishEnded, Finish
  <2>5. events' \subseteq EventType /\ answered' \subseteq Sessions
    BY <1>8, <1>11, <2>1 DEF CloseRefunded, RevertUpgrade, FinishEnded, Finish
  <2> QED
    BY <1>11, <2>2, <2>3, <2>4, <2>5 DEF CloseRefunded, RevertUpgrade, FinishEnded
<1>12. ASSUME NEW w \in Workers, NEW s \in Sessions, CloseFailedUpgrade(w, s) PROVE TypeOK'
  <2>1. up' \in [Sessions -> RowType]
    BY <1>12 DEF CloseFailedUpgrade, RowType
  <2> QED
    BY <1>12, <2>1, WorkerUpdates DEF CloseFailedUpgrade, Jobs
<1>13. ASSUME NEW w \in Workers, FindUnpaid(w) \/ CancelUnpaid(w) PROVE TypeOK'
  <2>1. On(w) \in Sessions
    BY DEF On, WorkerType
  <2>2. stripe' \in [Sessions -> StripeType]
    BY <1>13, <2>1 DEF FindUnpaid, CancelUnpaid, StripeTo, Cancelled, StripeType
  <2>3. workers' \in [Workers -> WorkerType] /\ events' \subseteq EventType /\ answered' \subseteq Sessions
    BY <1>8, <1>13, <2>1, WorkerUpdates DEF FindUnpaid, CancelUnpaid, Finish
  <2> QED
    BY <1>13, <2>2, <2>3 DEF FindUnpaid, CancelUnpaid
<1>14. ASSUME NEW w \in Workers, Sweep(w) \/ CancelForAdmin(w) PROVE TypeOK'
  <2>1. lic.link \in Sessions
    BY <1>14, SubsAssumption DEF Sweep, CancelForAdmin
  <2>2. \A x \in {"stands", "none"} :
          [pc |-> "cancel", job |-> "admin", s |-> lic.link, saw |-> x] \in WorkerType
    BY <2>1 DEF WorkerType, Jobs
  <2>3. workers' \in [Workers -> WorkerType]
    BY <1>14, <2>1, <2>2, WorkerUpdates DEF Sweep, CancelForAdmin, Jobs
  <2> QED
    BY <1>14, <2>3 DEF Sweep, CancelForAdmin
<1>15. ASSUME NEW w \in Workers, Fail(w) PROVE TypeOK'
  BY <1>15, WorkerUpdates DEF Fail
<1>16. ASSUME SuspendLicense \/ ReinstateLicense \/ RevokeLicense \/ UnlinkSubscription
         \/ FreeLicenseLapses \/ \E p \in {"free", "paid"} : DeletePlan(p)
       PROVE  TypeOK'
  <2>1. lic' \in LicType
    BY <1>16 DEF SuspendLicense, ReinstateLicense, RevokeLicense, SetStatus, UnlinkSubscription,
                 FreeLicenseLapses, DeletePlan, LicType, Linked
  <2> QED
    BY <1>16, <2>1 DEF SuspendLicense, ReinstateLicense, RevokeLicense, SetStatus, UnlinkSubscription,
                       FreeLicenseLapses, DeletePlan
<1>17. CASE UNCHANGED vars
  BY <1>17 DEF vars
<1> QED
  BY <1>1, <1>2, <1>3, <1>4, <1>5, <1>6, <1>7, <1>9, <1>10, <1>11, <1>12, <1>13, <1>14, <1>15, <1>16,
     <1>17 DEF Next, Step

-----------------------------------------------------------------------------
(***************************************************************************)
(* What no step undoes                                                     *)
(***************************************************************************)

\* A checkout that is paid, failed or expired stays so, and what is not billed
\* any more is not billed again; a row goes on and never back; a deleted plan
\* stays deleted.
Grows ==
  /\ \A s \in Sessions :
       /\ stripe[s].checkout \in {"paid", "failed", "expired"} => stripe'[s].checkout = stripe[s].checkout
       /\ stripe[s].checkout # "none" => stripe'[s].checkout # "none"
       /\ stripe[s].checkout \in {"paid", "failed"} /\ Over(s) => stripe'[s].sub = stripe[s].sub
       /\ up[s].state # "none" => up'[s].state # "none"
       /\ up[s].state \notin Unsettled \cup {"none"} => up'[s].state \notin Unsettled \cup {"none"}
       /\ Closed(s) => up'[s].state = up[s].state
  /\ unrecorded \subseteq unrecorded' /\ plans' \subseteq plans

\* Every step of the upgrades is such.
LEMMA NextGrows == UpgradesInv /\ Next => Grows
<1> SUFFICES ASSUME UpgradesInv, Next PROVE Grows
  OBVIOUS
<1> USE DEF UpgradesInv
<1>0. /\ stripe \in [Sessions -> StripeType] /\ up \in [Sessions -> RowType]
      /\ workers \in [Workers -> WorkerType]
      /\ \A w \in Workers : On(w) \in Sessions
  BY DEF TypeOK, On, WorkerType
<1>1. ASSUME NEW s \in Sessions,
             \/ Pay(s) \/ PayLater(s) \/ PaymentFails(s) \/ CheckoutLapses(s) \/ Refund(s) \/ SubscriptionMoves(s)
      PROVE  Grows
  <2>1. up' = up /\ unrecorded' = unrecorded /\ plans' = plans /\ \A t \in Sessions : t # s => stripe'[t] = stripe[t]
    BY <1>0, <1>1 DEF Pay, PayLater, PaymentFails, CheckoutLapses, Refund, SubscriptionMoves, StripeTo
  <2>2. /\ stripe[s].checkout \in {"paid", "failed", "expired"} => stripe'[s].checkout = stripe[s].checkout
        /\ stripe[s].checkout # "none" => stripe'[s].checkout # "none"
        /\ stripe[s].checkout \in {"paid", "failed"} /\ Over(s) => stripe'[s].sub = stripe[s].sub
    BY <1>0, <1>1 DEF Pay, PayLater, PaymentFails, CheckoutLapses, Refund, SubscriptionMoves, StripeTo,
                      StripeType, Over
  <2> QED
    BY <2>1, <2>2 DEF Grows, Over, Closed
<1>2. ASSUME UNCHANGED <<stripe, up>>, unrecorded \subseteq unrecorded', plans' \subseteq plans PROVE Grows
  BY <1>2 DEF Grows
<1>3. ASSUME NEW w \in Workers, OpenCheckout(w) PROVE Grows
  <2>1. up' = up /\ unrecorded' = unrecorded /\ plans' = plans
    BY <1>3 DEF OpenCheckout
  <2>2. stripe[On(w)].checkout = "none"
    BY <1>3 DEF OpenCheckout, Starts
  <2>3. \A s \in Sessions :
          stripe'[s] = stripe[s] \/ (stripe[s].checkout = "none" /\ stripe'[s].checkout = "open")
            \/ (stripe[s].checkout = "open" /\ stripe'[s].checkout = "expired")
    BY <1>0, <1>3, <2>2 DEF OpenCheckout, StripeType
  <2> QED
    BY <2>1, <2>3 DEF Grows
<1>4. ASSUME NEW w \in Workers, RecordUpgrade(w) PROVE Grows
  <2>1. up[On(w)].state = "none" /\ stripe' = stripe /\ unrecorded' = unrecorded /\ plans' = plans
    BY <1>4 DEF RecordUpgrade, Starts
  <2>2. \A s \in Sessions :
          \/ up'[s] = up[s]
          \/ up[s].state \in {"none", "pending"} /\ up'[s].state \in {"pending", "expired"}
    BY <1>0, <1>4, <2>1 DEF RecordUpgrade, RowType, Pending
  <2> QED
    BY <2>1, <2>2 DEF Grows, Closed, Unsettled
<1>5. ASSUME NEW w \in Workers, NotRecorded(w) PROVE Grows
  <2>1. stripe[On(w)].checkout \in {"open", "expired"} /\ up' = up /\ unrecorded \subseteq unrecorded' /\ plans' = plans
    BY <1>5 DEF NotRecorded, Starts
  <2>2. \A s \in Sessions :
          stripe'[s] = stripe[s] \/ (stripe[s].checkout \in {"open", "expired"} /\ stripe'[s].checkout = "expired")
    BY <1>0, <1>5, <2>1 DEF NotRecorded, StripeTo, StripeType
  <2> QED
    BY <2>1, <2>2 DEF Grows
<1>6. ASSUME NEW w \in Workers, NEW s \in Sessions, UpgradeStillPaid(w, s) PROVE Grows
  <2>1. up' = up /\ unrecorded' = unrecorded /\ plans' = plans
    BY <1>6 DEF UpgradeStillPaid
  <2>2. \A t \in Sessions :
          stripe'[t] = stripe[t] \/ (stripe'[t].checkout = stripe[t].checkout /\ ~Over(t))
    BY <1>0, <1>6 DEF UpgradeStillPaid, StripeTo, StripeType, Over
  <2> QED
    BY <2>1, <2>2 DEF Grows
<1>7. ASSUME NEW w \in Workers,
             ApplyUpgrade(w) \/ CloseRefunded(w) \/ RevertUpgrade(w)
      PROVE  Grows
  <2>1. stripe' = stripe /\ unrecorded' = unrecorded /\ plans' = plans
    BY <1>7 DEF ApplyUpgrade, CloseRefunded, RevertUpgrade
  <2>2. At(w, "apply") => workers[w].saw \in {"stands", "refunded", "void"}
    BY <1>0 DEF Handlers, Knows, WorkerType
  <2>3. \A s \in Sessions :
          \/ up'[s] = up[s]
          \/ ~Closed(s) /\ up'[s].state \in {"applied", "refunded", "void", "reverted"}
    BY <1>0, <1>7, <2>2
       DEF ApplyUpgrade, CloseRefunded, RevertUpgrade, EndUpgrade, MayApply, RowType, Closed, Unsettled
  <2> QED
    BY <2>1, <2>3 DEF Grows, Unsettled
<1>8. ASSUME NEW w \in Workers, CancelSubscription(w) \/ CancelUnpaid(w) PROVE Grows
  <2>1. up' = up /\ unrecorded' = unrecorded /\ plans' = plans
    BY <1>8 DEF CancelSubscription, CancelUnpaid
  <2>2. \A s \in Sessions : stripe'[s] = stripe[s] \/ (stripe'[s].checkout = stripe[s].checkout /\ ~Over(s))
    BY <1>0, <1>8 DEF CancelSubscription, CancelUnpaid, StripeTo, Cancelled, Billing, StripeType, Over
  <2> QED
    BY <2>1, <2>2 DEF Grows
<1>9. ASSUME NEW w \in Workers, NEW s \in Sessions, CloseFailedUpgrade(w, s) PROVE Grows
  <2>1. stripe' = stripe /\ unrecorded' = unrecorded /\ plans' = plans
    BY <1>9 DEF CloseFailedUpgrade
  <2>2. \A t \in Sessions : up'[t] = up[t] \/ (up[t].state \in Unsettled /\ up'[t].state = "void")
    BY <1>0, <1>9 DEF CloseFailedUpgrade, RowType
  <2> QED
    BY <2>1, <2>2 DEF Grows, Closed, Unsettled
<1>10. ASSUME NEW w \in Workers, NEW s \in Sessions,
              StartUpgrade(w, s) \/ FindRefunded(w, s) \/ FindEnded(w, s)
       PROVE  Grows
  BY <1>2, <1>10 DEF StartUpgrade, FindRefunded, FindEnded
<1>11. ASSUME NEW w \in Workers, FinishEnded(w) \/ FindUnpaid(w) \/ Sweep(w) \/ CancelForAdmin(w) \/ Fail(w)
       PROVE  Grows
  BY <1>2, <1>11 DEF FinishEnded, FindUnpaid, Sweep, CancelForAdmin, Fail
<1>12. ASSUME SuspendLicense \/ ReinstateLicense \/ RevokeLicense \/ UnlinkSubscription
         \/ FreeLicenseLapses \/ \E p \in {"free", "paid"} : DeletePlan(p)
       PROVE  Grows
  BY <1>2, <1>12 DEF SuspendLicense, ReinstateLicense, RevokeLicense, SetStatus, UnlinkSubscription,
                     FreeLicenseLapses, DeletePlan
<1> QED
  BY <1>1, <1>3, <1>4, <1>5, <1>6, <1>7, <1>8, <1>9, <1>10, <1>11, <1>12 DEF Next, Step

\* What another handler knows stays so.
LEMMA KnowsStill ==
  ASSUME TypeOK, TypeOK', Grows, NEW v \in Workers, workers'[v] = workers[v], Knows(v)
  PROVE  Knows(v)'
<1>1. On(v) \in Sessions /\ On(v)' = On(v)
  BY DEF TypeOK, On, WorkerType
<1> QED
  BY <1>1 DEF Knows, Grows, At, On, Over, Closed, Unsettled

\* So does what the webhooks say, and a closed upgrade is not billed again.
LEMMA EventsStill ==
  ASSUME TypeOK, Grows, Events,
         \A e \in events' \ events : /\ stripe'[e.s].checkout = IF e.kind = "failed" THEN "failed" ELSE "paid"
                                     /\ e.kind = "ended" => Over(e.s)'
  PROVE  Events'
<1>1. \A e \in events : e.s \in Sessions
  BY DEF TypeOK, EventType
<1> QED
  BY <1>1 DEF Events, Grows, Over

\* A step that leaves rows, links and checkouts as they are, and begins no
\* upgrade, keeps what relates them.
LEMMA QuietStep ==
  ASSUME UpgradesInv, TypeOK', Grows, UNCHANGED <<up, unrecorded>>, lic'.link = lic.link,
         \A s \in Sessions : stripe'[s].checkout = stripe[s].checkout,
         \A v \in Workers :
           \/ workers'[v] = workers[v]
           \/ /\ workers[v].pc \notin {"open", "record"} /\ workers'[v].pc \notin {"open", "record"}
              /\ workers'[v].pc = "idle" \/ workers'[v].job # "start"
  PROVE  Starts' /\ Rows' /\ Links' /\ Sole'
<1> USE DEF UpgradesInv
<1>1. \A v \in Workers : On(v) \in Sessions
  BY DEF TypeOK, On, WorkerType
<1>2. \A v \in Workers : workers'[v].pc \in {"open", "record"} => workers'[v] = workers[v]
  OBVIOUS
<1>3. Starting' = Starting /\ \A v \in Starting : workers'[v] = workers[v]
  BY DEF Starting, Starts, At
<1>4. Starts'
  BY <1>1, <1>2, <1>3 DEF Starts, At, On
<1>5. Rows'
  BY <1>3 DEF Rows, Shown, On, Unsettled
<1>6. Links'
  BY DEF Links, Rows, Grows, Over
<1>7. Sole'
  BY <1>1, <1>2 DEF Sole, Active, At, On
<1> QED
  BY <1>4, <1>5, <1>6, <1>7

-----------------------------------------------------------------------------
(***************************************************************************)
(* Stripe and its customer, and starting an upgrade                        *)
(***************************************************************************)

\* What the customer and Stripe do keeps the invariant.
LEMMA CustomerStep ==
  ASSUME UpgradesInv, TypeOK', Grows, NEW s \in Sessions,
         \/ Pay(s) \/ PayLater(s) \/ PaymentFails(s) \/ CheckoutLapses(s) \/ Refund(s) \/ SubscriptionMoves(s)
  PROVE  UpgradesInv'
<1> USE DEF UpgradesInv
<1>0. /\ stripe \in [Sessions -> StripeType]
      /\ \A v \in Workers : On(v) \in Sessions
  BY DEF TypeOK, On, WorkerType
<1>1. /\ UNCHANGED <<lic, plans, up, answered, workers, unrecorded>>
      /\ \A t \in Sessions : t # s => stripe'[t] = stripe[t]
      /\ events \subseteq events'
  BY <1>0 DEF Pay, PayLater, PaymentFails, CheckoutLapses, Refund, SubscriptionMoves, StripeTo, Notify
<1>2. \/ stripe'[s].checkout = stripe[s].checkout
      \/ stripe[s].checkout \in {"open", "processing"} /\ Shown(s)
      \/ stripe[s].checkout = "processing"
      \/ stripe[s].checkout = "open" /\ stripe'[s].checkout = "expired"
  BY <1>0 DEF Pay, PayLater, PaymentFails, CheckoutLapses, Refund, SubscriptionMoves, StripeTo, StripeType
<1>3. Events'
  <2>1. \A e \in events' \ events : /\ stripe'[e.s].checkout = IF e.kind = "failed" THEN "failed" ELSE "paid"
                                    /\ e.kind = "ended" => Over(e.s)'
    BY <1>0 DEF Pay, PayLater, PaymentFails, CheckoutLapses, Refund, SubscriptionMoves, StripeTo, StripeType,
                Notify, Over
  <2> QED
    BY <2>1, EventsStill
<1>4. Handlers'
  BY <1>1, KnowsStill DEF Handlers
<1>5. Starting' = Starting
  BY <1>1 DEF Starting, At
<1>6. Starts'
  <2>1. ASSUME NEW w \in Workers, At(w, "open") \/ At(w, "record")
        PROVE  \/ stripe'[On(w)].checkout = stripe[On(w)].checkout
               \/ stripe[On(w)].checkout = "open" /\ stripe'[On(w)].checkout = "expired"
    <3>1. w \in Starting
      BY <2>1 DEF Starting, Starts, At
    <3> QED
      BY <1>0, <1>1, <1>2, <2>1, <3>1 DEF Shown, Starts
  <2> QED
    BY <1>1, <1>5, <2>1 DEF Starts, At, On
<1>7. Rows'
  BY <1>1, <1>2, <1>5 DEF Rows, Grows, Shown, On, Unsettled
<1>8. Links'
  BY <1>1 DEF Links, Rows, Grows, Over
<1>9. AnsweredClosed'
  BY <1>1 DEF AnsweredClosed, Closed
<1>10. ClosedOver'
  BY <1>1, SubsAssumption DEF ClosedOver, Closed, Rows, Grows, Over
<1>11. Sole'
  BY <1>1 DEF Sole, Active, Grows, At, On
<1> QED
  BY <1>3, <1>4, <1>6, <1>7, <1>8, <1>9, <1>10, <1>11

\* What is left of the invariant after a step of a worker w that leaves
\* answered refunds, events and closed upgrades as they are.
LEMMA OtherWorkers ==
  ASSUME UpgradesInv, TypeOK', Grows, NEW w \in Workers, Knows(w)', UNCHANGED <<events, answered>>,
         \A v \in Workers : v # w => workers'[v] = workers[v],
         \A s \in Sessions : Closed(s)' => Closed(s)
  PROVE  Events' /\ Handlers' /\ AnsweredClosed' /\ ClosedOver'
<1> USE DEF UpgradesInv
<1>1. Events'
  BY EventsStill
<1>2. Handlers'
  BY KnowsStill DEF Handlers
<1>3. AnsweredClosed'
  BY DEF AnsweredClosed, Closed, Grows, TypeOK
<1>4. ClosedOver'
  BY SubsAssumption DEF ClosedOver, Rows, Closed, Grows, Over
<1> QED
  BY <1>1, <1>2, <1>3, <1>4

\* StartUpgrade: the licence is billed by no other checkout.
LEMMA StartStep ==
  ASSUME UpgradesInv, TypeOK', Grows, NEW w \in Workers, NEW s \in Sessions, StartUpgrade(w, s)
  PROVE  UpgradesInv'
<1> USE DEF UpgradesInv
<1>0. \A v \in Workers : On(v) \in Sessions
  BY DEF TypeOK, On, WorkerType
<1>1. /\ UNCHANGED <<lic, plans, up, stripe, events, answered, unrecorded>>
      /\ workers'[w].pc = "open" /\ workers'[w].job = "start" /\ workers'[w].s = s
      /\ \A v \in Workers : v # w => workers'[v] = workers[v]
      /\ stripe[s].checkout = "none" /\ up[s].state = "none" /\ Starting = {} /\ At(w, "idle")
      /\ lic.link = None
  BY DEF StartUpgrade, Begin, Upgradeable, Idle, TypeOK
<1>2. Starting' = {w}
  BY <1>1 DEF Starting, At
<1>3. Starts'
  BY <1>0, <1>1, <1>2 DEF Starts, At, On
<1>4. Rows'
  BY <1>1, <1>2 DEF Rows, Shown, On, Unsettled
<1>5. Links'
  BY <1>1 DEF Links
<1>6. Sole'
  BY <1>1 DEF Sole, Active, At, On, Starts, Starting
<1>7. Knows(w)' /\ \A t \in Sessions : Closed(t)' => Closed(t)
  BY <1>1 DEF Knows, At, Closed
<1>8. Events' /\ Handlers' /\ AnsweredClosed' /\ ClosedOver'
  BY <1>1, <1>7, OtherWorkers
<1> QED
  BY <1>3, <1>4, <1>5, <1>6, <1>8

\* A request that starts an upgrade ends without a row and without a checkout.
LEMMA StartEnds ==
  ASSUME UpgradesInv, TypeOK', Grows, NEW w \in Workers, At(w, "open"), workers'[w] = Idle,
         UNCHANGED <<lic, plans, up, stripe, events, answered, unrecorded>>,
         \A v \in Workers : v # w => workers'[v] = workers[v]
  PROVE  UpgradesInv'
<1> USE DEF UpgradesInv
<1>0. \A v \in Workers : On(v) \in Sessions
  BY DEF TypeOK, On, WorkerType
<1>1. /\ workers'[w].pc = "idle" /\ stripe[On(w)].checkout = "none"
      /\ Starting' = Starting \ {w}
  BY DEF Idle, Starts, Starting, At
<1>2. Starting = {w}
  BY DEF Starts, Starting, At
<1>3. Starts'
  BY <1>0, <1>1, <1>2 DEF Starts, At, On
<1>4. Rows'
  BY <1>0, <1>1, <1>2 DEF Rows, Shown, On, Unsettled
<1>5. Links' /\ Sole'
  BY <1>1 DEF Links, Sole, Active, At, On
<1>6. Knows(w)' /\ \A t \in Sessions : Closed(t)' => Closed(t)
  BY <1>1 DEF Knows, At, Closed
<1>7. Events' /\ Handlers' /\ AnsweredClosed' /\ ClosedOver'
  BY <1>6, OtherWorkers
<1> QED
  BY <1>3, <1>4, <1>5, <1>7

\* OpenCheckout expires the checkouts that may still be paid.
LEMMA OpenStep ==
  ASSUME UpgradesInv, TypeOK', Grows, NEW w \in Workers, OpenCheckout(w)
  PROVE  UpgradesInv'
<1> USE DEF UpgradesInv
<1>0. /\ stripe \in [Sessions -> StripeType] /\ workers \in [Workers -> WorkerType]
      /\ \A v \in Workers : On(v) \in Sessions
  BY DEF TypeOK, On, WorkerType
<1>1. /\ UNCHANGED <<lic, plans, up, events, answered, unrecorded>>
      /\ \A v \in Workers : v # w => workers'[v] = workers[v]
      /\ At(w, "open")
  BY DEF OpenCheckout, Done, Goto, TypeOK
<1>2. CASE Done(w) /\ UNCHANGED stripe
  <2>1. workers'[w] = Idle
    BY <1>0, <1>2 DEF Done
  <2> QED
    BY <1>1, <1>2, <2>1, StartEnds
<1>3. CASE /\ \A s \in Pending : ~StillPaying(s)
           /\ Goto(w, "record")
           /\ stripe' = [s \in Sessions |->
                IF s = On(w) THEN [stripe[s] EXCEPT !.checkout = "open"]
                ELSE IF s \in Pending /\ stripe[s].checkout = "open" THEN [stripe[s] EXCEPT !.checkout = "expired"]
                ELSE stripe[s]]
  <2>1. /\ workers'[w].pc = "record" /\ workers'[w].s = On(w) /\ workers'[w].job = workers[w].job
    BY <1>0, <1>3 DEF Goto, On, WorkerType
  <2>2. /\ Starting = {w} /\ Starting' = {w} /\ workers[w].job = "start"
        /\ up[On(w)].state = "none" /\ stripe[On(w)].checkout = "none"
    BY <1>1, <2>1 DEF Starts, Starting, At
  <2>3. /\ stripe'[On(w)].checkout = "open"
        /\ \A s \in Sessions : up[s].state = "pending" => stripe'[s].checkout = "expired"
        /\ \A s \in Sessions : s # On(w) => stripe'[s] = stripe[s] \/ up[s].state = "pending"
    BY <1>0, <1>3, <2>2 DEF Pending, StillPaying, StripeType, Rows
  <2>4. Starts'
    <3>1. \A v \in Workers : v # w => workers'[v].pc \notin {"open", "record"}
      BY <1>1, <2>2 DEF Starting, Starts, At
    <3> QED
      BY <1>0, <1>1, <2>1, <2>2, <2>3, <3>1 DEF Starts, At, On
  <2>5. Rows'
    <3>1. \A s \in Sessions : Shown(s)' <=> s # On(w)
      BY <1>0, <2>1, <2>2 DEF Shown, On
    <3>2. \A s \in Sessions : Shown(s) <=> s # On(w)
      BY <1>0, <2>2 DEF Shown, On
    <3> QED
      BY <1>0, <1>1, <2>2, <2>3, <3>1, <3>2 DEF Rows, Grows, Unsettled
  <2>6. Links'
    BY <1>1, <2>2, <2>3 DEF Links, Rows, Grows, Over
  <2>7. Sole'
    <3>1. \A s \in Sessions \ unrecorded : Active(s)' => s = On(w)
      <4>1. \A v \in Workers : workers'[v].pc = "record" => v = w
        BY <1>1, <2>2 DEF Starting, Starts, At
      <4>2. \A s \in Sessions \ unrecorded : lic.link # s
        BY <1>1, SubsAssumption DEF Sole
      <4> QED
        BY <1>1, <2>1, <2>3, <4>1, <4>2 DEF Active, At, On
    <3>2. \A v \in Workers : workers'[v].pc # "open"
      BY <1>1, <2>1, <2>2 DEF Starting, Starts, At
    <3> QED
      BY <1>1, <3>1, <3>2 DEF Sole, At
  <2>8. Knows(w)' /\ \A t \in Sessions : Closed(t)' => Closed(t)
    BY <1>1, <2>1 DEF Knows, At, Closed
  <2>9. Events' /\ Handlers' /\ AnsweredClosed' /\ ClosedOver'
    BY <1>1, <2>8, OtherWorkers
  <2> QED
    BY <2>4, <2>5, <2>6, <2>7, <2>9
<1> QED
  BY <1>2, <1>3 DEF OpenCheckout

\* RecordUpgrade gives the new checkout the only row that may still apply, and
\* NotRecorded leaves it without one.
LEMMA RecordStep ==
  ASSUME UpgradesInv, TypeOK', Grows, NEW w \in Workers, RecordUpgrade(w) \/ NotRecorded(w)
  PROVE  UpgradesInv'
<1> USE DEF UpgradesInv
<1>0. /\ stripe \in [Sessions -> StripeType] /\ workers \in [Workers -> WorkerType]
      /\ up \in [Sessions -> RowType]
      /\ \A v \in Workers : On(v) \in Sessions
  BY DEF TypeOK, On, WorkerType
<1>1. /\ UNCHANGED <<lic, plans, events, answered>>
      /\ \A v \in Workers : v # w => workers'[v] = workers[v]
      /\ At(w, "record") /\ workers'[w] = Idle /\ workers'[w].pc = "idle"
  <2>1. Done(w) /\ At(w, "record") /\ UNCHANGED <<lic, plans, events, answered>>
    BY DEF RecordUpgrade, NotRecorded
  <2> QED
    BY <1>0, <2>1 DEF Done, Idle
<1>2. /\ Starting = {w} /\ Starting' = {}
      /\ up[On(w)].state = "none" /\ stripe[On(w)].checkout \in {"open", "expired"}
      /\ On(w) \notin unrecorded
  BY <1>0, <1>1 DEF Starts, Starting, At, Rows, Shown
<1>3. \A v \in Workers : /\ workers'[v].pc \notin {"open", "record"}
                         /\ At(v, "record") => v = w
  BY <1>1, <1>2 DEF Starting, Starts, At
<1>4. Starts'
  BY <1>2, <1>3 DEF Starts, At, Starting
<1>5. Active(On(w))
  BY <1>1 DEF Active
<1>6. \A s \in Sessions : (Shown(s) <=> s # On(w)) /\ Shown(s)'
  BY <1>0, <1>2 DEF Shown, On
<1>7. Knows(w)'
  BY <1>1 DEF Knows, At
<1>8. CASE RecordUpgrade(w)
  <2>1. /\ stripe' = stripe /\ unrecorded' = unrecorded
        /\ up'[On(w)].state = "pending"
        /\ \A s \in Sessions : /\ up[s].state = "pending" => up'[s].state = "expired"
                               /\ s # On(w) /\ up[s].state # "pending" => up'[s] = up[s]
    BY <1>0, <1>2, <1>8 DEF RecordUpgrade, Pending, RowType
  <2>2. \A s \in Sessions : up[s].state = "pending" => stripe[s].checkout = "expired"
    <3>1. ASSUME NEW s \in Sessions, up[s].state = "pending", stripe[s].checkout # "expired" PROVE FALSE
      <4>1. Active(s) /\ s \notin unrecorded
        BY <3>1 DEF Active, Rows, Unsettled
      <4> QED
        BY <1>0, <1>2, <1>5, <3>1, <4>1 DEF Sole
    <3> QED
      BY <3>1
  <2>3. Rows'
    BY <1>0, <1>2, <1>6, <2>1, <2>2 DEF Rows, Unsettled
  <2>4. Links'
    BY <1>0, <1>1, <1>2, <2>1 DEF Links
  <2>5. Sole'
    <3>1. \A s \in Sessions \ unrecorded : Active(s)' => Active(s)
      BY <1>0, <1>1, <1>3, <1>5, <2>1 DEF Active, At, On
    <3> QED
      BY <1>3, <2>1, <3>1 DEF Sole, At
  <2>6. \A t \in Sessions : Closed(t)' => Closed(t)
    BY <1>0, <1>2, <2>1 DEF Closed
  <2>7. Events' /\ Handlers' /\ AnsweredClosed' /\ ClosedOver'
    BY <1>1, <1>7, <2>6, OtherWorkers
  <2> QED
    BY <1>4, <2>3, <2>4, <2>5, <2>7
<1>9. CASE NotRecorded(w)
  <2>1. /\ up' = up
        /\ \A s \in Sessions : s # On(w) => stripe'[s] = stripe[s]
        /\ \/ stripe' = stripe /\ unrecorded' = unrecorded \cup {On(w)}
           \/ stripe'[On(w)].checkout = "expired" /\ unrecorded' = unrecorded
    BY <1>0, <1>9 DEF NotRecorded, StripeTo, StripeType
  <2>2. Rows'
    BY <1>0, <1>2, <1>6, <2>1 DEF Rows, Grows, Unsettled
  <2>3. Links'
    BY <1>0, <1>1, <1>2, <2>1 DEF Links
  <2>4. Sole'
    <3>1. \A s \in Sessions \ unrecorded' : Active(s)' => Active(s) /\ s \notin unrecorded
      BY <1>0, <1>1, <1>2, <1>3, <2>1 DEF Active, At, On
    <3> QED
      BY <1>3, <3>1 DEF Sole, At
  <2>5. \A t \in Sessions : Closed(t)' => Closed(t)
    BY <2>1 DEF Closed
  <2>6. Events' /\ Handlers' /\ AnsweredClosed' /\ ClosedOver'
    BY <1>1, <1>7, <2>5, OtherWorkers
  <2> QED
    BY <1>4, <2>2, <2>3, <2>4, <2>6
<1> QED
  BY <1>8, <1>9

-----------------------------------------------------------------------------
(***************************************************************************)
(* Fulfilling, refunding and ending an upgrade                             *)
(***************************************************************************)

\* upgradeStillPaid, and ApplyUpgrade: only a checkout whose row may still
\* apply, or one never recorded, is applied, on a licence nothing bills.
LEMMA FulfilStep ==
  ASSUME UpgradesInv, TypeOK', Grows, NEW w \in Workers,
         (\E s \in Sessions : UpgradeStillPaid(w, s)) \/ ApplyUpgrade(w)
  PROVE  UpgradesInv'
<1> USE DEF UpgradesInv
<1>0. /\ stripe \in [Sessions -> StripeType] /\ workers \in [Workers -> WorkerType]
      /\ up \in [Sessions -> RowType]
      /\ \A v \in Workers : On(v) \in Sessions
  BY DEF TypeOK, On, WorkerType
<1>1. ASSUME NEW s \in Sessions, UpgradeStillPaid(w, s) PROVE UpgradesInv'
  <2>1. /\ UNCHANGED <<lic, plans, up, answered, unrecorded>>
        /\ \A v \in Workers : v # w => workers'[v] = workers[v]
        /\ At(w, "idle") /\ stripe[s].checkout = "paid"
        /\ workers'[w].pc = "apply" /\ workers'[w].job = "fulfil" /\ workers'[w].s = s
        /\ workers'[w].saw # "none"
        /\ events \subseteq events'
        /\ events' \subseteq events \cup {[kind |-> "ended", s |-> s]}
        /\ \A t \in Sessions : stripe'[t].checkout = stripe[t].checkout
        /\ s \in Subs /\ workers'[w].saw # "stands" => Over(s)'
        /\ events' # events => Over(s)'
    <3>1. PICK x \in {"stands", "refunded", "void"} :
            /\ workers' = [workers EXCEPT ![w] = [pc |-> "apply", job |-> "fulfil", s |-> s, saw |-> x]]
            /\ s \in Subs /\ x # "stands" => Over(s)'
            /\ events' # events => Over(s)'
            /\ events \subseteq events' /\ events' \subseteq events \cup {[kind |-> "ended", s |-> s]}
            /\ \A t \in Sessions : stripe'[t].checkout = stripe[t].checkout
      BY <1>0, <1>1 DEF UpgradeStillPaid, StripeTo, StripeType, Notify, Over
    <3>2. /\ UNCHANGED <<lic, plans, up, answered, unrecorded>>
          /\ At(w, "idle") /\ stripe[s].checkout = "paid"
      BY <1>1 DEF UpgradeStillPaid, Fulfillable
    <3> QED
      BY <1>0, <3>1, <3>2
  <2>2. Events'
    BY <2>1, EventsStill
  <2>3. Knows(w)'
    BY <2>1 DEF Knows, At, On
  <2>4. Handlers'
    BY <2>1, <2>3, KnowsStill DEF Handlers
  <2>5. AnsweredClosed' /\ ClosedOver'
    BY <2>1, SubsAssumption DEF AnsweredClosed, ClosedOver, Rows, Closed, Grows, Over
  <2>6. Starts' /\ Rows' /\ Links' /\ Sole'
    BY <2>1, QuietStep DEF At
  <2> QED
    BY <2>2, <2>4, <2>5, <2>6
<1>2. ASSUME ApplyUpgrade(w) PROVE UpgradesInv'
  <2>s. PICK s \in Sessions : s = On(w)
    BY <1>0
  <2>1. /\ UNCHANGED <<plans, stripe, events, answered, unrecorded>>
        /\ \A v \in Workers : v # w => workers'[v] = workers[v]
        /\ At(w, "apply") /\ workers'[w].pc = "idle" /\ RowFree(s)
        /\ stripe[s].checkout = "paid" /\ workers[w].job = "fulfil"
        /\ s \in Subs /\ workers[w].saw # "stands" => Over(s)
        /\ \A t \in Sessions : t # s => up'[t] = up[t]
    BY <1>0, <1>2, <2>s DEF ApplyUpgrade, Done, Idle, Handlers, Knows, EndUpgrade
  <2>2. Knows(w)'
    BY <2>1 DEF Knows, At
  <2>3. Events' /\ Handlers'
    BY <2>1, <2>2, EventsStill, KnowsStill DEF Handlers
  <2>4. AnsweredClosed'
    BY <2>1 DEF AnsweredClosed, Grows, Closed, TypeOK
  <2>5. CASE UNCHANGED <<lic, up>>
    <3>1. ClosedOver'
      BY <2>1, <2>5, SubsAssumption DEF ClosedOver, Closed, Over
    <3>2. Starts' /\ Rows' /\ Links' /\ Sole'
      BY <2>1, <2>5, QuietStep DEF At
    <3> QED
      BY <2>3, <2>4, <3>1, <3>2
  <2>6. ASSUME MayApply(s),
               \/ /\ up'[s].state \in {"refunded", "void"} /\ lic' = lic
                  /\ workers[w].saw # "stands"
               \/ up'[s].state = "applied" /\ lic.link = None /\ lic'.link = s
        PROVE  UpgradesInv'
    <3>1. Starting' = Starting /\ \A v \in Starting : workers'[v] = workers[v] /\ On(v) # s
      BY <2>1 DEF Starting, Starts, At
    <3>2. Starts'
      BY <1>0, <2>1, <3>1 DEF Starts, At, On, Starting
    <3>3. Shown(s) /\ \A t \in Sessions : Shown(t)' <=> Shown(t)
      BY <3>1 DEF Shown, On
    <3>4. Rows'
      BY <2>1, <2>6, <3>3 DEF Rows, Unsettled
    <3>5. up[s].state = "pending" \/ s \in unrecorded
      BY <2>1, <2>6, <3>3 DEF Rows, MayApply, Unsettled
    <3>6. Links'
      BY <2>1, <2>6, SubsAssumption DEF Links, MayApply, Unsettled
    <3>7. Sole'
      <4>1. \A t \in Sessions \ unrecorded : Active(t)' => Active(t)
        BY <1>0, <2>1, <2>6, <3>5 DEF Active, At, On
      <4>2. lic'.link = lic.link \/ (up[s].state = "pending" /\ Starting = {}) \/ s \in unrecorded
        BY <2>1, <2>6, <3>5 DEF RowFree
      <4>3. \A v \in Workers : At(v, "open")' => At(v, "open")
        BY <2>1 DEF At
      <4>4. \A v \in Workers : At(v, "open") => v \in Starting
        BY DEF At, Starting, Starts
      <4> QED
        BY <2>1, <2>6, <4>1, <4>2, <4>3, <4>4 DEF Sole
    <3>8. ClosedOver'
      BY <2>1, <2>6, SubsAssumption DEF ClosedOver, Closed, Over
    <3> QED
      BY <2>3, <2>4, <3>2, <3>4, <3>6, <3>7, <3>8
  <2>7. \/ UNCHANGED <<lic, up>>
        \/ /\ MayApply(s)
           /\ \/ /\ up'[s].state \in {"refunded", "void"} /\ lic' = lic
                 /\ workers[w].saw # "stands"
              \/ up'[s].state = "applied" /\ lic.link = None /\ lic'.link = s
    <3>1. workers[w].saw \in {"stands", "refunded", "void"}
      BY <1>0, <2>1 DEF Handlers, Knows, WorkerType
    <3> QED
      BY <1>0, <1>2, <2>s, <3>1 DEF ApplyUpgrade, EndUpgrade, Upgradeable, RowType
  <2> QED
    BY <2>5, <2>6, <2>7
<1> QED
  BY <1>1, <1>2

\* Answering a webhook other than a failed payment's, a refund only once what
\* it paid for is closed.
LEMMA Answering ==
  ASSUME UpgradesInv, Grows, NEW s \in Sessions, NEW kind, kind # "failed", Answer(kind, s),
         kind = "refund" /\ up[s].state # "none" => Closed(s)'
  PROVE  /\ events' \subseteq events /\ AnsweredClosed' /\ Events'
         /\ \A t \in Sessions : [kind |-> "failed", s |-> t] \in events => [kind |-> "failed", s |-> t] \in events'
<1> USE DEF UpgradesInv
<1>1. /\ events' \subseteq events
      /\ \A t \in Sessions : [kind |-> "failed", s |-> t] \in events => [kind |-> "failed", s |-> t] \in events'
  BY DEF Answer
<1>2. \A t \in answered' : t \in answered \/ (t = s /\ Closed(s)')
  BY DEF Answer
<1>3. AnsweredClosed'
  BY <1>2 DEF AnsweredClosed, Closed, Grows, TypeOK
<1>4. Events'
  BY <1>1, EventsStill
<1> QED
  BY <1>1, <1>3, <1>4

\* A closed upgrade is still not billed when no failed payment's webhook was
\* answered, and those closed by the step are not billed.
LEMMA ClosedStill ==
  ASSUME UpgradesInv, Grows,
         \A t \in Sessions : [kind |-> "failed", s |-> t] \in events => [kind |-> "failed", s |-> t] \in events',
         \A t \in Sessions : Closed(t)' => Closed(t) \/ Over(t)'
  PROVE  ClosedOver'
  BY SubsAssumption DEF UpgradesInv, ClosedOver, Rows, Closed, Grows, Over

\* A webhook's handler finds the row or the licence, and answers or begins.
LEMMA FindStep ==
  ASSUME UpgradesInv, TypeOK', Grows, NEW w \in Workers, NEW s \in Sessions,
         FindRefunded(w, s) \/ FindEnded(w, s)
  PROVE  UpgradesInv'
<1> USE DEF UpgradesInv
<1>0. /\ workers \in [Workers -> WorkerType] /\ up \in [Sessions -> RowType]
      /\ UNCHANGED <<lic, plans, up, stripe, unrecorded>>
      /\ At(w, "idle")
  BY DEF TypeOK, FindRefunded, FindEnded, Delivered
<1>1. PICK kind \in {"refund", "ended", "unpaid"} :
        /\ [kind |-> kind, s |-> s] \in events
        /\ \/ /\ UNCHANGED <<events, answered>>
              /\ \E pc \in {"cancel", "revert", "finish"} :
                   /\ Begin(w, kind, s, pc)
                   /\ kind = "refund" => up[s].state # "none" /\ pc # "revert"
                   /\ kind = "refund" /\ pc = "finish" => Closed(s)
                   /\ pc = "revert" => kind = "ended"
           \/ /\ UNCHANGED workers /\ Answer(kind, s)
              /\ kind = "refund" /\ up[s].state # "none" => Closed(s)
  <2>1. CASE FindRefunded(w, s)
    BY <2>1 DEF FindRefunded, Delivered, Unsettled, Closed
  <2>2. CASE FindEnded(w, s)
    BY <2>2 DEF FindEnded, Delivered
  <2> QED
    BY <2>1, <2>2
<1>2. CASE UNCHANGED workers /\ Answer(kind, s) /\ (kind = "refund" /\ up[s].state # "none" => Closed(s))
  <2>1. Closed(s)' <=> Closed(s)
    BY <1>0 DEF Closed
  <2>2. AnsweredClosed' /\ Events' /\ ClosedOver'
    BY <1>0, <1>2, <2>1, Answering, ClosedStill DEF Closed
  <2>3. Handlers'
    BY <1>2, KnowsStill DEF Handlers
  <2>4. Starts' /\ Rows' /\ Links' /\ Sole'
    BY <1>0, <1>2, QuietStep
  <2> QED
    BY <2>2, <2>3, <2>4
<1>3. ASSUME NEW pc \in {"cancel", "revert", "finish"}, UNCHANGED <<events, answered>>,
             Begin(w, kind, s, pc),
             kind = "refund" => up[s].state # "none" /\ pc # "revert",
             kind = "refund" /\ pc = "finish" => Closed(s),
             pc = "revert" => kind = "ended"
      PROVE  UpgradesInv'
  <2>1. /\ workers'[w].pc = pc /\ workers'[w].job = kind /\ workers'[w].s = s
        /\ \A v \in Workers : v # w => workers'[v] = workers[v]
    BY <1>0, <1>3 DEF Begin, Idle
  <2>2. stripe[s].checkout = "paid" /\ (kind = "ended" => Over(s))
    BY <1>1 DEF Events
  <2>3. Knows(w)'
    BY <1>0, <1>3, <2>1, <2>2 DEF Knows, At, On, Over, Closed
  <2>4. Events' /\ Handlers' /\ AnsweredClosed' /\ ClosedOver'
    BY <1>0, <1>3, <2>1, <2>3, OtherWorkers DEF Closed
  <2>5. Starts' /\ Rows' /\ Links' /\ Sole'
    BY <1>0, <2>1, QuietStep DEF At
  <2> QED
    BY <2>4, <2>5
<1> QED
  BY <1>1, <1>2, <1>3

\* Cancelling in Stripe, before a handler closes, reverts or ends.
LEMMA CancelStep ==
  ASSUME UpgradesInv, TypeOK', Grows, NEW w \in Workers, CancelSubscription(w)
  PROVE  UpgradesInv'
<1> USE DEF UpgradesInv
<1>s. PICK s \in Sessions : s = On(w)
  BY DEF TypeOK, On, WorkerType
<1>0. /\ workers \in [Workers -> WorkerType] /\ stripe \in [Sessions -> StripeType]
      /\ UNCHANGED <<lic, plans, up, answered, unrecorded>>
      /\ At(w, "cancel") /\ StripeTo(s, Cancelled(s))
      /\ events \subseteq events' /\ events' \subseteq events \cup {[kind |-> "ended", s |-> s]}
  BY <1>s DEF TypeOK, CancelSubscription
<1>1. Over(s)' /\ stripe[s].checkout = "paid" /\ \A t \in Sessions : stripe'[t].checkout = stripe[t].checkout
  BY <1>s, <1>0 DEF StripeTo, Cancelled, Billing, StripeType, Over, Handlers, Knows, At
<1>2. PICK pc \in {"close", "finish", "revert"} :
        /\ workers'[w].pc = pc /\ workers'[w].job = workers[w].job /\ workers'[w].s = s
        /\ pc = "close" <=> workers[w].job = "refund"
        /\ \A v \in Workers : v # w => workers'[v] = workers[v]
  <2>1. PICK pc \in {"close", "finish", "revert"} :
          Goto(w, pc) /\ (pc = "close" <=> workers[w].job = "refund")
    <3>1. CASE workers[w].job = "refund"
      BY <3>1 DEF CancelSubscription
    <3>2. CASE workers[w].job = "admin" /\ workers[w].saw = "none"
      BY <3>2 DEF CancelSubscription
    <3>3. CASE workers[w].job # "refund" /\ ~(workers[w].job = "admin" /\ workers[w].saw = "none")
      BY <3>3 DEF CancelSubscription
    <3> QED
      BY <3>1, <3>2, <3>3
  <2> QED
    BY <1>s, <1>0, <2>1 DEF Goto, On, WorkerType
<1>3. Knows(w)'
  BY <1>s, <1>0, <1>1, <1>2 DEF Handlers, Knows, At, On, Over, Closed
<1>4. Handlers'
  BY <1>2, <1>3, KnowsStill DEF Handlers
<1>5. Events'
  BY <1>0, <1>1, EventsStill
<1>6. AnsweredClosed' /\ ClosedOver'
  BY <1>0, ClosedStill DEF AnsweredClosed, Closed
<1>7. Starts' /\ Rows' /\ Links' /\ Sole'
  <2>1. workers[w].job \in {"refund", "ended", "unpaid", "sweep", "admin"}
    BY <1>0 DEF Handlers, Knows, At
  <2> QED
    BY <1>0, <1>1, <1>2, <2>1, QuietStep DEF At
<1> QED
  BY <1>4, <1>5, <1>6, <1>7

\* A row that may not apply any more is the only thing that changes among rows,
\* links and checkouts.
LEMMA CloseRow ==
  ASSUME UpgradesInv, TypeOK', Grows, NEW s \in Sessions, NEW w \in Workers,
         UNCHANGED <<plans, stripe, unrecorded>>, up[s].state # "none", Closed(s)',
         \A t \in Sessions : t # s => up'[t] = up[t],
         \A v \in Workers : v # w => workers'[v] = workers[v],
         workers[w].pc \notin {"open", "record"}, workers'[w].pc \notin {"open", "record"},
         workers'[w].pc = "idle" \/ workers'[w].job # "start",
         stripe[s].checkout = "paid" \/ (up'[s].state = "void" /\ stripe[s].checkout = "failed"),
         \/ lic'.link = lic.link /\ (lic.link = s => up'[s].state = "reverted" /\ "free" \notin plans)
         \/ lic.link = s /\ lic'.link = None
  PROVE  Starts' /\ Rows' /\ Links' /\ Sole'
<1> USE DEF UpgradesInv
<1>0. \A v \in Workers : On(v) \in Sessions
  BY DEF TypeOK, On, WorkerType
<1>1. Starting' = Starting /\ \A v \in Starting : workers'[v] = workers[v] /\ On(v) # s
  BY DEF Starting, Starts, At
<1>2. Starts'
  BY <1>0, <1>1 DEF Starts, At, On, Starting
<1>3. \A t \in Sessions : Shown(t)' <=> Shown(t)
  BY <1>1 DEF Shown, On
<1>4. Rows'
  BY <1>3 DEF Rows, Unsettled, Closed
<1>5. Links'
  BY SubsAssumption DEF Links, Closed
<1>6. Sole'
  <2>1. \A t \in Sessions : Active(t)' => Active(t)
    BY <1>0, SubsAssumption DEF Active, At, On, Closed
  <2> QED
    BY <2>1 DEF Sole, At
<1> QED
  BY <1>2, <1>4, <1>5, <1>6

\* Closing a refunded upgrade, reverting one, and ending a licence that has no
\* plan to go back to.
LEMMA EndStep ==
  ASSUME UpgradesInv, TypeOK', Grows, NEW w \in Workers,
         CloseRefunded(w) \/ RevertUpgrade(w) \/ FinishEnded(w)
  PROVE  UpgradesInv'
<1> USE DEF UpgradesInv
<1>s. PICK s \in Sessions : s = On(w)
  BY DEF TypeOK, On, WorkerType
<1>0. /\ workers \in [Workers -> WorkerType] /\ up \in [Sessions -> RowType] /\ lic \in LicType
      /\ UNCHANGED <<plans, stripe, unrecorded>>
      /\ \A t \in Sessions : t # s => up'[t] = up[t]
      /\ workers[w].pc \in {"close", "revert", "finish"}
  BY <1>s DEF TypeOK, CloseRefunded, RevertUpgrade, FinishEnded, EndUpgrade, At
<1>1. /\ stripe[s].checkout = "paid"
      /\ workers[w].job \in {"refund", "ended", "unpaid", "sweep", "admin"}
      /\ workers[w].job = "refund" => up[s].state # "none"
      /\ workers[w].pc \in {"close", "revert"} => Over(s) /\ Over(s)'
      /\ At(w, "close") => workers[w].job = "refund"
      /\ At(w, "revert") /\ workers[w].job = "refund" => up[s].state \notin Unsettled
      /\ At(w, "finish") /\ workers[w].job = "refund" => Closed(s)
  BY <1>s, <1>0 DEF Handlers, Knows, Over, At
<1>2. /\ \A v \in Workers : v # w => workers'[v] = workers[v]
      /\ \/ /\ Goto(w, "revert") /\ At(w, "close") /\ UNCHANGED <<up, lic, events, answered>>
            /\ up[s].state \notin Unsettled
         \/ /\ Goto(w, "finish") /\ At(w, "revert") /\ UNCHANGED <<lic, events, answered>>
            /\ up'[s].state = "reverted" /\ lic.link = s /\ "free" \notin plans /\ up[s].state = "applied"
         \/ Finish(w)
  BY <1>s, <1>0 DEF CloseRefunded, RevertUpgrade, FinishEnded, EndUpgrade, Finish, Goto, Done, RowType
<1>3. \/ up'[s].state = up[s].state
      \/ up[s].state \in Unsettled /\ up'[s].state = "refunded" /\ Over(s)'
      \/ up[s].state = "applied" /\ up'[s].state = "reverted" /\ Over(s)'
  BY <1>s, <1>0, <1>1 DEF CloseRefunded, RevertUpgrade, FinishEnded, EndUpgrade, RowType, At
<1>4. workers'[w].pc \in {"idle", "revert", "finish"} /\ (workers'[w].pc = "idle" \/ workers'[w].job # "start")
  BY <1>0, <1>1, <1>2 DEF Goto, Finish, Done, Idle, WorkerType
<1>5. Knows(w)'
  <2>1. CASE Finish(w)
    BY <1>0, <2>1 DEF Finish, Done, Idle, Knows, At
  <2>2. CASE Goto(w, "revert") \/ Goto(w, "finish")
    <3>1. On(w)' = s /\ workers'[w].job = workers[w].job /\ workers'[w].pc \in {"revert", "finish"}
          /\ (Goto(w, "revert") => workers'[w].pc = "revert") /\ (Goto(w, "finish") => workers'[w].pc = "finish")
      BY <1>s, <1>0, <2>2 DEF Goto, On, WorkerType
    <3> QED
      BY <1>0, <1>1, <1>2, <2>1, <3>1 DEF Knows, At, On, Over, Closed, Unsettled
  <2> QED
    BY <1>2, <2>1, <2>2
<1>6. Handlers'
  BY <1>2, <1>5, KnowsStill DEF Handlers
<1>7. /\ Events' /\ AnsweredClosed'
      /\ \A t \in Sessions : [kind |-> "failed", s |-> t] \in events => [kind |-> "failed", s |-> t] \in events'
  <2>1. CASE UNCHANGED <<events, answered>>
    BY <2>1, EventsStill DEF AnsweredClosed, Closed, Grows, TypeOK
  <2>2. CASE Finish(w)
    <3>1. Answer(workers[w].job, s) /\ ~(Goto(w, "revert") \/ Goto(w, "finish"))
      BY <1>s, <1>0, <2>2 DEF Finish, Done, Goto, Idle, WorkerType
    <3>2. workers[w].job = "refund" => Closed(s)'
      BY <1>s, <1>0, <1>1, <3>1
         DEF CloseRefunded, RevertUpgrade, FinishEnded, EndUpgrade, RowType, Closed, Unsettled, At
    <3> QED
      BY <1>1, <3>1, <3>2, Answering
  <2> QED
    BY <1>2, <2>1, <2>2
<1>8. ClosedOver'
  BY <1>0, <1>3, <1>7, ClosedStill DEF Closed
<1>9. Starts' /\ Rows' /\ Links' /\ Sole'
  <2>1. lic'.link = lic.link \/ (lic.link = s /\ lic'.link = None /\ up'[s].state = "reverted" /\ up[s].state = "applied")
    BY <1>s, <1>0 DEF CloseRefunded, RevertUpgrade, FinishEnded, EndUpgrade, Reverted, LicType, RowType
  <2>2. CASE up' = up
    BY <1>0, <1>1, <1>2, <1>4, <2>1, <2>2, QuietStep
  <2>3. CASE up' # up
    <3>1. up'[s] # up[s] /\ Closed(s)' /\ up[s].state # "none"
      BY <1>s, <1>0, <1>3, <2>3 DEF CloseRefunded, RevertUpgrade, FinishEnded, EndUpgrade, Closed, Unsettled, RowType
    <3>2. lic'.link = lic.link /\ lic.link = s => up'[s].state = "reverted" /\ "free" \notin plans
      BY <1>s, <1>0, <1>3, <3>1, SubsAssumption
         DEF CloseRefunded, RevertUpgrade, FinishEnded, EndUpgrade, Reverted, Links, Unsettled, At, RowType
    <3> QED
      BY <1>0, <1>1, <1>2, <1>4, <2>1, <3>1, <3>2, CloseRow
  <2> QED
    BY <2>2, <2>3
<1> QED
  BY <1>6, <1>7, <1>8, <1>9

\* A failed payment voids its upgrade, and then its subscription is cancelled.
LEMMA FailedStep ==
  ASSUME UpgradesInv, TypeOK', Grows, NEW w \in Workers,
         (\E s \in Sessions : CloseFailedUpgrade(w, s)) \/ FindUnpaid(w) \/ CancelUnpaid(w)
  PROVE  UpgradesInv'
<1> USE DEF UpgradesInv
<1>0. /\ workers \in [Workers -> WorkerType] /\ up \in [Sessions -> RowType]
      /\ stripe \in [Sessions -> StripeType]
  BY DEF TypeOK
<1>1. ASSUME NEW s \in Sessions, CloseFailedUpgrade(w, s) PROVE UpgradesInv'
  <2>1. /\ UNCHANGED <<lic, plans, stripe, events, answered, unrecorded>>
        /\ [kind |-> "failed", s |-> s] \in events /\ At(w, "idle")
        /\ workers'[w].pc = "unpaid" /\ workers'[w].job = "failed" /\ workers'[w].s = s
        /\ \A v \in Workers : v # w => workers'[v] = workers[v]
        /\ \A t \in Sessions : t # s => up'[t] = up[t]
        /\ up'[s].state = up[s].state \/ (up[s].state \in Unsettled /\ up'[s].state = "void")
    BY <1>0, <1>1 DEF CloseFailedUpgrade, Delivered, Begin, Idle, RowType
  <2>2. stripe[s].checkout = "failed"
    BY <2>1 DEF Events
  <2>3. Knows(w)'
    BY <2>1, <2>2 DEF Knows, At, On
  <2>4. Events' /\ Handlers'
    BY <2>1, <2>3, EventsStill, KnowsStill DEF Handlers
  <2>5. AnsweredClosed'
    BY <2>1 DEF AnsweredClosed, Closed, Grows, TypeOK
  <2>6. ClosedOver'
    BY <2>1, SubsAssumption DEF ClosedOver, Closed, Over
  <2>7. lic.link # s
    BY <2>2 DEF Links, Rows
  <2>8. Starts' /\ Rows' /\ Links' /\ Sole'
    <3>1. CASE up' = up
      BY <2>1, <3>1, QuietStep DEF At
    <3>2. CASE up' # up
      <4>1. up[s].state \in Unsettled /\ up'[s].state = "void"
        BY <1>0, <1>1, <3>2 DEF CloseFailedUpgrade, RowType
      <4> QED
        BY <2>1, <2>2, <2>7, <4>1, CloseRow DEF At, Closed, Unsettled
    <3> QED
      BY <3>1, <3>2
  <2> QED
    BY <2>4, <2>5, <2>6, <2>8
<1>2. ASSUME FindUnpaid(w) \/ CancelUnpaid(w) PROVE UpgradesInv'
  <2>s. PICK s \in Sessions : s = On(w)
    BY DEF TypeOK, On, WorkerType
  <2>1. /\ UNCHANGED <<lic, plans, up, unrecorded>>
        /\ workers[w].pc \in {"unpaid", "unbill"} /\ workers'[w].pc \in {"idle", "unbill"}
        /\ \A v \in Workers : v # w => workers'[v] = workers[v]
        /\ workers'[w].pc = "idle" \/ (workers'[w].job = workers[w].job /\ workers'[w].s = s)
        /\ Answer(workers[w].job, s) \/ UNCHANGED <<events, answered>>
    <3>1. /\ UNCHANGED <<lic, plans, up, unrecorded>>
          /\ workers[w].pc \in {"unpaid", "unbill"}
          /\ Finish(w) \/ (Goto(w, "unbill") /\ UNCHANGED <<events, answered>>)
      BY <1>2 DEF FindUnpaid, CancelUnpaid, At
    <3>2. CASE Finish(w)
      BY <1>0, <2>s, <3>1, <3>2 DEF Finish, Done, Idle
    <3>3. CASE Goto(w, "unbill") /\ UNCHANGED <<events, answered>>
      BY <1>0, <2>s, <3>1, <3>3 DEF Goto, On, WorkerType
    <3> QED
      BY <3>1, <3>2, <3>3
  <2>2. workers[w].job = "failed" /\ stripe[s].checkout = "failed"
    BY <2>s, <2>1 DEF Handlers, Knows
  <2>3. lic.link # s
    BY <2>2 DEF Links, Rows
  <2>4. /\ \A t \in Sessions : stripe'[t].checkout = stripe[t].checkout
        /\ events' = events \/ Over(s)' \/ "paid" \notin plans
    <3>1. CASE FindUnpaid(w)
      BY <2>s, <2>3, <3>1 DEF FindUnpaid
    <3>2. CASE CancelUnpaid(w)
      BY <1>0, <2>s, <3>2 DEF CancelUnpaid, StripeTo, Cancelled, Billing, StripeType, Over
    <3> QED
      BY <1>2, <3>1, <3>2
  <2>5. /\ events' \subseteq events /\ answered' = answered
        /\ \A t \in Sessions : t # s /\ [kind |-> "failed", s |-> t] \in events =>
              [kind |-> "failed", s |-> t] \in events'
    BY <2>1, <2>2 DEF Answer
  <2>6. Knows(w)'
    BY <2>1, <2>2, <2>4 DEF Knows, At, On
  <2>7. Events' /\ Handlers'
    BY <2>1, <2>5, <2>6, EventsStill, KnowsStill DEF Handlers
  <2>8. AnsweredClosed'
    BY <2>1, <2>5 DEF AnsweredClosed, Closed
  <2>9. ClosedOver'
    BY <2>1, <2>2, <2>4, <2>5, SubsAssumption DEF ClosedOver, Rows, Closed, Grows, Over
  <2>10. Starts' /\ Rows' /\ Links' /\ Sole'
    BY <2>1, <2>2, <2>4, QuietStep DEF At
  <2> QED
    BY <2>7, <2>8, <2>9, <2>10
<1> QED
  BY <1>1, <1>2

-----------------------------------------------------------------------------
(***************************************************************************)
(* The sweeps, the operator and failures                                   *)
(***************************************************************************)

\* A sweep or an admin begins, an operator or its end date moves the licence,
\* or a plan is deleted.
LEMMA OperatorStep ==
  ASSUME UpgradesInv, TypeOK', Grows,
         \/ \E w \in Workers : Sweep(w) \/ CancelForAdmin(w)
         \/ SuspendLicense \/ ReinstateLicense \/ RevokeLicense \/ UnlinkSubscription
         \/ FreeLicenseLapses \/ \E p \in {"free", "paid"} : DeletePlan(p)
  PROVE  UpgradesInv'
<1> USE DEF UpgradesInv
<1>0. /\ workers \in [Workers -> WorkerType] /\ lic \in LicType
      /\ UNCHANGED <<up, stripe, events, answered, unrecorded>>
  BY DEF TypeOK, Sweep, CancelForAdmin, SuspendLicense, ReinstateLicense, RevokeLicense, SetStatus,
         UnlinkSubscription, FreeLicenseLapses, DeletePlan
<1>1. Events' /\ AnsweredClosed' /\ ClosedOver'
  BY <1>0, EventsStill, ClosedStill DEF AnsweredClosed, Closed
<1>2. ASSUME NEW w \in Workers, Sweep(w) \/ CancelForAdmin(w) PROVE UpgradesInv'
  <2>1. /\ lic.link \in Sessions /\ lic' = lic /\ plans' = plans
        /\ At(w, "idle")
        /\ workers'[w].pc \in {"cancel", "finish"} /\ workers'[w].job \in {"sweep", "admin"}
        /\ workers'[w].s = lic.link
        /\ \A v \in Workers : v # w => workers'[v] = workers[v]
    <3>1. CASE Sweep(w)
      <4>1. PICK pc \in {"cancel", "finish"} : Begin(w, "sweep", lic.link, pc)
        BY <3>1 DEF Sweep
      <4>2. /\ workers'[w].pc = pc /\ workers'[w].job = "sweep" /\ workers'[w].s = lic.link
            /\ At(w, "idle") /\ \A v \in Workers : v # w => workers'[v] = workers[v]
        BY <1>0, <4>1 DEF Begin, Idle
      <4>3. lic.link \in Sessions /\ lic' = lic /\ plans' = plans
        BY <3>1, SubsAssumption DEF Sweep
      <4> QED
        BY <4>2, <4>3
    <3>2. CASE CancelForAdmin(w)
      <4>1. PICK x \in {"stands", "none"} :
              workers' = [workers EXCEPT ![w] = [pc |-> "cancel", job |-> "admin", s |-> lic.link, saw |-> x]]
        BY <3>2 DEF CancelForAdmin
      <4>2. lic.link \in Sessions /\ lic' = lic /\ plans' = plans /\ At(w, "idle")
        BY <3>2, SubsAssumption DEF CancelForAdmin
      <4> QED
        BY <1>0, <4>1, <4>2
    <3> QED
      BY <1>2, <3>1, <3>2
  <2>2. stripe[lic.link].checkout = "paid"
    BY <2>1 DEF Links, Rows
  <2>3. Knows(w)'
    BY <1>0, <2>1, <2>2 DEF Knows, At, On
  <2>4. Handlers'
    BY <2>1, <2>3, KnowsStill DEF Handlers
  <2>5. Starts' /\ Rows' /\ Links' /\ Sole'
    BY <1>0, <2>1, QuietStep DEF At
  <2> QED
    BY <1>1, <2>4, <2>5
<1>3. ASSUME SuspendLicense \/ ReinstateLicense \/ RevokeLicense \/ FreeLicenseLapses
             \/ \E p \in {"free", "paid"} : DeletePlan(p)
      PROVE  UpgradesInv'
  <2>1. workers' = workers /\ lic'.link = lic.link
    BY <1>0, <1>3 DEF SuspendLicense, ReinstateLicense, RevokeLicense, SetStatus, FreeLicenseLapses, DeletePlan, LicType
  <2>2. Handlers'
    BY <2>1, KnowsStill DEF Handlers
  <2>3. Starts' /\ Rows' /\ Links' /\ Sole'
    BY <1>0, <2>1, QuietStep
  <2> QED
    BY <1>1, <2>2, <2>3
<1>4. ASSUME UnlinkSubscription PROVE UpgradesInv'
  <2>1. /\ UNCHANGED <<workers, plans>> /\ lic'.link = None
        /\ lic.link \in Subs /\ stripe[lic.link].sub = "ended"
    BY <1>0, <1>4 DEF UnlinkSubscription, LicType
  <2>2. Handlers'
    BY <2>1, KnowsStill DEF Handlers
  <2>3. Starts' /\ Rows'
    BY <1>0, <2>1 DEF Starts, Rows, Starting, Shown, At, On
  <2>4. Links'
    BY <1>0, <2>1, SubsAssumption DEF Links
  <2>5. Sole'
    BY <1>0, <2>1, SubsAssumption DEF Sole, Active, At, On
  <2> QED
    BY <1>1, <2>2, <2>3, <2>4, <2>5
<1> QED
  BY <1>2, <1>3, <1>4

\* A handler fails between two of its steps.
LEMMA FailStep ==
  ASSUME UpgradesInv, TypeOK', Grows, NEW w \in Workers, Fail(w)
  PROVE  UpgradesInv'
<1> USE DEF UpgradesInv
<1>1. /\ UNCHANGED <<lic, plans, up, stripe, events, answered, unrecorded>>
      /\ workers'[w] = Idle /\ workers'[w].pc = "idle" /\ ~At(w, "record")
      /\ \A v \in Workers : v # w => workers'[v] = workers[v]
  BY DEF TypeOK, Fail, Done, Idle
<1>2. CASE At(w, "open")
  BY <1>1, <1>2, StartEnds
<1>3. CASE ~At(w, "open")
  <2>1. Knows(w)' /\ \A t \in Sessions : Closed(t)' => Closed(t)
    BY <1>1 DEF Knows, At, Closed
  <2>2. Events' /\ Handlers' /\ AnsweredClosed' /\ ClosedOver'
    BY <1>1, <2>1, OtherWorkers
  <2>3. Starts' /\ Rows' /\ Links' /\ Sole'
    BY <1>1, <1>3, QuietStep DEF At
  <2> QED
    BY <2>2, <2>3
<1> QED
  BY <1>2, <1>3

-----------------------------------------------------------------------------
(***************************************************************************)
(* The theorems                                                            *)
(***************************************************************************)

\* The invariant holds initially.
LEMMA UpgradesInit == Init => UpgradesInv
<1> SUFFICES ASSUME Init PROVE UpgradesInv
  OBVIOUS
<1>1. TypeOK
  BY IdleType DEF Init, TypeOK, LicType, Linked, RowType, StripeType
<1>2. \A w \in Workers : workers[w].pc = "idle"
  BY DEF Init, Idle
<1>3. Starts /\ Handlers /\ Events
  BY <1>2 DEF Init, Starts, Starting, At, Handlers, Knows, Events
<1>4. Rows /\ AnsweredClosed /\ ClosedOver
  BY SubsAssumption DEF Init, Rows, AnsweredClosed, ClosedOver, Closed, Unsettled
<1>5. Links /\ Sole
  BY <1>2, SubsAssumption DEF Init, Links, Sole, Active, At
<1> QED
  BY <1>1, <1>3, <1>4, <1>5 DEF UpgradesInv

\* Every step keeps it.
LEMMA UpgradesPreserved == UpgradesInv /\ [Next]_vars => UpgradesInv'
<1> SUFFICES ASSUME UpgradesInv, [Next]_vars PROVE UpgradesInv'
  OBVIOUS
<1>1. TypeOK'
  BY TypeNext DEF UpgradesInv
<1>2. ASSUME Next PROVE UpgradesInv'
  <2>1. Grows
    BY <1>2, NextGrows
  <2>2. ASSUME NEW s \in Sessions,
               \/ Pay(s) \/ PayLater(s) \/ PaymentFails(s) \/ CheckoutLapses(s) \/ Refund(s) \/ SubscriptionMoves(s)
        PROVE  UpgradesInv'
    BY <1>1, <2>1, <2>2, CustomerStep
  <2>3. ASSUME NEW w \in Workers, NEW s \in Sessions, StartUpgrade(w, s) PROVE UpgradesInv'
    BY <1>1, <2>1, <2>3, StartStep
  <2>4. ASSUME NEW w \in Workers, OpenCheckout(w) PROVE UpgradesInv'
    BY <1>1, <2>1, <2>4, OpenStep
  <2>5. ASSUME NEW w \in Workers, RecordUpgrade(w) \/ NotRecorded(w) PROVE UpgradesInv'
    BY <1>1, <2>1, <2>5, RecordStep
  <2>6. ASSUME NEW w \in Workers, (\E s \in Sessions : UpgradeStillPaid(w, s)) \/ ApplyUpgrade(w) PROVE UpgradesInv'
    BY <1>1, <2>1, <2>6, FulfilStep
  <2>7. ASSUME NEW w \in Workers, NEW s \in Sessions, FindRefunded(w, s) \/ FindEnded(w, s) PROVE UpgradesInv'
    BY <1>1, <2>1, <2>7, FindStep
  <2>8. ASSUME NEW w \in Workers, CancelSubscription(w) PROVE UpgradesInv'
    BY <1>1, <2>1, <2>8, CancelStep
  <2>9. ASSUME NEW w \in Workers, CloseRefunded(w) \/ RevertUpgrade(w) \/ FinishEnded(w) PROVE UpgradesInv'
    BY <1>1, <2>1, <2>9, EndStep
  <2>10. ASSUME NEW w \in Workers, (\E s \in Sessions : CloseFailedUpgrade(w, s)) \/ FindUnpaid(w) \/ CancelUnpaid(w)
         PROVE  UpgradesInv'
    BY <1>1, <2>1, <2>10, FailedStep
  <2>11. ASSUME \/ \E w \in Workers : Sweep(w) \/ CancelForAdmin(w)
                \/ SuspendLicense \/ ReinstateLicense \/ RevokeLicense \/ UnlinkSubscription
         \/ FreeLicenseLapses \/ \E p \in {"free", "paid"} : DeletePlan(p)
         PROVE  UpgradesInv'
    BY <1>1, <2>1, <2>11, OperatorStep
  <2>12. ASSUME NEW w \in Workers, Fail(w) PROVE UpgradesInv'
    BY <1>1, <2>1, <2>12, FailStep
  <2> QED
    BY <1>2, <2>2, <2>3, <2>4, <2>5, <2>6, <2>7, <2>8, <2>9, <2>10, <2>11, <2>12 DEF Next, Step
<1>3. CASE UNCHANGED vars
  BY <1>3 DEF vars, UpgradesInv, TypeOK, Starts, Starting, Rows, Shown, Events, Handlers, Knows, Links,
              AnsweredClosed, ClosedOver, Closed, Over, Sole, Active, At, On
<1> QED
  BY <1>2, <1>3

\* UpgradesInv holds in every state.
THEOREM UpgradesInvHolds == Spec => []UpgradesInv
  BY UpgradesInit, UpgradesPreserved, PTL DEF Spec

\* A refund answered without error ends what it paid for, and a closed upgrade
\* with nothing under way is not billed (refundUpgrade, fulfillUpgrade,
\* endSubscriptionUpgrade).
THEOREM RefundEndsUpgradeHolds == Spec => []RefundEndsUpgrade
<1>1. UpgradesInv => RefundEndsUpgrade
  BY DEF UpgradesInv, TypeOK, AnsweredClosed, ClosedOver, Links, Closed, Over, UnderWay, RefundEndsUpgrade
<1> QED
  BY <1>1, UpgradesInvHolds, PTL

\* The licence is never owed two recorded upgrades at once (StartUpgrade).
THEOREM OneOwedHolds == Spec => []OneOwed
<1>1. UpgradesInv => OneOwed
  <2>1. ASSUME UpgradesInv, NEW s \in Sessions \ unrecorded, Owed(s) PROVE Active(s)
    BY <2>1 DEF UpgradesInv, Rows, Links, Active, Owed
  <2> QED
    BY <2>1 DEF UpgradesInv, Sole, OneOwed
<1> QED
  BY <1>1, UpgradesInvHolds, PTL

-----------------------------------------------------------------------------
(***************************************************************************)
(* Renewals                                                                *)
(*                                                                         *)
(* RefundNotLost is inductive only with one row to a checkout: of two, the *)
(* refund would mark the one and leave the other.                          *)
(***************************************************************************)

\* A row of the ledger, as far as what a refund does to it goes.
IsEntry(r) == {"intent", "refunded", "superseded"} \subseteq DOMAIN r

\* The rows are a sequence, and a checkout has at most one.
Listed(rows) ==
  /\ \E S : rows \in Seq(S)
  /\ \A k \in DOMAIN rows : IsEntry(rows[k])
  /\ \A j, k \in DOMAIN rows : rows[j].intent = rows[k].intent => j = k

RenewalsInv == now \in Nat \ {0} /\ Listed(ledger) /\ Renewals!RefundNotLost

\* Rows that say the same of who they are for and what was refunded.
SameEntries(rows, s) ==
  /\ DOMAIN s = DOMAIN rows
  /\ \A k \in DOMAIN rows : s[k].intent = rows[k].intent /\ s[k].refunded = rows[k].refunded

\* s is the rows but that row k is refunded at t, or with r after them.
Marks(rows, s, k, t) ==
  /\ Listed(s)
  /\ DOMAIN s = DOMAIN rows
  /\ \A j \in DOMAIN rows :
       s[j].intent = rows[j].intent /\ s[j].refunded = IF j = k THEN t ELSE rows[j].refunded
Adds(rows, s, r) ==
  /\ Listed(s)
  /\ DOMAIN s = DOMAIN rows \cup {Len(s)}
  /\ s[Len(s)] = r
  /\ \A j \in DOMAIN rows : s[j] = rows[j] /\ j # Len(s)

\* Superseding the rows of a period changes neither.
LEMMA SupersededRows ==
  ASSUME NEW rows, Listed(rows)
  PROVE  Listed(Renewals!Superseded(rows)) /\ SameEntries(rows, Renewals!Superseded(rows))
<1> DEFINE row(k) == [rows[k] EXCEPT !.superseded = TRUE]
<1> DEFINE s == [k \in DOMAIN rows |-> row(k)]
<1>1. PICK S : rows \in Seq(S)
  BY DEF Listed
<1>2. DOMAIN rows = 1 .. Len(rows) /\ Len(rows) \in Nat
  BY <1>1
<1>3. \A k \in DOMAIN rows :
        IsEntry(row(k)) /\ row(k).intent = rows[k].intent /\ row(k).refunded = rows[k].refunded
  BY DEF Listed, IsEntry
<1>0. Renewals!Superseded(rows) = s
  BY DEF Renewals!Superseded
<1> HIDE DEF row
<1>4. s \in Seq({row(k) : k \in DOMAIN rows})
  <2> DEFINE T == {row(k) : k \in DOMAIN rows}
  <2>1. \A k \in 1 .. Len(rows) : row(k) \in T
    BY <1>2
  <2> HIDE DEF T
  <2>2. s \in [1 .. Len(rows) -> T]
    BY <1>2, <2>1
  <2>3. s \in Seq(T)
    BY <1>2, <2>2
  <2> QED BY <2>3 DEF T
<1>6. \A k \in DOMAIN rows : s[k] = row(k)
  OBVIOUS
<1>7. DOMAIN s = DOMAIN rows
  OBVIOUS
<1> HIDE DEF s
<1> QED
  BY <1>0, <1>3, <1>4, <1>6, <1>7 DEF Listed, SameEntries

\* A row marked as refunded keeps the checkout it is for.
LEMMA RefundedRow ==
  ASSUME NEW rows, Listed(rows), NEW k \in DOMAIN rows, NEW t,
         NEW s, s = [rows EXCEPT ![k].refunded = t]
  PROVE  Marks(rows, s, k, t)
<1> DEFINE r == [rows[k] EXCEPT !.refunded = t]
<1>1. PICK S : rows \in Seq(S)
  BY DEF Listed
<1>2. IsEntry(rows[k]) /\ IsEntry(r) /\ r.intent = rows[k].intent /\ r.refunded = t
  BY DEF Listed, IsEntry
<1>3. s = [rows EXCEPT ![k] = r]
  OBVIOUS
<1> HIDE DEF r
<1>4. DOMAIN s = DOMAIN rows /\ \A j \in DOMAIN rows : s[j] = IF j = k THEN r ELSE rows[j]
  BY <1>3
<1>5. rows \in Seq(S \cup {r})
  BY <1>1
<1>6. s \in Seq(S \cup {r})
  BY <1>3, <1>5
<1>7. \A j \in DOMAIN s : IsEntry(s[j]) /\ s[j].intent = rows[j].intent
  BY <1>2, <1>4 DEF Listed
<1>8. Listed(s)
  <2>1. \A l, j \in DOMAIN s : s[l].intent = s[j].intent => l = j
    <3>1. \A l, j \in DOMAIN rows : rows[l].intent = rows[j].intent => l = j
      BY Zenon DEF Listed
    <3>2. DOMAIN s = DOMAIN rows
      BY <1>4
    <3> QED BY <1>7, <3>1, <3>2
  <2>2. \A j \in DOMAIN s : IsEntry(s[j])
    BY <1>7
  <2>3. \E T : s \in Seq(T)
    BY <1>6, Zenon
  <2> QED BY <2>1, <2>2, <2>3, Zenon DEF Listed
<1>9. \A j \in DOMAIN rows : s[j].intent = rows[j].intent /\ s[j].refunded = IF j = k THEN t ELSE rows[j].refunded
  BY <1>2, <1>4
<1> QED
  BY <1>4, <1>8, <1>9 DEF Marks

\* A row of a checkout that has none goes after the others.
LEMMA AppendedRow ==
  ASSUME NEW rows, Listed(rows), NEW r, IsEntry(r),
         \A k \in DOMAIN rows : rows[k].intent # r.intent,
         NEW s, s = Append(rows, r)
  PROVE  Adds(rows, s, r)
<1>1. PICK S : rows \in Seq(S)
  BY DEF Listed
<1>2. /\ Len(rows) \in Nat /\ DOMAIN rows = 1 .. Len(rows)
      /\ Len(s) = Len(rows) + 1 /\ DOMAIN s = 1 .. Len(rows) + 1
      /\ s[Len(rows) + 1] = r
      /\ \A j \in 1 .. Len(rows) : s[j] = rows[j]
  BY <1>1
<1>3. rows \in Seq(S \cup {r})
  BY <1>1
<1>4. s \in Seq(S \cup {r})
  BY <1>3
<1>5. /\ DOMAIN s = DOMAIN rows \cup {Len(s)} /\ s[Len(s)] = r
      /\ \A j \in DOMAIN rows : s[j] = rows[j] /\ j # Len(s)
  BY <1>2
<1>6. Listed(s)
  BY <1>4, <1>5 DEF Listed
<1> QED
  BY <1>5, <1>6 DEF Adds

LEMMA RenewalsInit == Renewals!Init => RenewalsInv
<1> SUFFICES ASSUME Renewals!Init PROVE RenewalsInv
  OBVIOUS
<1>1. ledger = <<>> /\ handled = {} /\ now = 1
  BY DEF Renewals!Init
<1>2. Listed(ledger)
  BY <1>1 DEF Listed
<1> QED
  BY <1>1, <1>2 DEF RenewalsInv, Renewals!RefundNotLost

\* A step that keeps the rows and what they say of refunds.
LEMMA SameRows ==
  ASSUME RenewalsInv, now' \in Nat \ {0}, Listed(ledger'), SameEntries(ledger, ledger'),
         UNCHANGED <<early, handled>>
  PROVE  RenewalsInv'
BY DEF RenewalsInv, SameEntries, Renewals!RefundNotLost, Renewals!HasRow, Renewals!Never

\* A renewal is applied only where no refund came first.
LEMMA FulfillRow ==
  ASSUME RenewalsInv, NEW w \in Workers, Renewals!FulfillRenewal(w)
  PROVE  RenewalsInv'
<1> DEFINE i == renewers[w]
<1>1. now \in Nat \ {0} /\ Listed(ledger) /\ Renewals!RefundNotLost
  BY DEF RenewalsInv
<1>2. handled' = handled
  BY DEF Renewals!FulfillRenewal
<1> DEFINE Entry(applied, refunded) == Renewals!Row(i, applied, refunded)
<1>3. \A a, t : IsEntry(Entry(a, t)) /\ Entry(a, t).intent = i /\ Entry(a, t).refunded = t
  BY DEF IsEntry, Renewals!Row
<1> HIDE DEF Entry
<1>4. CASE UNCHANGED <<now, ledger, early>>
  BY <1>1, <1>2, <1>4 DEF RenewalsInv, Renewals!RefundNotLost, Renewals!HasRow
<1>5. ASSUME NEW a, NEW t, ledger' = Append(ledger, Entry(a, t)), ~Renewals!HasRow(i), now' = now + 1,
             \/ t = 0 /\ i \notin early /\ early' = early
             \/ t # 0 /\ early' = early \ {i}
      PROVE  RenewalsInv'
  <2> DEFINE n == Len(ledger')
  <2>1. \A k \in DOMAIN ledger : ledger[k].intent # i
    BY <1>5 DEF Renewals!HasRow
  <2>2. /\ Listed(ledger')
        /\ DOMAIN ledger' = DOMAIN ledger \cup {n} /\ ledger'[n] = Entry(a, t)
        /\ \A j \in DOMAIN ledger : ledger'[j] = ledger[j] /\ j # n
    <3>1. IsEntry(Entry(a, t)) /\ \A k \in DOMAIN ledger : ledger[k].intent # Entry(a, t).intent
      BY <1>3, <2>1
    <3>2. Adds(ledger, ledger', Entry(a, t))
      BY <1>1, <1>5, <3>1, AppendedRow, Zenon
    <3> QED BY <3>2, Zenon DEF Adds
  <2> HIDE DEF n
  <2>3. i \in handled => t # 0
    BY <1>1, <1>5 DEF Renewals!RefundNotLost
  <2>4. Renewals!RefundNotLost'
    <3> SUFFICES ASSUME NEW j \in handled
                 PROVE  IF Renewals!HasRow(j)'
                        THEN \A k \in DOMAIN ledger' : ledger'[k].intent = j => ledger'[k].refunded # 0
                        ELSE j \in early'
      BY <1>2 DEF Renewals!RefundNotLost, Renewals!Never
    <3>1. CASE j = i
      BY <1>3, <2>1, <2>2, <2>3, <3>1 DEF Renewals!HasRow
    <3>2. CASE j # i
      BY <1>1, <1>3, <1>5, <2>2, <3>2 DEF Renewals!HasRow, Renewals!RefundNotLost, Renewals!Never
    <3> QED BY <3>1, <3>2
  <2> QED BY <1>1, <1>5, <2>2, <2>4 DEF RenewalsInv
<1>6. CASE ~Renewals!HasRow(i) /\ Renewals!RefundedFirst(i) /\ Renewals!RecordRefundedRenewal(i)
  BY <1>1, <1>6, <1>5 DEF Renewals!RecordRefundedRenewal, Renewals!Stamped, Entry
<1>7. CASE ~Renewals!HasRow(i) /\ ~Renewals!RefundedFirst(i) /\ Renewals!ApplyLicenseRenewal(i)
  BY <1>7, <1>5 DEF Renewals!ApplyLicenseRenewal, Renewals!RefundedFirst, Renewals!Stamped, Renewals!Never, Entry
<1> QED BY <1>4, <1>6, <1>7 DEF Renewals!FulfillRenewal

\* A refund marks the renewal's row, or is kept for when it has one.
LEMMA RefundRow ==
  ASSUME RenewalsInv, NEW i \in Intents, Renewals!TakeBackCharge(i)
  PROVE  RenewalsInv'
<1>1. now \in Nat \ {0} /\ Listed(ledger) /\ Renewals!RefundNotLost
  BY DEF RenewalsInv
<1>2. handled' = handled \cup {i}
  BY DEF Renewals!TakeBackCharge
<1>3. CASE ~Renewals!HasRow(i) /\ early' = early \cup {i} /\ UNCHANGED <<now, ledger>>
  BY <1>1, <1>2, <1>3 DEF RenewalsInv, Renewals!RefundNotLost, Renewals!HasRow
<1>4. CASE /\ \E k \in DOMAIN ledger : ledger[k].intent = i /\ ledger[k].refunded # Renewals!Never
           /\ UNCHANGED <<now, ledger, early>>
  BY <1>1, <1>2, <1>4 DEF RenewalsInv, Renewals!RefundNotLost, Renewals!HasRow, Listed
<1>5. ASSUME NEW k \in DOMAIN ledger, ledger[k].intent = i, now' = now + 1,
             ledger' = [ledger EXCEPT ![k].refunded = now], early' = early
      PROVE  RenewalsInv'
  <2>1. Marks(ledger, ledger', k, now)
    BY <1>1, <1>5, RefundedRow, Zenon
  <2>2. Renewals!RefundNotLost'
    BY <1>1, <1>2, <1>5, <2>1 DEF Marks, Renewals!RefundNotLost, Renewals!HasRow, Renewals!Never, Listed
  <2> QED BY <1>1, <1>5, <2>1, <2>2 DEF Marks, RenewalsInv
<1> QED BY <1>3, <1>4, <1>5 DEF Renewals!TakeBackCharge, Renewals!Stamped

LEMMA RenewalsStep ==
  ASSUME RenewalsInv, [Renewals!Next]_renewalVars
  PROVE  RenewalsInv'
<1>1. now \in Nat \ {0} /\ Listed(ledger) /\ SameEntries(ledger, ledger)
  BY DEF RenewalsInv, SameEntries
<1>2. Listed(Renewals!Superseded(ledger)) /\ SameEntries(ledger, Renewals!Superseded(ledger))
  BY <1>1, SupersededRows
<1>3. CASE UNCHANGED renewalVars
  BY <1>1, <1>3, SameRows DEF renewalVars
<1>4. ASSUME NEW i \in Intents,
             \/ Renewals!RenewUpdates(i) \/ Renewals!Pay(i) \/ Renewals!Refund(i)
             \/ \E w \in Workers : Renewals!ClaimSession(w, i)
      PROVE  RenewalsInv'
  BY <1>1, <1>4, SameRows DEF Renewals!RenewUpdates, Renewals!Pay, Renewals!Refund, Renewals!ClaimSession
<1>7. ASSUME \/ \E w \in Workers : Renewals!Fail(w)
             \/ Renewals!SeeUpdatesUntil \/ Renewals!SetActive
      PROVE  RenewalsInv'
  BY <1>1, <1>7, SameRows DEF Renewals!Fail, Renewals!SeeUpdatesUntil, Renewals!SetActive
<1>5. CASE Renewals!Tick
  BY <1>1, <1>5, SameRows DEF Renewals!Tick
<1>6. ASSUME NEW e, Renewals!SetLicenseUpdatesUntil(e) \/ Renewals!ChangePlan(e) PROVE RenewalsInv'
  <2>1. /\ ledger' = ledger \/ ledger' = Renewals!Superseded(ledger)
        /\ UNCHANGED <<now, early, handled>>
    BY <1>6 DEF Renewals!SetLicenseUpdatesUntil, Renewals!ChangePlan
  <2> QED BY <1>1, <1>2, <2>1, SameRows
<1> QED
  BY <1>3, <1>4, <1>5, <1>6, <1>7, FulfillRow, RefundRow DEF Renewals!Next

\* A refund handled before the renewal was applied is not lost, and one
\* handled after it marks the row: whatever callers, refunds, edits and
\* changes of plan come between, no renewal that was taken back still counts
\* (takeBackCharge, fulfillRenewal).
THEOREM RefundNotLostHolds == Purchases => [](part = "renewals" => Renewals!RefundNotLost)
<1> DEFINE Inv == part = "renewals" => RenewalsInv
<1>1. PurchasesInit => Inv
  BY RenewalsInit DEF PurchasesInit
<1>2. ASSUME Inv, [PurchasesNext]_<<part, vars, renewalVars>> PROVE Inv'
  BY <1>2, RenewalsStep DEF PurchasesNext, UpgradesNext, RenewalsNext
<1>3. Inv => (part = "renewals" => Renewals!RefundNotLost)
  BY DEF RenewalsInv
<1> QED BY <1>1, <1>2, <1>3, PTL DEF Purchases

-----------------------------------------------------------------------------
(***************************************************************************)
(* The period, replayed                                                    *)
(*                                                                         *)
(* The replay of a ledger and the history of a period are both folds over  *)
(* a sequence: an end, and what each element makes of it.  They are        *)
(* compared as functions of what was taken back, all at once, so that what *)
(* is proved of them is kept by a step: a renewal or an edit adds one      *)
(* element, and a refund is one more thing taken back.                     *)
(***************************************************************************)

AnEnd == Int \cup {Life}

\* e is where the first n steps lead from no end, one after the other.
Steps(st, n) == \A k \in 1 .. n : st[k] \in [AnEnd -> AnEnd]
Leads(e, st, n) ==
  /\ e \in [0 .. n -> AnEnd]
  /\ e[0] = Life
  /\ \A k \in 1 .. n : e[k] = st[k][e[k - 1]]
After(st, n) == (CHOOSE e : Leads(e, st, n))[n]

\* A set of naturals that is not empty has a least one.
LEMMA LeastNat ==
  ASSUME NEW T, T \subseteq Nat, T # {}
  PROVE  \E n \in T : \A m \in T : n <= m
<1> DEFINE R == OpToRel(<, Nat)
<1>1. R = {p \in Nat \X Nat : p[1] < p[2]}
  BY DEF OpToRel
<1>2. PICK n \in T : \A m \in T : ~(<<m, n>> \in R)
  BY NatLessThanWellFounded, WFMin
<1>3. \A m \in T : ~(m < n)
  BY <1>1, <1>2
<1> QED BY <1>3

\* Two functions that go on alike agree.
GoesOn(n, e, f) == e[0] = f[0] /\ \A k \in 1 .. n : e[k - 1] = f[k - 1] => e[k] = f[k]
Agree(n, e, f) == \A k \in 0 .. n : e[k] = f[k]

LEMMA GoOnAlike ==
  ASSUME NEW n \in Nat, NEW e, NEW f, GoesOn(n, e, f)
  PROVE  Agree(n, e, f)
<1> DEFINE T == {k \in 0 .. n : e[k] # f[k]}
<1>1. SUFFICES ASSUME T # {} PROVE FALSE
  BY DEF Agree
<1>2. T \subseteq Nat
  OBVIOUS
<1> HIDE DEF T
<1>3. PICK k \in T : \A m \in T : k <= m
  BY <1>1, <1>2, LeastNat
<1>4. k \in 0 .. n /\ e[k] # f[k]
  BY DEF T
<1>5. k \in 1 .. n /\ k - 1 \in 0 .. n
  BY <1>4 DEF GoesOn
<1>6. k - 1 \notin T
  BY <1>3, <1>5
<1>7. e[k - 1] = f[k - 1]
  BY <1>5, <1>6 DEF T
<1> QED BY <1>4, <1>5, <1>7 DEF GoesOn

\* The beginning of a sequence, from a place on, grows by its elements.
LEMMA SubSeqGrows ==
  ASSUME NEW S, NEW q \in Seq(S), NEW m \in Nat, NEW k \in 1 .. Len(q), k > m
  PROVE  SubSeq(q, m + 1, k) = Append(SubSeq(q, m + 1, k - 1), q[k])
<1> DEFINE a == SubSeq(q, m + 1, k)
           b == SubSeq(q, m + 1, k - 1)
           n == k - m
<1>1. n \in Nat \ {0} /\ m + n = k /\ k \in Nat /\ k <= Len(q) /\ Len(q) \in Nat
  OBVIOUS
<1>2. a \in Seq(S) /\ Len(a) = n /\ \A j \in 1 .. n : a[j] = q[m + j]
  BY <1>1
<1>3. b \in Seq(S) /\ Len(b) = n - 1 /\ \A j \in 1 .. n - 1 : b[j] = q[m + j]
  BY <1>1
<1>4. q[k] \in S
  OBVIOUS
<1> HIDE DEF a, b, n
<1> DEFINE c == Append(b, q[k])
<1>5. c \in Seq(S) /\ Len(c) = n /\ c[n] = q[k] /\ \A j \in 1 .. n - 1 : c[j] = b[j]
  BY <1>1, <1>3, <1>4
<1> HIDE DEF c
<1>6. ASSUME NEW j \in 1 .. n PROVE a[j] = c[j]
  <2>1. j \in 1 .. n - 1 \/ j = n
    BY <1>1
  <2> QED BY <1>1, <1>2, <1>3, <1>5, <2>1
<1>7. a = c
  BY <1>1, <1>2, <1>5, <1>6
<1> QED BY <1>7 DEF a, b, c

\* Steps lead somewhere.
LEMMA LeadsSomewhere ==
  ASSUME NEW n \in Nat, NEW st, Steps(st, n)
  PROVE  \E e : Leads(e, st, n)
<1> DEFINE T == {m \in 0 .. n : ~\E e : Leads(e, st, m)}
<1>1. SUFFICES ASSUME T # {} PROVE FALSE
  OBVIOUS
<1>2. T \subseteq Nat
  OBVIOUS
<1> HIDE DEF T
<1>3. PICK m \in T : \A k \in T : m <= k
  BY <1>1, <1>2, LeastNat
<1>4. m \in 0 .. n /\ ~\E e : Leads(e, st, m)
  BY DEF T
<1>5. m # 0
  <2> DEFINE e == [k \in 0 .. 0 |-> Life]
  <2>1. Leads(e, st, 0)
    BY DEF Leads, AnEnd
  <2> QED BY <2>1, <1>4
<1>6. m - 1 \in 0 .. n /\ m - 1 \notin T
  BY <1>3, <1>4, <1>5
<1>7. PICK e : Leads(e, st, m - 1)
  BY <1>6 DEF T
<1> DEFINE f == [k \in 0 .. m |-> IF k = m THEN st[m][e[m - 1]] ELSE e[k]]
<1>8. e \in [0 .. m - 1 -> AnEnd] /\ st[m] \in [AnEnd -> AnEnd]
  BY <1>4, <1>5, <1>7 DEF Leads, Steps
<1>9. f \in [0 .. m -> AnEnd]
  BY <1>4, <1>5, <1>8
<1>10. \A k \in 1 .. m : f[k] = st[k][f[k - 1]]
  BY <1>4, <1>5, <1>7 DEF Leads
<1>11. f[0] = Life
  BY <1>4, <1>5, <1>7 DEF Leads
<1>12. Leads(f, st, m)
  BY <1>9, <1>10, <1>11 DEF Leads
<1> QED BY <1>4, <1>12

\* Where steps lead does not depend on later ones.
LEMMA LeadsAlike ==
  ASSUME NEW n \in Nat, NEW st, NEW tt, NEW e, NEW f, NEW m \in 0 .. n,
         Leads(e, st, n), Leads(f, tt, m), \A k \in 1 .. m : st[k] = tt[k]
  PROVE  e[m] = f[m]
<1>1. \A k \in 1 .. m : e[k - 1] = f[k - 1] => e[k] = f[k]
  BY DEF Leads
<1>2. e[0] = f[0]
  BY DEF Leads
<1>a. GoesOn(m, e, f)
  BY <1>1, <1>2 DEF GoesOn
<1>b. m \in Nat
  OBVIOUS
<1>3. Agree(m, e, f)
  BY <1>a, <1>b, GoOnAlike, Zenon
<1> QED BY <1>b, <1>3 DEF Agree

\* The end after the steps is where any walk over them arrives.
LEMMA AfterIs ==
  ASSUME NEW n \in Nat, NEW st, NEW e, Leads(e, st, n)
  PROVE  After(st, n) = e[n]
<1> DEFINE f == CHOOSE x : Leads(x, st, n)
<1>1. Leads(f, st, n)
  BY Zenon
<1>2. f[n] = e[n]
  <2> HIDE DEF f
  <2> QED BY <1>1, LeadsAlike
<1> QED BY <1>2 DEF After

\* No step, one more step, and steps that are the same.
LEMMA AfterNone == ASSUME NEW st PROVE After(st, 0) = Life
<1> DEFINE e == [k \in 0 .. 0 |-> Life]
<1>1. Leads(e, st, 0)
  BY DEF Leads, AnEnd
<1>2. e[0] = Life
  OBVIOUS
<1> HIDE DEF e
<1> QED BY <1>1, <1>2, AfterIs

LEMMA AfterOneMore ==
  ASSUME NEW n \in Nat \ {0}, NEW st, Steps(st, n)
  PROVE  After(st, n) = st[n][After(st, n - 1)] /\ After(st, n) \in AnEnd /\ After(st, n - 1) \in AnEnd
<1>1. PICK e : Leads(e, st, n)
  BY LeadsSomewhere
<1>2. Steps(st, n - 1)
  BY DEF Steps
<1>3. PICK f : Leads(f, st, n - 1)
  BY <1>2, LeadsSomewhere
<1>4. e[n - 1] = f[n - 1]
  BY <1>1, <1>3, LeadsAlike
<1>5. After(st, n) = e[n] /\ After(st, n - 1) = e[n - 1]
  BY <1>1, <1>3, <1>4, AfterIs
<1> QED BY <1>1, <1>5 DEF Leads

LEMMA AfterSame ==
  ASSUME NEW n \in Nat, NEW st, NEW tt, Steps(st, n), \A k \in 1 .. n : st[k] = tt[k]
  PROVE  After(st, n) = After(tt, n) /\ After(st, n) \in AnEnd
<1>1. PICK e : Leads(e, st, n)
  BY LeadsSomewhere
<1>2. Leads(e, tt, n)
  BY <1>1 DEF Leads
<1>3. After(st, n) = e[n] /\ After(tt, n) = e[n]
  BY <1>1, <1>2, AfterIs
<1>4. e[n] \in AnEnd
  BY <1>1 DEF Leads
<1> QED BY <1>3, <1>4

-----------------------------------------------------------------------------
(* The replay of rows: what they come to without the renewals taken back.  *)

RowSet == [intent : Intents, prev : AnEnd, at : 1 .. MaxTime, applied : BOOLEAN,
           refunded : 0 .. MaxTime, superseded : BOOLEAN]
Change == [restart : BOOLEAN, shift : Int]

WalkSteps(rows, before, X) ==
  [k \in 1 .. Len(before) |->
     [x \in AnEnd |-> Renewals!Walked(rows[k], before[k], x, rows[k].intent \notin X)]]
Replay(rows, before, X) == After(WalkSteps(rows, before, X), Len(before))

\* A row makes an end of an end.
LEMMA WalkedEnd ==
  ASSUME NEW r \in RowSet, NEW o \in Change, NEW x \in AnEnd, NEW c \in BOOLEAN
  PROVE  Renewals!Walked(r, o, x, c) \in AnEnd
<1>1. r.at \in Int /\ r.prev \in AnEnd /\ r.intent \in Intents /\ o.shift \in Int
  BY PurchasesAssumption DEF RowSet, Change, Renewals!RenewalsAssumption
<1>2. Days[r.intent] \in Int
  BY <1>1, PurchasesAssumption DEF Renewals!RenewalsAssumption
<1>3. Renewals!Outside(r, o, x) \in AnEnd
  BY <1>1 DEF Renewals!Outside, AnEnd
<1>4. \A y \in AnEnd : Renewals!RenewedUpdatesUntil(y, r.at, Days[r.intent]) \in AnEnd
  BY <1>1, <1>2 DEF Renewals!RenewedUpdatesUntil, AnEnd
<1> QED BY <1>3, <1>4 DEF Renewals!Walked

LEMMA WalkStepsAre ==
  ASSUME NEW rows \in Seq(RowSet), NEW before \in Seq(Change), Len(before) <= Len(rows), NEW X
  PROVE  Steps(WalkSteps(rows, before, X), Len(before))
<1> SUFFICES ASSUME NEW k \in 1 .. Len(before)
             PROVE  WalkSteps(rows, before, X)[k] \in [AnEnd -> AnEnd]
  BY DEF Steps
<1>1. rows[k] \in RowSet /\ before[k] \in Change
  OBVIOUS
<1>2. \A x \in AnEnd : Renewals!Walked(rows[k], before[k], x, rows[k].intent \notin X) \in AnEnd
  BY <1>1, WalkedEnd
<1> QED BY <1>2 DEF WalkSteps

\* The replay of nothing, of one more row, and of rows that are the same to it.
LEMMA ReplayNone == ASSUME NEW rows, NEW X PROVE Replay(rows, <<>>, X) = Life
  BY AfterNone DEF Replay

LEMMA ReplayOneMore ==
  ASSUME NEW rows \in Seq(RowSet), NEW before \in Seq(Change), Len(before) = Len(rows),
         NEW r \in RowSet, NEW o \in Change, NEW X
  PROVE  /\ Replay(Append(rows, r), Append(before, o), X)
              = Renewals!Walked(r, o, Replay(rows, before, X), r.intent \notin X)
         /\ Replay(rows, before, X) \in AnEnd
<1> DEFINE s == Append(rows, r)
           b == Append(before, o)
           n == Len(before) + 1
           st == WalkSteps(rows, before, X)
           tt == WalkSteps(s, b, X)
<1>1. /\ s \in Seq(RowSet) /\ b \in Seq(Change) /\ Len(b) = n /\ Len(s) = n /\ n \in Nat \ {0}
      /\ n - 1 = Len(before) /\ Len(before) \in Nat
      /\ s[n] = r /\ b[n] = o /\ \A k \in 1 .. n - 1 : s[k] = rows[k] /\ b[k] = before[k]
  OBVIOUS
<1> HIDE DEF s, b, n
<1>2. Steps(tt, n) /\ Steps(st, n - 1)
  BY <1>1, WalkStepsAre
<1>3. \A k \in 1 .. n - 1 : st[k] = tt[k]
  <2> SUFFICES ASSUME NEW k \in 1 .. n - 1 PROVE st[k] = tt[k]
    OBVIOUS
  <2>1. k \in 1 .. Len(before) /\ k \in 1 .. Len(b) /\ s[k] = rows[k] /\ b[k] = before[k]
    BY <1>1
  <2> QED BY <2>1 DEF WalkSteps
<1>4. tt[n] = [x \in AnEnd |-> Renewals!Walked(r, o, x, r.intent \notin X)]
  BY <1>1 DEF WalkSteps
<1> HIDE DEF st, tt
<1>5. After(st, n - 1) = After(tt, n - 1) /\ After(st, n - 1) \in AnEnd
  BY <1>1, <1>2, <1>3, AfterSame
<1>6. After(tt, n) = tt[n][After(tt, n - 1)]
  BY <1>1, <1>2, AfterOneMore
<1>7. After(tt, n) = Renewals!Walked(r, o, After(st, n - 1), r.intent \notin X)
  BY <1>4, <1>5, <1>6
<1> QED BY <1>1, <1>5, <1>7 DEF Replay, st, tt, s, b

\* Rows that differ in what was refunded when only.
Alike(r, s) == r.prev = s.prev /\ r.at = s.at /\ r.applied = s.applied /\ r.intent = s.intent

LEMMA ReplaySame ==
  ASSUME NEW rows \in Seq(RowSet), NEW s \in Seq(RowSet), NEW before \in Seq(Change),
         Len(before) <= Len(rows), NEW X, NEW Y,
         \A k \in 1 .. Len(before) :
           Alike(rows[k], s[k]) /\ (rows[k].intent \in X <=> rows[k].intent \in Y)
  PROVE  Replay(rows, before, X) = Replay(s, before, Y) /\ Replay(rows, before, X) \in AnEnd
<1>1. Steps(WalkSteps(rows, before, X), Len(before)) /\ Len(before) \in Nat
  BY WalkStepsAre
<1>2. \A k \in 1 .. Len(before), x \in AnEnd :
        Renewals!Walked(rows[k], before[k], x, rows[k].intent \notin X)
          = Renewals!Walked(s[k], before[k], x, s[k].intent \notin Y)
  BY DEF Alike, Renewals!Walked, Renewals!Outside
<1>3. \A k \in 1 .. Len(before) : WalkSteps(rows, before, X)[k] = WalkSteps(s, before, Y)[k]
  BY <1>2 DEF WalkSteps
<1> QED BY <1>1, <1>3, AfterSame DEF Replay

\* The walk of the code is the replay without the rows not in effect.
LEMMA WalkIs ==
  ASSUME NEW rows \in Seq(RowSet), NEW before \in Seq(Change), Len(before) <= Len(rows), NEW at, NEW X,
         \A k \in 1 .. Len(before) : Renewals!InEffect(rows[k], at) <=> rows[k].intent \notin X
  PROVE  Renewals!Walk(rows, before, at) = Replay(rows, before, X)
<1> DEFINE n == Len(before)
           st == WalkSteps(rows, before, X)
           Next1(end) == [k \in 0 .. n |->
                     IF k = 0 THEN Life
                     ELSE Renewals!Walked(rows[k], before[k], end[k - 1], Renewals!InEffect(rows[k], at))]
           f == CHOOSE end : end = Next1(end)
<1>1. n \in Nat /\ Steps(st, n)
  BY WalkStepsAre
<1> HIDE DEF st
<1>2. PICK e : Leads(e, st, n)
  BY <1>1, LeadsSomewhere
<1>3. \A k \in 1 .. n : e[k] = Renewals!Walked(rows[k], before[k], e[k - 1], Renewals!InEffect(rows[k], at))
  <2> SUFFICES ASSUME NEW k \in 1 .. n
               PROVE  e[k] = Renewals!Walked(rows[k], before[k], e[k - 1], Renewals!InEffect(rows[k], at))
    OBVIOUS
  <2>1. e[k] = st[k][e[k - 1]] /\ e \in [0 .. n -> AnEnd]
    BY <1>2 DEF Leads
  <2>4. k - 1 \in 0 .. n
    BY <1>1
  <2>5. e[k - 1] \in AnEnd
    BY <2>1, <2>4
  <2>2. st[k] = [x \in AnEnd |-> Renewals!Walked(rows[k], before[k], x, rows[k].intent \notin X)]
    BY DEF st, WalkSteps
  <2>3. Renewals!InEffect(rows[k], at) = (rows[k].intent \notin X)
    BY DEF Renewals!InEffect
  <2> QED BY <2>1, <2>2, <2>3, <2>5
<1>4. e = Next1(e)
  BY <1>1, <1>2, <1>3 DEF Leads
<1>5. f = Next1(f)
  BY <1>4, Zenon
<1> HIDE DEF f
<1>6. \A k \in 1 .. n : e[k - 1] = f[k - 1] => e[k] = f[k]
  BY <1>1, <1>3, <1>5
<1>7. e[0] = f[0]
  BY <1>1, <1>2, <1>5 DEF Leads
<1>8. e[n] = f[n]
  <2>1. GoesOn(n, e, f)
    BY <1>6, <1>7 DEF GoesOn
  <2>2. n \in Nat
    BY <1>1
  <2> HIDE DEF n
  <2>3. Agree(n, e, f)
    BY <2>1, <2>2, GoOnAlike, Zenon
  <2> QED BY <2>2, <2>3 DEF Agree
<1>9. Renewals!Walk(rows, before, at) = f[n]
  BY DEF Renewals!Walk, f
<1>10. After(st, n) = e[n]
  BY <1>1, <1>2, AfterIs
<1> QED BY <1>1, <1>8, <1>9, <1>10 DEF Replay, st

-----------------------------------------------------------------------------
(* The history of a period: what it comes to without them.                 *)

EntrySet ==
  [kind : {"start"}, end : AnEnd] \cup [kind : {"edit"}, shift : Int]
    \cup [kind : {"buy"}, intent : Intents, at : 1 .. MaxTime]

\* The entry is a renewal among those.
BuyOf(entry, X) == entry.kind = "buy" /\ entry.intent \in X

Moves(b, X) ==
  [k \in 1 .. Len(b) |-> [x \in AnEnd |-> Renewals!Moved(b[k], x, BuyOf(b[k], X))]]
Bought(b, X) == After(Moves(b, X), Len(b))

LEMMA MovedEnd ==
  ASSUME NEW entry \in EntrySet, NEW x \in AnEnd, NEW c
  PROVE  Renewals!Moved(entry, x, c) \in AnEnd
<1>1. CASE entry \in [kind : {"start"}, end : AnEnd]
  BY <1>1 DEF Renewals!Moved
<1>2. CASE entry \in [kind : {"edit"}, shift : Int]
  BY <1>2 DEF Renewals!Moved, AnEnd
<1>3. CASE entry \in [kind : {"buy"}, intent : Intents, at : 1 .. MaxTime]
  <2>1. entry.kind = "buy" /\ entry.at \in Int /\ Days[entry.intent] \in Int
    BY <1>3, PurchasesAssumption DEF Renewals!RenewalsAssumption
  <2>2. Renewals!RenewedUpdatesUntil(x, entry.at, Days[entry.intent]) \in AnEnd
    BY <2>1 DEF Renewals!RenewedUpdatesUntil, AnEnd
  <2> QED BY <2>1, <2>2 DEF Renewals!Moved
<1> QED BY <1>1, <1>2, <1>3 DEF EntrySet

LEMMA MovesAre ==
  ASSUME NEW b \in Seq(EntrySet), NEW X
  PROVE  Steps(Moves(b, X), Len(b)) /\ Len(b) \in Nat
<1> SUFFICES ASSUME NEW k \in 1 .. Len(b) PROVE Moves(b, X)[k] \in [AnEnd -> AnEnd]
  BY DEF Steps
<1>1. b[k] \in EntrySet
  OBVIOUS
<1>2. \A x \in AnEnd : Renewals!Moved(b[k], x, BuyOf(b[k], X)) \in AnEnd
  BY <1>1, MovedEnd
<1> QED BY <1>2 DEF Moves

\* A period that begins, one more entry, and more taken back that is not in it.
LEMMA BoughtStart ==
  ASSUME NEW end \in AnEnd, NEW X
  PROVE  Bought(<<[kind |-> "start", end |-> end]>>, X) = end
<1> DEFINE entry == [kind |-> "start", end |-> end]
           b == <<entry>>
           st == Moves(b, X)
<1>1. entry \in EntrySet
  BY DEF EntrySet
<1>2. b \in Seq(EntrySet) /\ Len(b) = 1 /\ b[1] = entry
  BY <1>1
<1>3. \A x \in AnEnd : Renewals!Moved(b[1], x, BuyOf(b[1], X)) = end
  BY <1>2 DEF Renewals!Moved
<1> HIDE DEF b
<1>4. st[1] = [x \in AnEnd |-> end]
  BY <1>2, <1>3 DEF Moves
<1>5. Steps(st, 1)
  BY <1>2, MovesAre
<1> HIDE DEF st
<1>6. After(st, 1) = st[1][After(st, 0)] /\ After(st, 0) \in AnEnd
  BY <1>5, AfterOneMore
<1> QED BY <1>2, <1>4, <1>6 DEF Bought, st, b

LEMMA BoughtOneMore ==
  ASSUME NEW b \in Seq(EntrySet), NEW entry \in EntrySet, NEW X
  PROVE  /\ Bought(Append(b, entry), X) = Renewals!Moved(entry, Bought(b, X), BuyOf(entry, X))
         /\ Bought(b, X) \in AnEnd
<1> DEFINE c == Append(b, entry)
           n == Len(b) + 1
           st == Moves(b, X)
           tt == Moves(c, X)
<1>1. /\ c \in Seq(EntrySet) /\ Len(c) = n /\ n \in Nat \ {0}
      /\ n - 1 = Len(b) /\ Len(b) \in Nat
      /\ c[n] = entry /\ \A k \in 1 .. n - 1 : c[k] = b[k]
  OBVIOUS
<1> HIDE DEF c, n
<1>2. Steps(tt, n) /\ Steps(st, n - 1)
  BY <1>1, MovesAre
<1>3. \A k \in 1 .. n - 1 : st[k] = tt[k]
  <2> SUFFICES ASSUME NEW k \in 1 .. n - 1 PROVE st[k] = tt[k]
    OBVIOUS
  <2>1. k \in 1 .. Len(b) /\ k \in 1 .. Len(c) /\ c[k] = b[k]
    BY <1>1
  <2> QED BY <2>1 DEF Moves
<1>4. tt[n] = [x \in AnEnd |-> Renewals!Moved(entry, x, BuyOf(entry, X))]
  BY <1>1 DEF Moves
<1> HIDE DEF st, tt
<1>5. After(st, n - 1) = After(tt, n - 1) /\ After(st, n - 1) \in AnEnd
  BY <1>1, <1>2, <1>3, AfterSame
<1>6. After(tt, n) = tt[n][After(tt, n - 1)]
  BY <1>1, <1>2, AfterOneMore
<1>7. After(tt, n) = Renewals!Moved(entry, After(st, n - 1), BuyOf(entry, X))
  BY <1>4, <1>5, <1>6
<1> QED BY <1>1, <1>5, <1>7 DEF Bought, st, tt, c

LEMMA BoughtSame ==
  ASSUME NEW b \in Seq(EntrySet), NEW X, NEW Y,
         \A k \in 1 .. Len(b) : BuyOf(b[k], X) <=> BuyOf(b[k], Y)
  PROVE  Bought(b, X) = Bought(b, Y) /\ Bought(b, X) \in AnEnd
<1>1. Steps(Moves(b, X), Len(b)) /\ Len(b) \in Nat
  BY MovesAre
<1>2. \A k \in 1 .. Len(b) : BuyOf(b[k], X) = BuyOf(b[k], Y)
  BY DEF BuyOf
<1>3. \A k \in 1 .. Len(b) : Moves(b, X)[k] = Moves(b, Y)[k]
  BY <1>2 DEF Moves
<1> QED BY <1>1, <1>3, AfterSame DEF Bought

\* AsIfNeverBought takes back what the ledger says was refunded.
LEMMA BoughtIs ==
  ASSUME bought \in Seq(EntrySet), NEW X,
         \A k \in 1 .. Len(bought) :
           bought[k].kind = "buy" => (bought[k].intent \in X <=> Renewals!TakenBack(bought[k].intent))
  PROVE  Renewals!AsIfNeverBought = Bought(bought, X)
<1> DEFINE n == Len(bought)
           st == Moves(bought, X)
           Next1(end) == [k \in 0 .. n |->
                     IF k = 0 THEN Life
                     ELSE Renewals!Moved(bought[k], end[k - 1],
                            bought[k].kind = "buy" /\ Renewals!TakenBack(bought[k].intent))]
           f == CHOOSE end : end = Next1(end)
<1>1. n \in Nat /\ Steps(st, n)
  BY MovesAre
<1> HIDE DEF st
<1>2. PICK e : Leads(e, st, n)
  BY <1>1, LeadsSomewhere
<1>3. \A k \in 1 .. n :
        e[k] = Renewals!Moved(bought[k], e[k - 1],
                 bought[k].kind = "buy" /\ Renewals!TakenBack(bought[k].intent))
  <2> SUFFICES ASSUME NEW k \in 1 .. n
               PROVE  e[k] = Renewals!Moved(bought[k], e[k - 1],
                               bought[k].kind = "buy" /\ Renewals!TakenBack(bought[k].intent))
    OBVIOUS
  <2>1. e[k] = st[k][e[k - 1]] /\ e \in [0 .. n -> AnEnd]
    BY <1>2 DEF Leads
  <2>2. k - 1 \in 0 .. n
    BY <1>1
  <2>3. e[k - 1] \in AnEnd
    BY <2>1, <2>2
  <2>4. st[k] = [x \in AnEnd |-> Renewals!Moved(bought[k], x, BuyOf(bought[k], X))]
    BY DEF st, Moves
  <2>5. BuyOf(bought[k], X) = (bought[k].kind = "buy" /\ Renewals!TakenBack(bought[k].intent))
    BY DEF BuyOf, Renewals!TakenBack
  <2> QED BY <2>1, <2>3, <2>4, <2>5
<1>4. e = Next1(e)
  BY <1>1, <1>2, <1>3 DEF Leads
<1>5. f = Next1(f)
  BY <1>4, Zenon
<1> HIDE DEF f
<1>6. \A k \in 1 .. n : e[k - 1] = f[k - 1] => e[k] = f[k]
  BY <1>1, <1>3, <1>5
<1>7. e[0] = f[0]
  BY <1>1, <1>2, <1>5 DEF Leads
<1>8. e[n] = f[n]
  <2>1. GoesOn(n, e, f)
    BY <1>6, <1>7 DEF GoesOn
  <2>2. n \in Nat
    BY <1>1
  <2> HIDE DEF n
  <2>3. Agree(n, e, f)
    BY <2>1, <2>2, GoOnAlike, Zenon
  <2> QED BY <2>2, <2>3 DEF Agree
<1>9. Renewals!AsIfNeverBought = f[n]
  BY DEF Renewals!AsIfNeverBought, f
<1>10. After(st, n) = e[n]
  BY <1>1, <1>2, AfterIs
<1> QED BY <1>1, <1>8, <1>9, <1>10 DEF Bought, st

-----------------------------------------------------------------------------
(* The rows of a period, and the changes from outside before each.         *)

\* before is what ReplayRenewals finds out of the rows: it never reads a
\* later one, so it stays as rows are added.
Fixed(rows, before) ==
  /\ before \in Seq(Change) /\ Len(before) = Len(rows)
  /\ \A k \in 1 .. Len(rows) :
       before[k] = Renewals!OutsideBefore(rows[k].prev,
                     Renewals!Walk(rows, SubSeq(before, 1, k - 1), rows[k].at), k = 1)

LEMMA ReplayIs ==
  ASSUME NEW rows \in Seq(RowSet), NEW before, Fixed(rows, before)
  PROVE  Renewals!ReplayRenewals(rows) = Renewals!Walk(rows, before, Renewals!Forever)
<1> DEFINE n == Len(rows)
           More(b) == [k \in 0 .. n |->
                         IF k = 0 THEN <<>>
                         ELSE Append(b[k - 1],
                                Renewals!OutsideBefore(rows[k].prev,
                                  Renewals!Walk(rows, b[k - 1], rows[k].at), k = 1))]
           f == CHOOSE b : b = More(b)
           g == [k \in 0 .. n |-> SubSeq(before, 1, k)]
<1>1. n \in Nat /\ before \in Seq(Change) /\ Len(before) = n
  BY DEF Fixed
<1>2. \A k \in 1 .. n :
        SubSeq(before, 1, k) = Append(SubSeq(before, 1, k - 1), before[k])
  <2> SUFFICES ASSUME NEW k \in 1 .. n
               PROVE  SubSeq(before, 1, k) = Append(SubSeq(before, 1, k - 1), before[k])
    OBVIOUS
  <2>1. k \in 1 .. Len(before) /\ k > 0 /\ 0 \in Nat
    BY <1>1
  <2>2. SubSeq(before, 0 + 1, k) = Append(SubSeq(before, 0 + 1, k - 1), before[k])
    BY <1>1, <2>1, SubSeqGrows
  <2> QED BY <2>2
<1>3. \A k \in 1 .. n : k - 1 \in 0 .. n
  BY <1>1
<1>4. g = More(g)
  <2>1. SubSeq(before, 1, 0) = <<>>
    BY <1>1
  <2>2. ASSUME NEW k \in 1 .. n
        PROVE  g[k] = Append(g[k - 1], Renewals!OutsideBefore(rows[k].prev,
                        Renewals!Walk(rows, g[k - 1], rows[k].at), k = 1))
    <3>1. g[k] = SubSeq(before, 1, k) /\ g[k - 1] = SubSeq(before, 1, k - 1)
      BY <1>1, <1>3
    <3>2. before[k] = Renewals!OutsideBefore(rows[k].prev,
                        Renewals!Walk(rows, SubSeq(before, 1, k - 1), rows[k].at), k = 1)
      BY DEF Fixed
    <3> HIDE DEF g
    <3> QED BY <1>2, <3>1, <3>2
  <2>3. g[0] = <<>>
    BY <1>1, <2>1
  <2>4. g = [k \in 0 .. n |-> g[k]]
    OBVIOUS
  <2> HIDE DEF g
  <2>5. ASSUME NEW k \in 0 .. n PROVE g[k] = More(g)[k]
    <3>1. k = 0 \/ k \in 1 .. n
      BY <1>1
    <3> QED BY <2>2, <2>3, <3>1
  <2> QED BY <2>4, <2>5
<1>5. f = More(f)
  BY <1>4, Zenon
<1> HIDE DEF f, g
<1>6. ASSUME NEW k \in 1 .. n, g[k - 1] = f[k - 1] PROVE g[k] = f[k]
  <2>1. k \in 0 .. n /\ k # 0
    BY <1>1
  <2>2. g[k] = More(g)[k] /\ f[k] = More(f)[k]
    BY <1>4, <1>5, Zenon
  <2> QED BY <1>6, <2>1, <2>2
<1>7. g[0] = f[0]
  BY <1>1, <1>4, <1>5
<1>8. g[n] = f[n]
  <2>1. GoesOn(n, g, f)
    BY <1>6, <1>7 DEF GoesOn
  <2>2. n \in Nat
    BY <1>1
  <2> HIDE DEF n
  <2>3. Agree(n, g, f)
    BY <2>1, <2>2, GoOnAlike, Zenon
  <2> QED BY <2>2, <2>3 DEF Agree
<1>9. g[n] = before
  BY <1>1 DEF g
<1>10. Renewals!ReplayRenewals(rows) = Renewals!Walk(rows, f[n], Renewals!Forever)
  BY DEF Renewals!ReplayRenewals, f
<1> QED BY <1>1, <1>8, <1>9, <1>10

\* The rows are closed from the oldest on, so those that are not are the last.
ClosedTo(rows, m) == m \in 0 .. Len(rows) /\ \A k \in 1 .. Len(rows) : rows[k].superseded <=> k <= m
Rest(rows, m) == SubSeq(rows, m + 1, Len(rows))

LEMMA CurrentIs ==
  ASSUME ledger \in Seq(RowSet), NEW m, ClosedTo(ledger, m)
  PROVE  Renewals!Current = Rest(ledger, m)
<1> DEFINE n == Len(ledger)
           More(b) == [k \in 0 .. n |->
                         IF k = 0 THEN <<>>
                         ELSE IF ledger[k].superseded THEN b[k - 1] ELSE Append(b[k - 1], ledger[k])]
           f == CHOOSE b : b = More(b)
           g == [k \in 0 .. n |-> IF k <= m THEN <<>> ELSE SubSeq(ledger, m + 1, k)]
<1>1. n \in Nat /\ m \in 0 .. n /\ \A k \in 1 .. n : ledger[k].superseded <=> k <= m
  BY DEF ClosedTo
<1>2. \A k \in 1 .. n : k > m => SubSeq(ledger, m + 1, k) = Append(SubSeq(ledger, m + 1, k - 1), ledger[k])
  BY <1>1, SubSeqGrows
<1>3. SubSeq(ledger, m + 1, m) = <<>>
  BY <1>1
<1>4. g = More(g)
  <2>1. ASSUME NEW k \in 1 .. n
        PROVE  g[k] = IF ledger[k].superseded THEN g[k - 1] ELSE Append(g[k - 1], ledger[k])
    <3>1. k - 1 \in 0 .. n /\ g[k] = (IF k <= m THEN <<>> ELSE SubSeq(ledger, m + 1, k))
          /\ g[k - 1] = (IF k - 1 <= m THEN <<>> ELSE SubSeq(ledger, m + 1, k - 1))
      BY <1>1
    <3>0. k \in Nat /\ m \in Nat /\ (ledger[k].superseded <=> k <= m)
      BY <1>1
    <3>00. k > m => SubSeq(ledger, m + 1, k) = Append(SubSeq(ledger, m + 1, k - 1), ledger[k])
      BY <1>2
    <3> HIDE DEF g
    <3>2. CASE k <= m
      <4>1. k - 1 <= m /\ ledger[k].superseded
        BY <3>0, <3>2
      <4> QED BY <3>1, <3>2, <4>1
    <3>3. CASE k > m + 1
      <4>1. ~(k - 1 <= m) /\ ~(k <= m) /\ ~ledger[k].superseded /\ k > m
        BY <3>0, <3>3
      <4> QED BY <3>00, <3>1, <4>1
    <3>4. CASE k = m + 1
      <4>1. k - 1 <= m /\ ~(k <= m) /\ ~ledger[k].superseded /\ k > m /\ k - 1 = m
        BY <3>0, <3>4
      <4>2. SubSeq(ledger, m + 1, k - 1) = <<>>
        BY <1>3, <4>1
      <4> QED BY <3>00, <3>1, <4>1, <4>2
    <3> QED BY <3>0, <3>2, <3>3, <3>4
  <2>2. g[0] = <<>>
    BY <1>1
  <2>3. g = [k \in 0 .. n |-> g[k]]
    OBVIOUS
  <2> HIDE DEF g
  <2>4. ASSUME NEW k \in 0 .. n PROVE g[k] = More(g)[k]
    <3>1. k = 0 \/ k \in 1 .. n
      BY <1>1
    <3> QED BY <2>1, <2>2, <3>1
  <2> QED BY <2>3, <2>4
<1>5. f = More(f)
  BY <1>4, Zenon
<1> HIDE DEF f, g
<1>6. ASSUME NEW k \in 1 .. n, g[k - 1] = f[k - 1] PROVE g[k] = f[k]
  <2>1. k \in 0 .. n /\ k # 0
    BY <1>1
  <2>2. g[k] = More(g)[k] /\ f[k] = More(f)[k]
    BY <1>4, <1>5, Zenon
  <2> QED BY <1>6, <2>1, <2>2
<1>7. g[0] = f[0]
  BY <1>1, <1>4, <1>5
<1>8. g[n] = f[n]
  <2>1. GoesOn(n, g, f)
    BY <1>6, <1>7 DEF GoesOn
  <2>2. n \in Nat
    BY <1>1
  <2> HIDE DEF n
  <2>3. Agree(n, g, f)
    BY <2>1, <2>2, GoOnAlike, Zenon
  <2> QED BY <2>2, <2>3 DEF Agree
<1>9. g[n] = Rest(ledger, m)
  BY <1>1, <1>3 DEF g, Rest
<1>10. Renewals!Current = f[n]
  BY DEF Renewals!Current, f
<1> QED BY <1>1, <1>8, <1>9, <1>10

-----------------------------------------------------------------------------
(* A period: its rows, the changes from outside before them, its history.  *)

\* What is bound of time: rows are stamped in their order, before t, as are
\* refunds; a row that moved nothing was refunded first; one row a renewal.
Stamps(rows, t) ==
  /\ \A k \in 1 .. Len(rows) :
       /\ rows[k].at < t
       /\ rows[k].refunded < t
       /\ rows[k].applied \/ rows[k].refunded # 0
  /\ \A j, k \in 1 .. Len(rows) :
       /\ j < k => rows[j].at < rows[k].at
       /\ j # k => rows[j].intent # rows[k].intent

\* Those taken back, as the rows say it.
MarkedIn(rows, X) == \A k \in 1 .. Len(rows) : rows[k].intent \in X <=> rows[k].refunded # 0

\* The walk to an instant reads of a row what was bought, and whether it
\* counted then.
SameTo(rows, s, n, at) ==
  \A k \in 1 .. n : Alike(rows[k], s[k]) /\ (Renewals!InEffect(rows[k], at) <=> Renewals!InEffect(s[k], at))

LEMMA WalkSame ==
  ASSUME NEW rows \in Seq(RowSet), NEW s \in Seq(RowSet), NEW before \in Seq(Change), NEW at,
         Len(before) <= Len(rows), Len(before) <= Len(s),
         \A j, k \in 1 .. Len(rows) : j # k => rows[j].intent # rows[k].intent,
         SameTo(rows, s, Len(before), at)
  PROVE  Renewals!Walk(rows, before, at) = Renewals!Walk(s, before, at)
<1> DEFINE n == Len(before)
           X == {i \in Intents : \E k \in 1 .. n : rows[k].intent = i /\ ~Renewals!InEffect(rows[k], at)}
<1>1. n \in Nat /\ n <= Len(rows) /\ Len(rows) \in Nat
  OBVIOUS
<1>2. \A k \in 1 .. n : k \in 1 .. Len(rows) /\ rows[k] \in RowSet
  BY <1>1
<1>3. \A k \in 1 .. n : rows[k].intent \in Intents
  BY <1>2 DEF RowSet
<1>4. \A k \in 1 .. n : Renewals!InEffect(rows[k], at) <=> rows[k].intent \notin X
  BY <1>2, <1>3
<1>5. \A k \in 1 .. n : Renewals!InEffect(s[k], at) <=> s[k].intent \notin X
  BY <1>4 DEF SameTo, Alike
<1> HIDE DEF X
<1>6. Renewals!Walk(rows, before, at) = Replay(rows, before, X)
  BY <1>4, WalkIs
<1>7. Renewals!Walk(s, before, at) = Replay(s, before, X)
  BY <1>5, WalkIs
<1>8. \A k \in 1 .. n : Alike(rows[k], s[k]) /\ (rows[k].intent \in X <=> rows[k].intent \in X)
  BY DEF SameTo
<1>9. Replay(rows, before, X) = Replay(s, before, X)
  BY <1>8, ReplaySame
<1> QED BY <1>6, <1>7, <1>9

\* Rows that are alike are replayed alike.
AlikeTo(rows, s, n) == \A k \in 1 .. n : Alike(rows[k], s[k])

LEMMA ReplayAlike ==
  ASSUME NEW rows \in Seq(RowSet), NEW s \in Seq(RowSet), NEW before \in Seq(Change),
         Len(before) <= Len(rows), AlikeTo(rows, s, Len(before)), NEW X
  PROVE  Replay(rows, before, X) = Replay(s, before, X)
<1>1. \A k \in 1 .. Len(before) : Alike(rows[k], s[k]) /\ (rows[k].intent \in X <=> rows[k].intent \in X)
  BY DEF AlikeTo
<1> QED BY <1>1, ReplaySame

\* What must have happened outside is a change.
LEMMA OutsideIs ==
  ASSUME NEW p \in AnEnd, NEW q \in AnEnd, NEW first \in BOOLEAN
  PROVE  Renewals!OutsideBefore(p, q, first) \in Change
BY PurchasesAssumption DEF Renewals!OutsideBefore, Change, AnEnd, Renewals!RenewalsAssumption

\* A refund leaves the changes from outside as they were.
LEMMA FixedRefund ==
  ASSUME NEW rows \in Seq(RowSet), NEW s \in Seq(RowSet), NEW before, Fixed(rows, before), Len(s) = Len(rows),
         \A j, k \in 1 .. Len(rows) : j # k => rows[j].intent # rows[k].intent,
         \A k \in 1 .. Len(rows) : Alike(rows[k], s[k]) /\ SameTo(rows, s, k - 1, rows[k].at)
  PROVE  Fixed(s, before)
<1>1. before \in Seq(Change) /\ Len(before) = Len(rows) /\ Len(rows) \in Nat
  BY DEF Fixed
<1> SUFFICES ASSUME NEW k \in 1 .. Len(rows)
             PROVE  before[k] = Renewals!OutsideBefore(s[k].prev,
                                  Renewals!Walk(s, SubSeq(before, 1, k - 1), s[k].at), k = 1)
  BY <1>1 DEF Fixed
<1> DEFINE pre == SubSeq(before, 1, k - 1)
<1>2. pre \in Seq(Change) /\ Len(pre) = k - 1 /\ k - 1 <= Len(rows) /\ k - 1 <= Len(s)
  BY <1>1
<1>3. before[k] = Renewals!OutsideBefore(rows[k].prev, Renewals!Walk(rows, pre, rows[k].at), k = 1)
  BY DEF Fixed
<1>4. rows[k].prev = s[k].prev /\ rows[k].at = s[k].at /\ SameTo(rows, s, k - 1, rows[k].at)
  BY DEF Alike
<1> HIDE DEF pre
<1>5. Renewals!Walk(rows, pre, rows[k].at) = Renewals!Walk(s, pre, rows[k].at)
  BY <1>2, <1>4, WalkSame
<1>6. before[k] = Renewals!OutsideBefore(s[k].prev, Renewals!Walk(s, pre, s[k].at), k = 1)
  BY <1>3, <1>4, <1>5
<1> QED BY <1>6 DEF pre

\* One more row finds its change from outside, and the others keep theirs.
LEMMA FixedOneMore ==
  ASSUME NEW rows \in Seq(RowSet), NEW before, Fixed(rows, before), NEW r \in RowSet, NEW o \in Change,
         \A j, k \in 1 .. Len(rows) : j # k => rows[j].intent # rows[k].intent,
         o = Renewals!OutsideBefore(r.prev, Renewals!Walk(rows, before, r.at), Len(rows) = 0)
  PROVE  Fixed(Append(rows, r), Append(before, o))
<1> DEFINE n == Len(rows)
           s == Append(rows, r)
           b == Append(before, o)
<1>1. before \in Seq(Change) /\ Len(before) = n /\ n \in Nat
  BY DEF Fixed
<1>2. /\ s \in Seq(RowSet) /\ b \in Seq(Change) /\ Len(s) = n + 1 /\ Len(b) = n + 1
      /\ s[n + 1] = r /\ b[n + 1] = o /\ \A k \in 1 .. n : s[k] = rows[k] /\ b[k] = before[k]
  BY <1>1
<1>3. \A k \in 1 .. n + 1 : SubSeq(b, 1, k - 1) = SubSeq(before, 1, k - 1)
  BY <1>1
<1>4. SubSeq(before, 1, n) = before
  BY <1>1
<1> HIDE DEF s, b
<1>5. ASSUME NEW at, NEW k \in 1 .. n + 1
      PROVE  Renewals!Walk(s, SubSeq(b, 1, k - 1), at) = Renewals!Walk(rows, SubSeq(before, 1, k - 1), at)
  <2> DEFINE pre == SubSeq(before, 1, k - 1)
  <2>1. pre \in Seq(Change) /\ Len(pre) = k - 1 /\ k - 1 <= Len(rows) /\ k - 1 <= Len(s) /\ k - 1 <= n
    BY <1>1, <1>2
  <2>2. SubSeq(b, 1, k - 1) = pre
    BY <1>3
  <2> HIDE DEF pre
  <2>3. SameTo(rows, s, k - 1, at)
    BY <1>1, <1>2, <2>1 DEF SameTo, Alike
  <2>4. Renewals!Walk(rows, pre, at) = Renewals!Walk(s, pre, at)
    BY <1>2, <2>1, <2>3, WalkSame
  <2> QED BY <2>2, <2>4 DEF pre
<1>6. ASSUME NEW k \in 1 .. n + 1
      PROVE  b[k] = Renewals!OutsideBefore(s[k].prev, Renewals!Walk(s, SubSeq(b, 1, k - 1), s[k].at), k = 1)
  <2>1. Renewals!Walk(s, SubSeq(b, 1, k - 1), s[k].at) = Renewals!Walk(rows, SubSeq(before, 1, k - 1), s[k].at)
    BY <1>5
  <2>2. CASE k \in 1 .. n
    <3>1. s[k] = rows[k] /\ b[k] = before[k]
      BY <1>2, <2>2
    <3>2. before[k] = Renewals!OutsideBefore(rows[k].prev,
                        Renewals!Walk(rows, SubSeq(before, 1, k - 1), rows[k].at), k = 1)
      BY <2>2 DEF Fixed
    <3> QED BY <2>1, <3>1, <3>2
  <2>3. CASE k = n + 1
    <3>1. s[k] = r /\ b[k] = o /\ SubSeq(before, 1, k - 1) = before /\ (k = 1) = (Len(rows) = 0)
      BY <1>1, <1>2, <1>4, <2>3
    <3> QED BY <2>1, <3>1
  <2> QED BY <1>1, <2>2, <2>3
<1> QED BY <1>2, <1>6 DEF Fixed, s, b

-----------------------------------------------------------------------------
(* Rows and history compared, whatever is taken back.                      *)

\* Nothing bought moved the end, which is u.
Flat(rows, before, b, u) ==
  /\ \A k \in 1 .. Len(rows) : ~rows[k].applied
  /\ \A X \in SUBSET Intents : Bought(b, X) = u /\ Replay(rows, before, X) = Life

\* The history comes to what the rows come to, and an edit since the last row.
ShiftedBy(rows, before, b, d) ==
  \A X \in SUBSET Intents : Replay(rows, before, X) \in Int /\ Bought(b, X) = Replay(rows, before, X) + d
Shifted(rows, before, b) == \E d \in Int : ShiftedBy(rows, before, b, d)

\* The end u is the one of the history without those in X.
Reckoned(rows, before, b, u, X) ==
  /\ Fixed(rows, before)
  /\ \A k \in 1 .. Len(b) : b[k].kind = "buy" => \E j \in 1 .. Len(rows) : rows[j].intent = b[k].intent
  /\ u = Bought(b, X)
  /\ Flat(rows, before, b, u) \/ Shifted(rows, before, b)

\* What a shift says of ends.
LEMMA ShiftedEnds ==
  ASSUME NEW rows, NEW before, NEW b, NEW d \in Int, ShiftedBy(rows, before, b, d), NEW X \in SUBSET Intents
  PROVE  /\ Replay(rows, before, X) \in Int /\ Bought(b, X) \in Int
         /\ Bought(b, X) = Replay(rows, before, X) + d
         /\ Replay(rows, before, X) # Life /\ Bought(b, X) # Life
BY PurchasesAssumption DEF ShiftedBy, Renewals!RenewalsAssumption

\* A period begins.
LEMMA ReckonedStart ==
  ASSUME NEW u \in AnEnd, NEW X
  PROVE  Reckoned(<<>>, <<>>, <<[kind |-> "start", end |-> u]>>, u, X)
<1> DEFINE b == <<[kind |-> "start", end |-> u]>>
<1>1. \A Y : Bought(b, Y) = u
  BY BoughtStart
<1>2. \A Y : Replay(<<>>, <<>>, Y) = Life
  BY ReplayNone
<1>3. Fixed(<<>>, <<>>)
  BY DEF Fixed
<1>4. \A k \in 1 .. Len(b) : b[k].kind # "buy"
  OBVIOUS
<1> HIDE DEF b
<1>5. Flat(<<>>, <<>>, b, u)
  BY <1>1, <1>2 DEF Flat
<1>6. Reckoned(<<>>, <<>>, b, u, X)
  BY <1>1, <1>3, <1>4, <1>5 DEF Reckoned
<1> QED BY <1>6 DEF b

\* An end takes the place of updates for life, and the ledger stays.
LEMMA ReckonedFinite ==
  ASSUME NEW rows, NEW before, NEW b, NEW X \in SUBSET Intents, Reckoned(rows, before, b, Life, X), NEW u \in AnEnd
  PROVE  Reckoned(rows, before, <<[kind |-> "start", end |-> u]>>, u, X)
<1> DEFINE c == <<[kind |-> "start", end |-> u]>>
<1>1. \A Y : Bought(c, Y) = u
  BY BoughtStart
<1>2. \A k \in 1 .. Len(c) : c[k].kind # "buy"
  OBVIOUS
<1> HIDE DEF c
<1>3. ~Shifted(rows, before, b)
  <2> SUFFICES ASSUME NEW d \in Int, ShiftedBy(rows, before, b, d) PROVE FALSE
    BY DEF Shifted
  <2>1. Bought(b, X) # Life
    BY ShiftedEnds
  <2> QED BY <2>1 DEF Reckoned
<1>4. Flat(rows, before, b, Life)
  BY <1>3 DEF Reckoned
<1>5. Flat(rows, before, c, u)
  BY <1>1, <1>4 DEF Flat
<1>6. Reckoned(rows, before, c, u, X)
  BY <1>1, <1>2, <1>5 DEF Reckoned
<1> QED BY <1>6 DEF c

\* An admin moves the end by s.
LEMMA ReckonedEdit ==
  ASSUME NEW rows, NEW before, NEW b \in Seq(EntrySet), NEW u, NEW X \in SUBSET Intents,
         Reckoned(rows, before, b, u, X), u # Life, u \in Int, NEW s \in Int
  PROVE  Reckoned(rows, before, Append(b, [kind |-> "edit", shift |-> s]), u + s, X)
<1> DEFINE entry == [kind |-> "edit", shift |-> s]
           c == Append(b, entry)
<1>1. entry \in EntrySet /\ entry.kind = "edit" /\ entry.shift = s
  BY DEF EntrySet
<1>2. \A Y \in SUBSET Intents : Bought(c, Y) = Renewals!Moved(entry, Bought(b, Y), BuyOf(entry, Y))
  BY <1>1, BoughtOneMore
<1>3. \A k \in 1 .. Len(c) : c[k].kind = "buy" => k \in 1 .. Len(b) /\ c[k] = b[k]
  BY <1>1
<1> HIDE DEF entry, c
<1>4. \A Y \in SUBSET Intents : Bought(c, Y) = IF Bought(b, Y) = Life THEN Life ELSE Bought(b, Y) + s
  BY <1>1, <1>2 DEF Renewals!Moved
<1>5. u = Bought(b, X) /\ Bought(c, X) = u + s
  BY <1>4 DEF Reckoned
<1>6. Flat(rows, before, b, u) => Flat(rows, before, c, u + s)
  BY <1>4 DEF Flat
<1>7. Shifted(rows, before, b) => Shifted(rows, before, c)
  <2> SUFFICES ASSUME NEW d \in Int, ShiftedBy(rows, before, b, d) PROVE ShiftedBy(rows, before, c, d + s)
    BY DEF Shifted
  <2> SUFFICES ASSUME NEW Y \in SUBSET Intents
               PROVE  Replay(rows, before, Y) \in Int /\ Bought(c, Y) = Replay(rows, before, Y) + (d + s)
    BY DEF ShiftedBy
  <2>1. /\ Replay(rows, before, Y) \in Int /\ Bought(b, Y) = Replay(rows, before, Y) + d
        /\ Bought(b, Y) # Life
    BY ShiftedEnds
  <2> QED BY <1>4, <2>1
<1>8. Reckoned(rows, before, c, u + s, X)
  BY <1>3, <1>5, <1>6, <1>7 DEF Reckoned
<1> QED BY <1>8 DEF c, entry

\* The replay before a row recorded at t is the one without those marked.
LEMMA WalkToRow ==
  ASSUME NEW rows \in Seq(RowSet), NEW before \in Seq(Change), Len(before) = Len(rows), NEW X, NEW t \in Nat \ {0},
         Stamps(rows, t), MarkedIn(rows, X)
  PROVE  Renewals!Walk(rows, before, t) = Replay(rows, before, X)
<1>1. ASSUME NEW k \in 1 .. Len(before) PROVE Renewals!InEffect(rows[k], t) <=> rows[k].intent \notin X
  <2>0. k \in 1 .. Len(rows)
    OBVIOUS
  <2>a. rows[k] \in RowSet
    BY <2>0
  <2>b. rows[k].refunded < t
    BY <2>0 DEF Stamps
  <2>c. rows[k].intent \in X <=> rows[k].refunded # 0
    BY <2>0 DEF MarkedIn
  <2>1. rows[k] \in RowSet /\ rows[k].refunded < t /\ (rows[k].intent \in X <=> rows[k].refunded # 0)
    BY <2>a, <2>b, <2>c
  <2>2. rows[k].refunded \in Int
    BY <2>1, PurchasesAssumption DEF RowSet, Renewals!RenewalsAssumption
  <2>3. ~(rows[k].refunded >= t)
    BY <2>1, <2>2
  <2> QED BY <2>1, <2>3 DEF Renewals!InEffect, Renewals!Never
<1>2. \A k \in 1 .. Len(before) : Renewals!InEffect(rows[k], t) <=> rows[k].intent \notin X
  BY <1>1
<1> QED BY <1>2, WalkIs

\* And the whole replay is.
LEMMA ReplayWhole ==
  ASSUME NEW rows \in Seq(RowSet), NEW before, Fixed(rows, before), NEW X, MarkedIn(rows, X)
  PROVE  Renewals!ReplayRenewals(rows) = Replay(rows, before, X)
<1>1. before \in Seq(Change) /\ Len(before) = Len(rows)
  BY DEF Fixed
<1>2. ASSUME NEW k \in 1 .. Len(before) PROVE Renewals!InEffect(rows[k], Renewals!Forever) <=> rows[k].intent \notin X
  <2>1. rows[k] \in RowSet /\ (rows[k].intent \in X <=> rows[k].refunded # 0)
    BY <1>1 DEF MarkedIn
  <2>2. rows[k].refunded \in 0 .. MaxTime /\ MaxTime \in Nat
    BY <2>1, PurchasesAssumption DEF RowSet, Renewals!RenewalsAssumption
  <2>3. ~(rows[k].refunded >= MaxTime + 1)
    BY <2>2
  <2> QED BY <2>1, <2>3 DEF Renewals!InEffect, Renewals!Never, Renewals!Forever
<1>3. \A k \in 1 .. Len(before) : Renewals!InEffect(rows[k], Renewals!Forever) <=> rows[k].intent \notin X
  BY <1>2
<1>4. Renewals!Walk(rows, before, Renewals!Forever) = Replay(rows, before, X)
  BY <1>1, <1>3, WalkIs
<1> QED BY <1>4, ReplayIs

\* A row recorded with the end u starts from what the history comes to.
LEMMA OutsideBought ==
  ASSUME NEW rows, NEW before \in Seq(Change), Len(before) = Len(rows), NEW b, NEW u \in Int,
         NEW X \in SUBSET Intents, NEW Y \in SUBSET Intents, Reckoned(rows, before, b, u, X), NEW r, r.prev = u
  PROVE  LET o == Renewals!OutsideBefore(u, Replay(rows, before, X), Len(rows) = 0)
         IN  Renewals!Outside(r, o, Replay(rows, before, Y)) = Bought(b, Y) /\ Bought(b, Y) \in Int
<1> DEFINE q == Replay(rows, before, X)
           o == Renewals!OutsideBefore(u, q, Len(rows) = 0)
<1>1. u # Life /\ u = Bought(b, X)
  BY PurchasesAssumption DEF Reckoned, Renewals!RenewalsAssumption
<1>2. CASE Flat(rows, before, b, u)
  <2>1. q = Life /\ Bought(b, Y) = u
    BY <1>2 DEF Flat
  <2>2. o.restart
    BY <1>1, <2>1 DEF Renewals!OutsideBefore
  <2> QED BY <2>1, <2>2 DEF Renewals!Outside
<1>3. CASE Shifted(rows, before, b)
  <2>1. PICK d \in Int : ShiftedBy(rows, before, b, d)
    BY <1>3 DEF Shifted
  <2>2. q \in Int /\ u = q + d /\ q # Life
    BY <1>1, <2>1, ShiftedEnds
  <2>3. /\ Replay(rows, before, Y) \in Int /\ Replay(rows, before, Y) # Life
        /\ Bought(b, Y) = Replay(rows, before, Y) + d /\ Bought(b, Y) \in Int
    BY <2>1, ShiftedEnds
  <2>4. Len(rows) # 0
    <3> SUFFICES ASSUME Len(rows) = 0 PROVE FALSE
      OBVIOUS
    <3>1. before = <<>>
      OBVIOUS
    <3>2. q = Life
      BY <3>1, ReplayNone
    <3> QED BY <2>2, <3>2
  <2> HIDE DEF q
  <2>5. ~o.restart /\ o.shift = d
    <3>1. u - q = d
      BY <2>2
    <3>2. Life \notin {u, q}
      BY <1>1, <2>2
    <3>3. o = [restart |-> FALSE, shift |-> u - q]
      BY <2>4, <3>2 DEF Renewals!OutsideBefore
    <3> HIDE DEF o
    <3> QED BY <3>1, <3>3
  <2> HIDE DEF o
  <2> QED BY <2>3, <2>5 DEF Renewals!Outside, o, q
<1> QED BY <1>2, <1>3 DEF Reckoned

\* A renewal is bought.
LEMMA ReckonedBuy ==
  ASSUME NEW rows \in Seq(RowSet), NEW before, NEW b \in Seq(EntrySet), NEW u \in Int, NEW X \in SUBSET Intents,
         Reckoned(rows, before, b, u, X), NEW t \in 1 .. MaxTime, Stamps(rows, t), MarkedIn(rows, X),
         NEW r \in RowSet, r.prev = u, r.at = t, r.applied, r.intent \notin X
  PROVE  \E B : Reckoned(Append(rows, r), B, Append(b, [kind |-> "buy", intent |-> r.intent, at |-> t]),
                         Renewals!RenewedUpdatesUntil(u, t, Days[r.intent]), X)
<1> DEFINE i == r.intent
           entry == [kind |-> "buy", intent |-> i, at |-> t]
           c == Append(b, entry)
           s == Append(rows, r)
           o == Renewals!OutsideBefore(u, Replay(rows, before, X), Len(rows) = 0)
           B == Append(before, o)
           Renewed(x) == Renewals!RenewedUpdatesUntil(x, t, Days[i])
<1>1. /\ Fixed(rows, before) /\ before \in Seq(Change) /\ Len(before) = Len(rows) /\ u = Bought(b, X)
      /\ Len(rows) \in Nat /\ t \in Nat \ {0}
  BY PurchasesAssumption DEF Reckoned, Fixed, Renewals!RenewalsAssumption
<1>2. /\ i \in Intents /\ i \in Intents \ X /\ Days[i] \in Int
      /\ entry \in EntrySet /\ entry.kind = "buy" /\ entry.intent = i /\ entry.at = t
  BY PurchasesAssumption DEF RowSet, EntrySet, Renewals!RenewalsAssumption
<1>3. Replay(rows, before, X) \in AnEnd
  BY <1>1, ReplaySame DEF Alike
<1>4. o \in Change
  <2>1. u \in AnEnd /\ (Len(rows) = 0) \in BOOLEAN
    BY DEF AnEnd
  <2> QED BY <1>3, <2>1, OutsideIs
<1>5. Renewals!Walk(rows, before, t) = Replay(rows, before, X)
  BY <1>1, WalkToRow
<1>6. \A j, k \in 1 .. Len(rows) : j # k => rows[j].intent # rows[k].intent
  BY DEF Stamps
<1>7. o = Renewals!OutsideBefore(r.prev, Renewals!Walk(rows, before, r.at), Len(rows) = 0)
  BY <1>5
<1>8. \A Y \in SUBSET Intents : Renewals!Outside(r, o, Replay(rows, before, Y)) = Bought(b, Y) /\ Bought(b, Y) \in Int
  BY <1>1, OutsideBought
<1> HIDE DEF o
<1>9. Fixed(s, B)
  BY <1>1, <1>4, <1>6, <1>7, FixedOneMore
<1>10. \A Y \in SUBSET Intents :
         Replay(s, B, Y) = Renewals!Walked(r, o, Replay(rows, before, Y), i \notin Y)
  BY <1>1, <1>4, ReplayOneMore
<1>11. \A Y \in SUBSET Intents : Bought(c, Y) = Renewals!Moved(entry, Bought(b, Y), BuyOf(entry, Y))
  BY <1>2, BoughtOneMore
<1>12. \A x \in Int : Renewed(x) \in Int
  BY <1>2 DEF Renewals!RenewedUpdatesUntil
<1>13. /\ \A k \in 1 .. Len(rows) : k \in 1 .. Len(s) /\ s[k] = rows[k]
       /\ Len(rows) + 1 \in 1 .. Len(s) /\ s[Len(rows) + 1] = r
  BY <1>1
<1>14. \A k \in 1 .. Len(c) : (k \in 1 .. Len(b) /\ c[k] = b[k]) \/ c[k] = entry
  BY <1>2
<1> HIDE DEF s, B, c, entry
<1>15. \A k \in 1 .. Len(c) : c[k].kind = "buy" => \E j \in 1 .. Len(s) : s[j].intent = c[k].intent
  <2> SUFFICES ASSUME NEW k \in 1 .. Len(c), c[k].kind = "buy" PROVE \E j \in 1 .. Len(s) : s[j].intent = c[k].intent
    OBVIOUS
  <2>1. CASE c[k] = entry
    BY <1>2, <1>13, <2>1
  <2>2. CASE k \in 1 .. Len(b) /\ c[k] = b[k]
    <3>1. \E j \in 1 .. Len(rows) : rows[j].intent = c[k].intent
      BY <2>2 DEF Reckoned
    <3> QED BY <1>13, <3>1
  <2> QED BY <1>14, <2>1, <2>2
<1>16. ASSUME NEW Y \in SUBSET Intents PROVE Bought(c, Y) = Replay(s, B, Y) /\ Replay(s, B, Y) \in Int
  <2>1. Renewals!Outside(r, o, Replay(rows, before, Y)) = Bought(b, Y) /\ Bought(b, Y) \in Int
    BY <1>8
  <2>2. Replay(s, B, Y) = IF i \notin Y THEN Renewed(Bought(b, Y)) ELSE Bought(b, Y)
    BY <1>10, <2>1 DEF Renewals!Walked
  <2>3. Bought(c, Y) = IF i \in Y THEN Bought(b, Y) ELSE Renewed(Bought(b, Y))
    BY <1>2, <1>11 DEF Renewals!Moved, BuyOf
  <2> HIDE DEF Renewed, i
  <2> QED BY <1>12, <2>1, <2>2, <2>3
<1>17. Bought(c, X) = Renewed(u)
  BY <1>1, <1>2, <1>11 DEF Renewals!Moved, BuyOf
<1>18. ShiftedBy(s, B, c, 0)
  BY <1>16 DEF ShiftedBy
<1>19. Shifted(s, B, c)
  BY <1>18 DEF Shifted
<1>20. Reckoned(s, B, c, Renewed(u), X)
  BY <1>9, <1>15, <1>17, <1>19 DEF Reckoned
<1> QED BY <1>20 DEF s, c, entry

\* One taken back that is not of this period.
LEMMA ReckonedElsewhere ==
  ASSUME NEW rows, NEW before, NEW b \in Seq(EntrySet), NEW u, NEW X, NEW Y, Reckoned(rows, before, b, u, X),
         \A k \in 1 .. Len(rows) : rows[k].intent \in X <=> rows[k].intent \in Y
  PROVE  Reckoned(rows, before, b, u, Y)
<1>1. \A k \in 1 .. Len(b) : b[k].kind = "buy" => \E j \in 1 .. Len(rows) : rows[j].intent = b[k].intent
  BY DEF Reckoned
<1>2. \A k \in 1 .. Len(b) : BuyOf(b[k], X) <=> BuyOf(b[k], Y)
  BY <1>1 DEF BuyOf
<1>3. Bought(b, X) = Bought(b, Y)
  BY <1>2, BoughtSame
<1> QED BY <1>3 DEF Reckoned

\* A row is recorded as refunded: it moves nothing.
LEMMA ReckonedFirst ==
  ASSUME NEW rows \in Seq(RowSet), NEW before, NEW b \in Seq(EntrySet), NEW u \in AnEnd, NEW X \in SUBSET Intents,
         Reckoned(rows, before, b, u, X), NEW t \in 1 .. MaxTime, Stamps(rows, t), MarkedIn(rows, X),
         NEW r \in RowSet, r.prev = u, r.at = t, ~r.applied
  PROVE  \E B : Reckoned(Append(rows, r), B, b, u, X)
<1> DEFINE s == Append(rows, r)
           o == Renewals!OutsideBefore(u, Replay(rows, before, X), Len(rows) = 0)
           B == Append(before, o)
<1>1. /\ Fixed(rows, before) /\ before \in Seq(Change) /\ Len(before) = Len(rows) /\ u = Bought(b, X)
      /\ Len(rows) \in Nat /\ t \in Nat \ {0}
  BY PurchasesAssumption DEF Reckoned, Fixed, Renewals!RenewalsAssumption
<1>2. Replay(rows, before, X) \in AnEnd
  BY <1>1, ReplaySame DEF Alike
<1>3. o \in Change
  <2>1. (Len(rows) = 0) \in BOOLEAN
    OBVIOUS
  <2> QED BY <1>2, <2>1, OutsideIs
<1>4. Renewals!Walk(rows, before, t) = Replay(rows, before, X)
  BY <1>1, WalkToRow
<1>5. \A j, k \in 1 .. Len(rows) : j # k => rows[j].intent # rows[k].intent
  BY DEF Stamps
<1>6. o = Renewals!OutsideBefore(r.prev, Renewals!Walk(rows, before, r.at), Len(rows) = 0)
  BY <1>4
<1>7. u \in Int => \A Y \in SUBSET Intents :
                     Renewals!Outside(r, o, Replay(rows, before, Y)) = Bought(b, Y) /\ Bought(b, Y) \in Int
  BY <1>1, OutsideBought
<1>8. u = Life /\ Replay(rows, before, X) = Life => Renewals!Outside(r, o, Life) = Life
  BY DEF Renewals!OutsideBefore, Renewals!Outside
<1> HIDE DEF o
<1>9. Fixed(s, B)
  BY <1>1, <1>3, <1>5, <1>6, FixedOneMore
<1>10. \A Y \in SUBSET Intents :
         Replay(s, B, Y) = Renewals!Walked(r, o, Replay(rows, before, Y), r.intent \notin Y)
  BY <1>1, <1>3, ReplayOneMore
<1>11. \A Y \in SUBSET Intents : Replay(s, B, Y) = Renewals!Outside(r, o, Replay(rows, before, Y))
  BY <1>10 DEF Renewals!Walked
<1>12. /\ \A k \in 1 .. Len(rows) : k \in 1 .. Len(s) /\ s[k] = rows[k]
       /\ \A k \in 1 .. Len(s) : k \in 1 .. Len(rows) \/ s[k] = r
  BY <1>1
<1> HIDE DEF s, B
<1>13. \A k \in 1 .. Len(b) : b[k].kind = "buy" => \E j \in 1 .. Len(s) : s[j].intent = b[k].intent
  BY <1>12 DEF Reckoned
<1>14. CASE u \in Int
  <2>1. \A Y \in SUBSET Intents : Replay(s, B, Y) = Bought(b, Y) /\ Bought(b, Y) \in Int
    BY <1>7, <1>11, <1>14
  <2>2. \A Y \in SUBSET Intents : Replay(s, B, Y) \in Int /\ Bought(b, Y) = Replay(s, B, Y) + 0
    BY <2>1
  <2>3. Shifted(s, B, b)
    BY <2>2 DEF Shifted, ShiftedBy
  <2>7. Reckoned(s, B, b, u, X)
    BY <1>1, <1>9, <1>13, <2>3 DEF Reckoned
  <2> QED BY <2>7 DEF s
<1>15. CASE u = Life
  <2>1. ~Shifted(rows, before, b)
    <3> SUFFICES ASSUME NEW d \in Int, ShiftedBy(rows, before, b, d) PROVE FALSE
      BY DEF Shifted
    <3>1. Bought(b, X) # Life
      BY ShiftedEnds
    <3> QED BY <1>1, <1>15, <3>1
  <2>2. Flat(rows, before, b, u)
    BY <2>1 DEF Reckoned
  <2>3. \A Y \in SUBSET Intents : Bought(b, Y) = u /\ Replay(rows, before, Y) = Life
    BY <2>2 DEF Flat
  <2>4. Renewals!Outside(r, o, Life) = Life
    BY <1>8, <1>15, <2>3
  <2>5. \A k \in 1 .. Len(s) : ~s[k].applied
    BY <1>12, <2>2 DEF Flat
  <2>6. Flat(s, B, b, u)
    BY <1>11, <2>3, <2>4, <2>5 DEF Flat
  <2>7. Reckoned(s, B, b, u, X)
    BY <1>1, <1>9, <1>13, <2>6 DEF Reckoned
  <2> QED BY <2>7 DEF s
<1> QED BY <1>14, <1>15 DEF AnEnd

\* A renewal of this period is taken back, and the end replayed without it.
LEMMA ReckonedRefund ==
  ASSUME NEW rows \in Seq(RowSet), NEW s \in Seq(RowSet), NEW before, NEW b, NEW u,
         NEW X \in SUBSET Intents, NEW Y \in SUBSET Intents, Reckoned(rows, before, b, u, X),
         Len(s) = Len(rows), \A k \in 1 .. Len(rows) : Alike(rows[k], s[k]), Fixed(s, before),
         MarkedIn(rows, X), MarkedIn(s, Y), NEW i \in 1 .. Len(rows), rows[i].applied
  PROVE  /\ Renewals!ReplayRenewals(rows) # Life /\ Renewals!ReplayRenewals(s) # Life /\ u # Life
         /\ Renewals!ReplayRenewals(s) + (u - Renewals!ReplayRenewals(rows)) \in AnEnd
         /\ Reckoned(s, before, b, Renewals!ReplayRenewals(s) + (u - Renewals!ReplayRenewals(rows)), Y)
<1>1. /\ Fixed(rows, before) /\ before \in Seq(Change) /\ Len(before) = Len(rows) /\ u = Bought(b, X)
      /\ Len(before) <= Len(rows)
  BY DEF Reckoned, Fixed
<1>2. ~Flat(rows, before, b, u)
  BY DEF Flat
<1>3. PICK d \in Int : ShiftedBy(rows, before, b, d)
  BY <1>2 DEF Reckoned, Shifted
<1>4. ASSUME NEW Z PROVE Replay(rows, before, Z) = Replay(s, before, Z)
  <2>1. AlikeTo(rows, s, Len(before))
    BY <1>1 DEF AlikeTo
  <2>2. before \in Seq(Change) /\ Len(before) <= Len(rows)
    BY <1>1
  <2> QED BY <2>1, <2>2, ReplayAlike
<1>5. ShiftedBy(s, before, b, d)
  BY <1>3, <1>4 DEF ShiftedBy
<1>6. /\ Renewals!ReplayRenewals(rows) = Replay(rows, before, X)
      /\ Renewals!ReplayRenewals(s) = Replay(s, before, Y)
  BY <1>1, ReplayWhole
<1>7. /\ Replay(rows, before, X) \in Int /\ Replay(rows, before, X) # Life /\ u # Life
      /\ u = Replay(rows, before, X) + d
  BY <1>1, <1>3, ShiftedEnds
<1>8. /\ Replay(s, before, Y) \in Int /\ Replay(s, before, Y) # Life
      /\ Bought(b, Y) = Replay(s, before, Y) + d
  BY <1>5, ShiftedEnds
<1>9. Replay(s, before, Y) + (u - Replay(rows, before, X)) = Bought(b, Y) /\ Bought(b, Y) \in Int
  BY <1>7, <1>8
<1>10. \A k \in 1 .. Len(b) : b[k].kind = "buy" => \E j \in 1 .. Len(s) : s[j].intent = b[k].intent
  BY DEF Reckoned, Alike
<1>11. Reckoned(s, before, b, Bought(b, Y), Y)
  BY <1>5, <1>10 DEF Reckoned, Shifted
<1> QED BY <1>6, <1>7, <1>8, <1>9, <1>11 DEF AnEnd

-----------------------------------------------------------------------------
(* The period of the ledger as it stands: its rows that are not closed.    *)

RefundedIn(rows) == {i \in Intents : \E k \in 1 .. Len(rows) : rows[k].intent = i /\ rows[k].refunded # 0}

PeriodAt(rows, b, u, m, before) ==
  ClosedTo(rows, m) /\ Reckoned(Rest(rows, m), before, b, u, RefundedIn(rows))
Period(rows, b, u) == \E m, before : PeriodAt(rows, b, u, m, before)

LEMMA RestIs ==
  ASSUME NEW rows \in Seq(RowSet), NEW m \in 0 .. Len(rows)
  PROVE  /\ Rest(rows, m) \in Seq(RowSet) /\ Len(Rest(rows, m)) = Len(rows) - m
         /\ \A k \in 1 .. Len(Rest(rows, m)) : m + k \in 1 .. Len(rows) /\ Rest(rows, m)[k] = rows[m + k]
BY DEF Rest

\* What is bound of time is bound in the period too, and its marks are those
\* of the ledger.
LEMMA RestStamps ==
  ASSUME NEW rows \in Seq(RowSet), NEW m \in 0 .. Len(rows), NEW t, Stamps(rows, t)
  PROVE  Stamps(Rest(rows, m), t) /\ MarkedIn(rows, RefundedIn(rows)) /\ MarkedIn(Rest(rows, m), RefundedIn(rows))
<1> DEFINE c == Rest(rows, m)
<1>1. Len(c) \in Nat /\ m \in Nat /\ \A k \in 1 .. Len(c) : m + k \in 1 .. Len(rows) /\ c[k] = rows[m + k]
  BY RestIs
<1>2. MarkedIn(rows, RefundedIn(rows))
  <2> SUFFICES ASSUME NEW k \in 1 .. Len(rows) PROVE rows[k].intent \in RefundedIn(rows) <=> rows[k].refunded # 0
    BY DEF MarkedIn
  <2>0. rows[k] \in RowSet
    OBVIOUS
  <2>1. rows[k].intent \in Intents
    BY <2>0 DEF RowSet
  <2>2. \A j \in 1 .. Len(rows) : j # k => rows[j].intent # rows[k].intent
    BY DEF Stamps
  <2> QED BY <2>1, <2>2 DEF RefundedIn
<1> HIDE DEF c
<1>3. MarkedIn(c, RefundedIn(rows))
  BY <1>1, <1>2 DEF MarkedIn
<1>4. ASSUME NEW k \in 1 .. Len(c)
      PROVE  c[k].at < t /\ c[k].refunded < t /\ (c[k].applied \/ c[k].refunded # 0)
  BY <1>1 DEF Stamps
<1>5. ASSUME NEW j \in 1 .. Len(c), NEW k \in 1 .. Len(c)
      PROVE  (j < k => c[j].at < c[k].at) /\ (j # k => c[j].intent # c[k].intent)
  <2>1. /\ m + j \in 1 .. Len(rows) /\ c[j] = rows[m + j] /\ m + k \in 1 .. Len(rows) /\ c[k] = rows[m + k]
        /\ (j < k => m + j < m + k) /\ (j # k => m + j # m + k)
    BY <1>1
  <2> QED BY <2>1 DEF Stamps
<1>6. Stamps(c, t)
  BY <1>4, <1>5 DEF Stamps
<1> QED BY <1>2, <1>3, <1>6 DEF c

\* A period begins with no row.
LEMMA PeriodStart ==
  ASSUME NEW rows \in Seq(RowSet), \A k \in 1 .. Len(rows) : rows[k].superseded, NEW u \in AnEnd
  PROVE  Period(rows, <<[kind |-> "start", end |-> u]>>, u)
<1>1. ClosedTo(rows, Len(rows))
  BY DEF ClosedTo
<1>2. Rest(rows, Len(rows)) = <<>>
  BY DEF Rest
<1>3. Reckoned(<<>>, <<>>, <<[kind |-> "start", end |-> u]>>, u, RefundedIn(rows))
  BY ReckonedStart
<1> QED BY <1>1, <1>2, <1>3, Zenon DEF Period, PeriodAt

LEMMA PeriodFinite ==
  ASSUME NEW rows, NEW b, Period(rows, b, Life), NEW u \in AnEnd
  PROVE  Period(rows, <<[kind |-> "start", end |-> u]>>, u)
<1>1. PICK m, before : PeriodAt(rows, b, Life, m, before)
  BY DEF Period
<1>2. RefundedIn(rows) \in SUBSET Intents
  BY DEF RefundedIn
<1>3. Reckoned(Rest(rows, m), before, <<[kind |-> "start", end |-> u]>>, u, RefundedIn(rows))
  BY <1>1, <1>2, ReckonedFinite DEF PeriodAt
<1> QED BY <1>1, <1>3, Zenon DEF Period, PeriodAt

LEMMA PeriodEdit ==
  ASSUME NEW rows, NEW b \in Seq(EntrySet), NEW u \in Int, Period(rows, b, u), NEW s \in Int
  PROVE  Period(rows, Append(b, [kind |-> "edit", shift |-> s]), u + s)
<1>1. PICK m, before : PeriodAt(rows, b, u, m, before)
  BY DEF Period
<1>2. RefundedIn(rows) \in SUBSET Intents /\ u # Life
  BY PurchasesAssumption DEF RefundedIn, Renewals!RenewalsAssumption
<1>3. Reckoned(Rest(rows, m), before, Append(b, [kind |-> "edit", shift |-> s]), u + s, RefundedIn(rows))
  BY <1>1, <1>2, ReckonedEdit DEF PeriodAt
<1> QED BY <1>1, <1>3, Zenon DEF Period, PeriodAt

\* One more row that is not closed, of a renewal that had none.
LEMMA RestOneMore ==
  ASSUME NEW rows \in Seq(RowSet), NEW m, ClosedTo(rows, m), NEW r \in RowSet, ~r.superseded
  PROVE  ClosedTo(Append(rows, r), m) /\ Rest(Append(rows, r), m) = Append(Rest(rows, m), r)
<1> DEFINE s == Append(rows, r)
           n == Len(rows)
<1>1. n \in Nat /\ m \in 0 .. n /\ \A k \in 1 .. n : rows[k].superseded <=> k <= m
  BY DEF ClosedTo
<1>2. s \in Seq(RowSet) /\ Len(s) = n + 1 /\ s[n + 1] = r /\ \A k \in 1 .. n : s[k] = rows[k]
  OBVIOUS
<1> HIDE DEF s
<1>3. ASSUME NEW k \in 1 .. Len(s) PROVE s[k].superseded <=> k <= m
  <2>1. CASE k \in 1 .. n
    BY <1>1, <1>2, <2>1
  <2>2. CASE k = n + 1
    <3>1. ~(k <= m) /\ s[k] = r
      BY <1>1, <1>2, <2>2
    <3> QED BY <3>1
  <2> QED BY <1>1, <1>2, <2>1, <2>2
<1>4. ClosedTo(s, m)
  BY <1>1, <1>2, <1>3 DEF ClosedTo
<1>5. Rest(s, m) = Append(Rest(rows, m), r)
  <2>1. SubSeq(s, m + 1, n + 1) = Append(SubSeq(s, m + 1, n), s[n + 1])
    <3>1. n + 1 \in 1 .. Len(s) /\ n + 1 > m /\ (n + 1) - 1 = n /\ m \in Nat
      BY <1>1, <1>2
    <3> HIDE DEF n
    <3>2. SubSeq(s, m + 1, n + 1) = Append(SubSeq(s, m + 1, (n + 1) - 1), s[n + 1])
      BY <1>2, <3>1, SubSeqGrows
    <3> QED BY <3>1, <3>2
  <2>2. SubSeq(s, m + 1, n) = SubSeq(rows, m + 1, n)
    BY <1>1, <1>2
  <2> QED BY <1>2, <2>1, <2>2 DEF Rest
<1> QED BY <1>4, <1>5 DEF s

\* The refunds of a ledger with one more row.
LEMMA RefundedOneMore ==
  ASSUME NEW rows \in Seq(RowSet), NEW r \in RowSet
  PROVE  RefundedIn(Append(rows, r)) = IF r.refunded = 0 THEN RefundedIn(rows) ELSE RefundedIn(rows) \cup {r.intent}
<1> DEFINE s == Append(rows, r)
           n == Len(rows)
<1>1. n \in Nat /\ Len(s) = n + 1 /\ s[n + 1] = r /\ (\A k \in 1 .. n : s[k] = rows[k]) /\ r.intent \in Intents
  BY DEF RowSet
<1>2. \A k \in 1 .. Len(s) : k \in 1 .. n \/ k = n + 1
  BY <1>1
<1>3. n + 1 \in 1 .. Len(s) /\ \A k \in 1 .. n : k \in 1 .. Len(s)
  BY <1>1
<1> HIDE DEF s, n
<1>4. ASSUME NEW i \in Intents
      PROVE  i \in RefundedIn(s) <=> (i \in RefundedIn(rows) \/ (i = r.intent /\ r.refunded # 0))
  BY <1>1, <1>2, <1>3 DEF RefundedIn, n
<1>5. RefundedIn(s) = IF r.refunded = 0 THEN RefundedIn(rows) ELSE RefundedIn(rows) \cup {r.intent}
  <2>1. RefundedIn(s) \subseteq Intents /\ RefundedIn(rows) \subseteq Intents
    BY DEF RefundedIn
  <2> QED BY <1>1, <1>4, <2>1
<1> QED BY <1>5 DEF s

\* A renewal is bought, and recorded.
LEMMA PeriodBuy ==
  ASSUME NEW rows \in Seq(RowSet), NEW b \in Seq(EntrySet), NEW u \in Int, Period(rows, b, u),
         NEW t \in 1 .. MaxTime, Stamps(rows, t), NEW r \in RowSet, \A k \in 1 .. Len(rows) : rows[k].intent # r.intent,
         r.prev = u, r.at = t, r.applied, r.refunded = 0, ~r.superseded
  PROVE  Period(Append(rows, r), Append(b, [kind |-> "buy", intent |-> r.intent, at |-> t]),
                Renewals!RenewedUpdatesUntil(u, t, Days[r.intent]))
<1> DEFINE c == Append(b, [kind |-> "buy", intent |-> r.intent, at |-> t])
           v == Renewals!RenewedUpdatesUntil(u, t, Days[r.intent])
           X == RefundedIn(rows)
<1>1. PICK m, before : PeriodAt(rows, b, u, m, before)
  BY DEF Period
<1>2. m \in 0 .. Len(rows) /\ ClosedTo(rows, m) /\ Reckoned(Rest(rows, m), before, b, u, X)
  BY <1>1 DEF PeriodAt, ClosedTo
<1>3. Rest(rows, m) \in Seq(RowSet) /\ Stamps(Rest(rows, m), t) /\ MarkedIn(Rest(rows, m), X)
  BY <1>2, RestIs, RestStamps
<1>4. X \in SUBSET Intents /\ r.intent \notin X
  BY DEF RefundedIn
<1>5. ClosedTo(Append(rows, r), m) /\ Rest(Append(rows, r), m) = Append(Rest(rows, m), r)
  BY <1>2, RestOneMore
<1>6. RefundedIn(Append(rows, r)) = X
  BY RefundedOneMore
<1> HIDE DEF X
<1>7. \E B : Reckoned(Append(Rest(rows, m), r), B, c, v, X)
  BY <1>2, <1>3, <1>4, ReckonedBuy
<1> HIDE DEF c, v
<1>8. PICK B : Reckoned(Append(Rest(rows, m), r), B, c, v, X)
  BY <1>7
<1>9. PeriodAt(Append(rows, r), c, v, m, B)
  BY <1>5, <1>6, <1>8 DEF PeriodAt
<1>10. Period(Append(rows, r), c, v)
  BY <1>9, Zenon DEF Period
<1> QED BY <1>10 DEF c, v

\* A renewal refunded before it was applied is recorded.
LEMMA PeriodFirst ==
  ASSUME NEW rows \in Seq(RowSet), NEW b \in Seq(EntrySet), NEW u \in AnEnd, Period(rows, b, u),
         NEW t \in 1 .. MaxTime, Stamps(rows, t), NEW r \in RowSet, \A k \in 1 .. Len(rows) : rows[k].intent # r.intent,
         r.prev = u, r.at = t, ~r.applied, r.refunded # 0, ~r.superseded
  PROVE  Period(Append(rows, r), b, u)
<1> DEFINE X == RefundedIn(rows)
           Y == X \cup {r.intent}
<1>1. PICK m, before : PeriodAt(rows, b, u, m, before)
  BY DEF Period
<1>2. m \in 0 .. Len(rows) /\ ClosedTo(rows, m) /\ Reckoned(Rest(rows, m), before, b, u, X)
  BY <1>1 DEF PeriodAt, ClosedTo
<1>3. Rest(rows, m) \in Seq(RowSet) /\ Stamps(Rest(rows, m), t) /\ MarkedIn(Rest(rows, m), X)
  BY <1>2, RestIs, RestStamps
<1>4. X \in SUBSET Intents /\ Y \in SUBSET Intents
  BY DEF RefundedIn, RowSet
<1>5. ClosedTo(Append(rows, r), m) /\ Rest(Append(rows, r), m) = Append(Rest(rows, m), r)
  BY <1>2, RestOneMore
<1>6. RefundedIn(Append(rows, r)) = Y
  BY RefundedOneMore
<1>7. \A k \in 1 .. Len(Rest(rows, m)) : Rest(rows, m)[k].intent \in X <=> Rest(rows, m)[k].intent \in Y
  <2>1. \A k \in 1 .. Len(Rest(rows, m)) : Rest(rows, m)[k].intent # r.intent
    BY <1>2, RestIs
  <2> QED BY <2>1
<1>8. MarkedIn(Rest(rows, m), Y)
  BY <1>3, <1>7 DEF MarkedIn
<1> HIDE DEF X, Y
<1>9. Reckoned(Rest(rows, m), before, b, u, Y)
  BY <1>2, <1>7, ReckonedElsewhere
<1>10. \E B : Reckoned(Append(Rest(rows, m), r), B, b, u, Y)
  BY <1>3, <1>4, <1>8, <1>9, ReckonedFirst
<1>11. PICK B : Reckoned(Append(Rest(rows, m), r), B, b, u, Y)
  BY <1>10
<1>12. PeriodAt(Append(rows, r), b, u, m, B)
  BY <1>5, <1>6, <1>11 DEF PeriodAt
<1> QED BY <1>12, Zenon DEF Period

\* s is the ledger with row i refunded at t.
Refunding(rows, s, i, t) ==
  /\ s \in Seq(RowSet) /\ Len(s) = Len(rows) /\ i \in 1 .. Len(rows)
  /\ rows[i].refunded = 0
  /\ \A k \in 1 .. Len(rows) :
       /\ Alike(rows[k], s[k])
       /\ s[k].superseded = rows[k].superseded
       /\ s[k].refunded = (IF k = i THEN t ELSE rows[k].refunded)

LEMMA RefundedRefund ==
  ASSUME NEW rows \in Seq(RowSet), NEW s, NEW i, NEW t \in Nat \ {0}, Refunding(rows, s, i, t)
  PROVE  RefundedIn(s) = RefundedIn(rows) \cup {rows[i].intent}
<1>1. i \in 1 .. Len(rows) /\ rows[i] \in RowSet /\ t # 0
  BY DEF Refunding
<1>2. rows[i].intent \in Intents
  BY <1>1 DEF RowSet
<1>3. \A k \in 1 .. Len(rows) :
        /\ s[k].intent = rows[k].intent
        /\ s[k].refunded # 0 <=> (k = i \/ rows[k].refunded # 0)
  BY <1>1 DEF Refunding, Alike
<1>4. Len(s) = Len(rows)
  BY DEF Refunding
<1>5. ASSUME NEW j \in Intents PROVE j \in RefundedIn(s) <=> (j \in RefundedIn(rows) \/ j = rows[i].intent)
  BY <1>1, <1>3, <1>4 DEF RefundedIn
<1>6. RefundedIn(s) \subseteq Intents /\ RefundedIn(rows) \subseteq Intents
  BY DEF RefundedIn
<1> QED BY <1>2, <1>5, <1>6

LEMMA SameRow ==
  ASSUME NEW r \in RowSet, NEW s \in RowSet, Alike(r, s), r.superseded = s.superseded, r.refunded = s.refunded
  PROVE  r = s
BY DEF RowSet, Alike

\* The period's rows before and after a refund.
LEMMA RefundingRest ==
  ASSUME NEW rows \in Seq(RowSet), NEW s, NEW i, NEW t \in Nat \ {0}, Refunding(rows, s, i, t),
         NEW m, ClosedTo(rows, m)
  PROVE  /\ ClosedTo(s, m)
         /\ ~(i <= m) => i - m \in 1 .. Len(Rest(rows, m)) /\ Refunding(Rest(rows, m), Rest(s, m), i - m, t)
         /\ i <= m => Rest(s, m) = Rest(rows, m)
<1> DEFINE c == Rest(rows, m)
           d == Rest(s, m)
           n == Len(rows)
<1>1. n \in Nat /\ m \in 0 .. n /\ i \in 1 .. n /\ Len(s) = n /\ s \in Seq(RowSet)
  BY DEF ClosedTo, Refunding
<1>2. /\ c \in Seq(RowSet) /\ Len(c) = n - m
      /\ \A k \in 1 .. Len(c) : m + k \in 1 .. n /\ c[k] = rows[m + k]
  BY <1>1, RestIs
<1>3. /\ d \in Seq(RowSet) /\ Len(d) = n - m
      /\ \A k \in 1 .. Len(d) : m + k \in 1 .. n /\ d[k] = s[m + k]
  BY <1>1, RestIs
<1>4. ClosedTo(s, m)
  BY <1>1 DEF ClosedTo, Refunding
<1> HIDE DEF c, d
<1>5. ASSUME ~(i <= m) PROVE i - m \in 1 .. Len(c) /\ Refunding(c, d, i - m, t)
  <2>1. i - m \in 1 .. Len(c) /\ m + (i - m) = i
    BY <1>1, <1>2, <1>5
  <2>2. c[i - m] = rows[i] /\ rows[i].refunded = 0
    BY <1>2, <2>1 DEF Refunding
  <2>3. ASSUME NEW k \in 1 .. Len(c)
        PROVE  /\ Alike(c[k], d[k]) /\ d[k].superseded = c[k].superseded
               /\ d[k].refunded = (IF k = i - m THEN t ELSE c[k].refunded)
    <3>1. m + k \in 1 .. n /\ c[k] = rows[m + k] /\ d[k] = s[m + k]
      BY <1>2, <1>3
    <3>2. (k = i - m) <=> (m + k = i)
      BY <1>1, <1>2
    <3>3. /\ Alike(rows[m + k], s[m + k]) /\ s[m + k].superseded = rows[m + k].superseded
          /\ s[m + k].refunded = (IF m + k = i THEN t ELSE rows[m + k].refunded)
      BY <3>1 DEF Refunding
    <3> QED BY <3>1, <3>2, <3>3
  <2> QED BY <1>2, <1>3, <2>1, <2>2, <2>3 DEF Refunding
<1>6. ASSUME i <= m, NEW k \in 1 .. Len(c) PROVE d[k] = c[k]
  <2>1. m + k \in 1 .. n /\ c[k] = rows[m + k] /\ d[k] = s[m + k] /\ m + k # i
    BY <1>1, <1>2, <1>3, <1>6
  <2>2. Alike(rows[m + k], s[m + k]) /\ s[m + k].superseded = rows[m + k].superseded /\ s[m + k].refunded = rows[m + k].refunded
    BY <2>1 DEF Refunding
  <2>3. rows[m + k] \in RowSet /\ s[m + k] \in RowSet
    BY <1>1, <2>1
  <2>4. rows[m + k] = s[m + k]
    BY <2>2, <2>3, SameRow
  <2> QED BY <2>1, <2>4
<1>7. i <= m => c = d
  BY <1>2, <1>3, <1>6
<1> QED BY <1>4, <1>5, <1>7 DEF c, d

\* A renewal is refunded: if it counts, the end is replayed without it.
LEMMA PeriodRefund ==
  ASSUME NEW rows \in Seq(RowSet), NEW s, NEW i, NEW t \in 1 .. MaxTime, Refunding(rows, s, i, t),
         NEW b \in Seq(EntrySet), NEW u, Period(rows, b, u), Stamps(rows, t), NEW m, ClosedTo(rows, m)
  PROVE  /\ rows[i].superseded => Period(s, b, u)
         /\ ~rows[i].superseded =>
              LET p == Renewals!ReplayRenewals(Rest(rows, m))
                  q == Renewals!ReplayRenewals(Rest(s, m))
              IN  /\ rows[i].applied /\ p # Life /\ q # Life /\ u # Life
                  /\ q + (u - p) \in AnEnd /\ Period(s, b, q + (u - p))
<1> DEFINE c == Rest(rows, m)
           d == Rest(s, m)
           X == RefundedIn(rows)
           Y == X \cup {rows[i].intent}
<1>1. /\ t \in Nat \ {0} /\ m \in 0 .. Len(rows) /\ Len(rows) \in Nat /\ i \in 1 .. Len(rows)
      /\ (rows[i].superseded <=> i <= m) /\ s \in Seq(RowSet) /\ Len(s) = Len(rows)
  BY PurchasesAssumption DEF ClosedTo, Refunding, Renewals!RenewalsAssumption
<1>2. PICK before : PeriodAt(rows, b, u, m, before)
  <2>1. PICK m1, before : PeriodAt(rows, b, u, m1, before)
    BY DEF Period
  <2>2. m1 \in 0 .. Len(rows) /\ \A k \in 1 .. Len(rows) : rows[k].superseded <=> k <= m1
    BY <2>1 DEF PeriodAt, ClosedTo
  <2>3. \A k \in 1 .. Len(rows) : rows[k].superseded <=> k <= m
    BY DEF ClosedTo
  <2>4. \A k \in 1 .. Len(rows) : k <= m <=> k <= m1
    BY <2>2, <2>3
  <2>5. m = m1
    <3>1. m \in 1 .. Len(rows) => m <= m1
      BY <1>1, <2>2, <2>4
    <3>2. m1 \in 1 .. Len(rows) => m1 <= m
      BY <1>1, <2>2, <2>4
    <3> QED BY <1>1, <2>2, <3>1, <3>2
  <2> QED BY <2>1, <2>5
<1>3. Reckoned(c, before, b, u, X)
  BY <1>2 DEF PeriodAt
<1>4. /\ ClosedTo(s, m)
      /\ ~(i <= m) => i - m \in 1 .. Len(c) /\ Refunding(c, d, i - m, t)
      /\ i <= m => d = c
  BY <1>1, RefundingRest
<1>5. X \in SUBSET Intents /\ Y \in SUBSET Intents
  <2>1. rows[i] \in RowSet
    BY <1>1
  <2> QED BY <2>1 DEF RefundedIn, RowSet
<1>6. RefundedIn(s) = Y
  BY <1>1, RefundedRefund
<1>7. c \in Seq(RowSet) /\ d \in Seq(RowSet)
  BY <1>1, RestIs
<1>8. Stamps(c, t) /\ MarkedIn(c, X)
  BY <1>1, RestStamps
<1>80. \A k \in 1 .. Len(rows) : k # i => rows[k].intent # rows[i].intent
  BY <1>1 DEF Stamps
<1>81. \A k \in 1 .. Len(c) : m + k \in 1 .. Len(rows) /\ c[k] = rows[m + k]
  BY <1>1, RestIs
<1>9. ASSUME i <= m PROVE Period(s, b, u)
  <2>1. \A k \in 1 .. Len(c) : c[k].intent # rows[i].intent
    <3> SUFFICES ASSUME NEW k \in 1 .. Len(c) PROVE c[k].intent # rows[i].intent
      OBVIOUS
    <3>0. Len(c) \in Nat
      BY <1>7
    <3> HIDE DEF c
    <3>1. m + k \in 1 .. Len(rows) /\ c[k] = rows[m + k] /\ m + k # i
      BY <1>1, <1>81, <1>9, <3>0
    <3> QED BY <1>80, <3>1
  <2>2. \A k \in 1 .. Len(c) : c[k].intent \in X <=> c[k].intent \in Y
    BY <2>1
  <2> HIDE DEF c, X, Y
  <2>3. Reckoned(c, before, b, u, Y)
    BY <1>3, <2>2, ReckonedElsewhere
  <2>4. PeriodAt(s, b, u, m, before)
    BY <1>4, <1>6, <1>9, <2>3 DEF PeriodAt, d
  <2> QED BY <2>4, Zenon DEF Period
<1> HIDE DEF X
<1>10. ASSUME ~(i <= m)
       PROVE  /\ rows[i].applied /\ Renewals!ReplayRenewals(c) # Life /\ Renewals!ReplayRenewals(d) # Life /\ u # Life
              /\ Renewals!ReplayRenewals(d) + (u - Renewals!ReplayRenewals(c)) \in AnEnd
              /\ Period(s, b, Renewals!ReplayRenewals(d) + (u - Renewals!ReplayRenewals(c)))
  <2> DEFINE j == i - m
  <2>1. j \in 1 .. Len(c) /\ Refunding(c, d, j, t)
    BY <1>4, <1>10
  <2>2. m + j = i
    BY <1>1
  <2> HIDE DEF j
  <2>3. c[j] = rows[i]
    BY <1>81, <2>1, <2>2
  <2> HIDE DEF c, d
  <2>4. Len(d) = Len(c) /\ c[j].refunded = 0 /\ \A k \in 1 .. Len(c) : Alike(c[k], d[k])
    BY <2>1 DEF Refunding
  <2>5. c[j].applied
    BY <1>8, <2>1, <2>4 DEF Stamps
  <2>6. Fixed(c, before)
    BY <1>3 DEF Reckoned
  <2>7. \A k, l \in 1 .. Len(c) : k # l => c[k].intent # c[l].intent
    BY <1>8 DEF Stamps
  <2>8. ASSUME NEW k \in 1 .. Len(c) PROVE SameTo(c, d, k - 1, c[k].at)
    <3>0. c[k] \in RowSet /\ k - 1 \in Nat /\ k - 1 < k
      BY <1>7
    <3>1. c[k].at \in Int /\ c[k].at < t
      BY <1>8, <3>0, PurchasesAssumption DEF Stamps, RowSet, Renewals!RenewalsAssumption
    <3>2. ASSUME NEW l \in 1 .. k - 1
          PROVE  Alike(c[l], d[l]) /\ (Renewals!InEffect(c[l], c[k].at) <=> Renewals!InEffect(d[l], c[k].at))
      <4>1. l \in 1 .. Len(c)
        BY <1>7, <3>0
      <4>2. Alike(c[l], d[l]) /\ d[l].refunded = (IF l = j THEN t ELSE c[l].refunded)
        BY <2>1, <4>1 DEF Refunding
      <4>3. CASE l = j
        <5>1. c[l].refunded = 0 /\ d[l].refunded = t /\ t >= c[k].at
          BY <1>1, <2>4, <3>1, <4>2, <4>3
        <5> QED BY <4>2, <5>1 DEF Renewals!InEffect, Renewals!Never
      <4>4. CASE l # j
        BY <4>2, <4>4 DEF Renewals!InEffect
      <4> QED BY <4>3, <4>4
    <3> QED BY <3>2 DEF SameTo
  <2>9. Fixed(d, before)
    BY <1>7, <2>4, <2>6, <2>7, <2>8, FixedRefund
  <2>10. MarkedIn(d, Y)
    <3> SUFFICES ASSUME NEW k \in 1 .. Len(c) PROVE d[k].intent \in Y <=> d[k].refunded # 0
      BY <2>4 DEF MarkedIn
    <3>1. d[k].intent = c[k].intent /\ d[k].refunded = (IF k = j THEN t ELSE c[k].refunded)
      BY <2>1 DEF Refunding, Alike
    <3>2. c[k].intent \in X <=> c[k].refunded # 0
      BY <1>8 DEF MarkedIn
    <3>3. c[k].intent = rows[i].intent <=> k = j
      BY <2>1, <2>3, <2>7
    <3> QED BY <1>1, <3>1, <3>2, <3>3
  <2> HIDE DEF Y
  <2>11. /\ Renewals!ReplayRenewals(c) # Life /\ Renewals!ReplayRenewals(d) # Life /\ u # Life
         /\ Renewals!ReplayRenewals(d) + (u - Renewals!ReplayRenewals(c)) \in AnEnd
         /\ Reckoned(d, before, b, Renewals!ReplayRenewals(d) + (u - Renewals!ReplayRenewals(c)), Y)
    BY <1>3, <1>5, <1>7, <1>8, <2>1, <2>4, <2>5, <2>9, <2>10, ReckonedRefund
  <2>12. PeriodAt(s, b, Renewals!ReplayRenewals(d) + (u - Renewals!ReplayRenewals(c)), m, before)
    BY <1>4, <1>6, <2>11 DEF PeriodAt, d
  <2>13. Period(s, b, Renewals!ReplayRenewals(d) + (u - Renewals!ReplayRenewals(c)))
    BY <2>12, Zenon DEF Period
  <2> QED BY <2>3, <2>5, <2>11, <2>13
<1> QED BY <1>1, <1>9, <1>10

LEMMA RowTimes == ASSUME NEW r \in RowSet PROVE r.at \in Int /\ r.refunded \in Int
BY PurchasesAssumption DEF RowSet, Renewals!RenewalsAssumption

\* Time passes, and a step stamps nothing later than its own instant.
LEMMA StampsKept ==
  ASSUME NEW rows \in Seq(RowSet), NEW s \in Seq(RowSet), Len(s) = Len(rows),
         NEW t \in Nat, NEW n \in Nat, t <= n, Stamps(rows, t),
         \A k \in 1 .. Len(rows) :
           /\ Alike(rows[k], s[k])
           /\ s[k].refunded = rows[k].refunded \/ (s[k].refunded # 0 /\ s[k].refunded < n)
  PROVE  Stamps(s, n)
<1>1. ASSUME NEW k \in 1 .. Len(s)
      PROVE  s[k].at < n /\ s[k].refunded < n /\ (s[k].applied \/ s[k].refunded # 0)
  <2>1. k \in 1 .. Len(rows) /\ rows[k] \in RowSet
    OBVIOUS
  <2>2. rows[k].at < t /\ rows[k].refunded < t /\ (rows[k].applied \/ rows[k].refunded # 0)
    BY <2>1 DEF Stamps
  <2>3. rows[k].at \in Int /\ rows[k].refunded \in Int
    BY <2>1, RowTimes
  <2>4. rows[k].at < n /\ rows[k].refunded < n
    BY <2>2, <2>3
  <2>5. s[k].at = rows[k].at /\ s[k].applied = rows[k].applied
    BY <2>1 DEF Alike
  <2>6. s[k].refunded = rows[k].refunded \/ (s[k].refunded # 0 /\ s[k].refunded < n)
    BY <2>1
  <2> QED BY <2>2, <2>4, <2>5, <2>6
<1>2. ASSUME NEW j \in 1 .. Len(s), NEW k \in 1 .. Len(s)
      PROVE  (j < k => s[j].at < s[k].at) /\ (j # k => s[j].intent # s[k].intent)
  <2>1. /\ s[j].at = rows[j].at /\ s[k].at = rows[k].at
        /\ s[j].intent = rows[j].intent /\ s[k].intent = rows[k].intent
    BY DEF Alike
  <2>2. (j < k => rows[j].at < rows[k].at) /\ (j # k => rows[j].intent # rows[k].intent)
    BY DEF Stamps
  <2> QED BY <2>1, <2>2
<1> QED BY <1>1, <1>2 DEF Stamps

LEMMA StampsOneMore ==
  ASSUME NEW rows \in Seq(RowSet), NEW t \in Nat, Stamps(rows, t), NEW r \in RowSet,
         \A k \in 1 .. Len(rows) : rows[k].intent # r.intent,
         r.at = t, r.refunded = 0 \/ r.refunded = t, r.applied \/ r.refunded # 0
  PROVE  Stamps(Append(rows, r), t + 1)
<1> DEFINE s == Append(rows, r)
           n == Len(rows)
<1>1. n \in Nat /\ Len(s) = n + 1 /\ s[n + 1] = r /\ \A k \in 1 .. n : s[k] = rows[k]
  OBVIOUS
<1> HIDE DEF s
<1>2. ASSUME NEW k \in 1 .. n
      PROVE  s[k].at < t /\ s[k].at < t + 1 /\ s[k].refunded < t + 1 /\ (s[k].applied \/ s[k].refunded # 0)
  <2>1. rows[k] \in RowSet /\ s[k] = rows[k]
    BY <1>1
  <2>2. rows[k].at \in Int /\ rows[k].refunded \in Int
    BY <2>1, RowTimes
  <2>3. rows[k].at < t /\ rows[k].refunded < t /\ (rows[k].applied \/ rows[k].refunded # 0)
    BY DEF Stamps
  <2> QED BY <2>1, <2>2, <2>3
<1>3. ASSUME NEW k \in 1 .. Len(s)
      PROVE  s[k].at < t + 1 /\ s[k].refunded < t + 1 /\ (s[k].applied \/ s[k].refunded # 0)
  <2>1. k \in 1 .. n \/ k = n + 1
    BY <1>1
  <2>2. CASE k \in 1 .. n
    BY <1>2, <2>2
  <2>3. CASE k = n + 1
    <3>1. s[k] = r
      BY <1>1, <2>3
    <3> QED BY <3>1
  <2> QED BY <2>1, <2>2, <2>3
<1>4. ASSUME NEW j \in 1 .. Len(s), NEW k \in 1 .. Len(s)
      PROVE  (j < k => s[j].at < s[k].at) /\ (j # k => s[j].intent # s[k].intent)
  <2>1. (j \in 1 .. n \/ j = n + 1) /\ (k \in 1 .. n \/ k = n + 1)
    BY <1>1
  <2>2. CASE j \in 1 .. n /\ k \in 1 .. n
    <3>1. s[j] = rows[j] /\ s[k] = rows[k]
      BY <1>1, <2>2
    <3> QED BY <2>2, <3>1 DEF Stamps
  <2>3. CASE j \in 1 .. n /\ k = n + 1
    <3>1. s[j] = rows[j] /\ s[k] = r
      BY <1>1, <2>3
    <3> QED BY <1>2, <2>3, <3>1
  <2>4. CASE j = n + 1 /\ k \in 1 .. n
    <3>1. s[k] = rows[k] /\ s[j] = r /\ ~(j < k)
      BY <1>1, <2>4
    <3> QED BY <2>4, <3>1
  <2>5. CASE j = n + 1 /\ k = n + 1
    BY <1>1, <2>5
  <2> QED BY <2>1, <2>2, <2>3, <2>4, <2>5
<1>5. Stamps(s, t + 1)
  BY <1>3, <1>4 DEF Stamps
<1> QED BY <1>5 DEF s

\* A period's rows are closed, and nothing else about them changes.
LEMMA ClosedRows ==
  ASSUME NEW rows \in Seq(RowSet)
  PROVE  LET s == Renewals!Superseded(rows)
         IN  /\ s \in Seq(RowSet) /\ Len(s) = Len(rows)
             /\ \A k \in 1 .. Len(rows) :
                  Alike(rows[k], s[k]) /\ s[k].refunded = rows[k].refunded /\ s[k].superseded
<1> DEFINE s == Renewals!Superseded(rows)
<1>1. s = [k \in 1 .. Len(rows) |-> [rows[k] EXCEPT !.superseded = TRUE]] /\ Len(rows) \in Nat
  BY DEF Renewals!Superseded
<1>2. ASSUME NEW r \in RowSet
      PROVE  LET q == [r EXCEPT !.superseded = TRUE]
             IN  q \in RowSet /\ Alike(r, q) /\ q.refunded = r.refunded /\ q.superseded
  BY DEF RowSet, Alike
<1>3. \A k \in 1 .. Len(rows) : rows[k] \in RowSet
  OBVIOUS
<1> HIDE DEF s
<1>4. \A k \in 1 .. Len(rows) :
        s[k] \in RowSet /\ Alike(rows[k], s[k]) /\ s[k].refunded = rows[k].refunded /\ s[k].superseded
  BY <1>1, <1>2, <1>3
<1>5. s \in [1 .. Len(rows) -> RowSet]
  BY <1>1, <1>4
<1>6. s \in Seq(RowSet) /\ Len(s) = Len(rows)
  BY <1>1, <1>5
<1> QED BY <1>4, <1>6 DEF s

\* One row is refunded.
LEMMA RefundedRowIs ==
  ASSUME NEW rows \in Seq(RowSet), NEW i \in 1 .. Len(rows), rows[i].refunded = 0, NEW t \in 1 .. MaxTime
  PROVE  Refunding(rows, [rows EXCEPT ![i].refunded = t], i, t)
<1> DEFINE r == [rows[i] EXCEPT !.refunded = t]
           s == [rows EXCEPT ![i] = r]
<1>0. t \in 0 .. MaxTime
  BY PurchasesAssumption DEF Renewals!RenewalsAssumption
<1>1. /\ rows[i] \in RowSet /\ r \in RowSet /\ r.refunded = t
      /\ Alike(rows[i], r) /\ r.superseded = rows[i].superseded
  <2>1. rows[i] \in RowSet
    OBVIOUS
  <2> QED BY <1>0, <2>1 DEF RowSet, Alike
<1>2. [rows EXCEPT ![i].refunded = t] = s
  OBVIOUS
<1> HIDE DEF r
<1>3. s \in Seq(RowSet) /\ Len(s) = Len(rows) /\ \A k \in 1 .. Len(rows) : s[k] = IF k = i THEN r ELSE rows[k]
  BY <1>1
<1> HIDE DEF s
<1>4. \A k \in 1 .. Len(rows) :
        /\ Alike(rows[k], s[k])
        /\ s[k].superseded = rows[k].superseded
        /\ s[k].refunded = (IF k = i THEN t ELSE rows[k].refunded)
  BY <1>1, <1>3 DEF Alike
<1>5. Refunding(rows, s, i, t)
  BY <1>3, <1>4 DEF Refunding
<1> QED BY <1>2, <1>5

-----------------------------------------------------------------------------
(* The inductive invariant of the period, and each action of it.           *)

PeriodKinds ==
  /\ now \in 1 .. MaxTime + 1
  /\ renewed \in [until : AnEnd, perpetual : BOOLEAN, active : BOOLEAN]
  /\ ledger \in Seq(RowSet) /\ bought \in Seq(EntrySet)
  /\ early \subseteq Intents /\ handled \subseteq Intents
  /\ payments \in [Intents -> {"none", "open", "paid", "refunded"}]
  /\ renewers \in [Workers -> Intents \cup {Renewals!None}]
  /\ editor \in Seq(AnEnd) /\ Len(editor) <= 1
  /\ edits \in 0 .. MaxEdits

PeriodInv == PeriodKinds /\ Stamps(ledger, now) /\ Period(ledger, bought, renewed.until)

\* The parts a step of the ledger may disturb, and those the others may.
LedgerKinds ==
  /\ now \in 1 .. MaxTime + 1
  /\ renewed \in [until : AnEnd, perpetual : BOOLEAN, active : BOOLEAN]
  /\ ledger \in Seq(RowSet) /\ bought \in Seq(EntrySet)
OtherKinds ==
  /\ early \subseteq Intents /\ handled \subseteq Intents
  /\ payments \in [Intents -> {"none", "open", "paid", "refunded"}]
  /\ renewers \in [Workers -> Intents \cup {Renewals!None}]
  /\ editor \in Seq(AnEnd) /\ Len(editor) <= 1
  /\ edits \in 0 .. MaxEdits

LEMMA PeriodKindsAre == PeriodKinds <=> LedgerKinds /\ OtherKinds
BY DEF PeriodKinds, LedgerKinds, OtherKinds

LEMMA PeriodParts ==
  ASSUME PeriodInv
  PROVE  /\ LedgerKinds /\ OtherKinds /\ Stamps(ledger, now) /\ Period(ledger, bought, renewed.until)
         /\ now \in Nat \ {0} /\ now <= MaxTime + 1 /\ MaxTime \in Nat /\ MaxEdits \in Nat
         /\ renewed.until \in AnEnd /\ (renewed.until # Life => renewed.until \in Int)
BY PurchasesAssumption DEF PeriodInv, PeriodKinds, LedgerKinds, OtherKinds, AnEnd, Renewals!RenewalsAssumption

LEMMA PeriodInvIs ==
  ASSUME LedgerKinds', OtherKinds', Stamps(ledger', now'), Period(ledger', bought', renewed'.until)
  PROVE  PeriodInv'
BY DEF PeriodInv, PeriodKinds, LedgerKinds, OtherKinds

LEMMA PeriodBegins == Renewals!Init => PeriodInv
<1> SUFFICES ASSUME Renewals!Init PROVE PeriodInv
  OBVIOUS
<1> DEFINE start == [kind |-> "start", end |-> 2]
<1>0. MaxTime \in Nat /\ MaxEdits \in Nat /\ 2 \in AnEnd
  BY PurchasesAssumption DEF AnEnd, Renewals!RenewalsAssumption
<1>1. start \in EntrySet
  BY <1>0 DEF EntrySet
<1>2. bought = <<start>> /\ ledger = <<>> /\ now = 1 /\ renewed.until = 2
  BY DEF Renewals!Init
<1>3. bought \in Seq(EntrySet) /\ ledger \in Seq(RowSet)
  BY <1>1, <1>2
<1>4. PeriodKinds
  BY <1>0, <1>3 DEF Renewals!Init, PeriodKinds
<1>5. Stamps(ledger, now)
  BY <1>2 DEF Stamps
<1>6. Period(ledger, <<start>>, 2)
  <2>1. \A k \in 1 .. Len(ledger) : ledger[k].superseded
    BY <1>2
  <2> QED BY <1>0, <1>3, <2>1, PeriodStart
<1> QED BY <1>2, <1>4, <1>5, <1>6 DEF PeriodInv

\* Steps that leave the ledger, the end and what moved it alone.
LEMMA PeriodApart ==
  ASSUME PeriodInv, OtherKinds', UNCHANGED <<ledger, bought>>, renewed'.until = renewed.until,
         renewed' \in [until : AnEnd, perpetual : BOOLEAN, active : BOOLEAN],
         now' \in now .. MaxTime + 1
  PROVE  PeriodInv'
<1>1. LedgerKinds /\ Stamps(ledger, now) /\ Period(ledger, bought, renewed.until) /\ now \in Nat \ {0} /\ MaxTime \in Nat
  BY PeriodParts
<1>2. ledger \in Seq(RowSet) /\ now \in Nat /\ now' \in Nat /\ now <= now' /\ now' \in 1 .. MaxTime + 1
  BY <1>1 DEF LedgerKinds
<1>3. \A k \in 1 .. Len(ledger) : Alike(ledger[k], ledger[k])
  BY DEF Alike
<1>4. Stamps(ledger, now')
  BY <1>1, <1>2, <1>3, StampsKept
<1>5. LedgerKinds'
  BY <1>1, <1>2 DEF LedgerKinds
<1> QED BY <1>1, <1>4, <1>5, PeriodInvIs

LEMMA PeriodClaim ==
  ASSUME PeriodInv, NEW i \in Intents, NEW w \in Workers, Renewals!ClaimSession(w, i)
  PROVE  PeriodInv'
<1>1. OtherKinds' /\ UNCHANGED <<now, renewed, ledger, bought>>
  BY PeriodParts DEF OtherKinds, Renewals!ClaimSession
<1> QED BY <1>1, PeriodParts, PeriodApart DEF LedgerKinds

LEMMA PeriodPortal ==
  ASSUME PeriodInv, NEW i \in Intents, Renewals!RenewUpdates(i) \/ Renewals!Pay(i) \/ Renewals!Refund(i)
  PROVE  PeriodInv'
<1>1. OtherKinds' /\ UNCHANGED <<now, renewed, ledger, bought>>
  BY PeriodParts DEF OtherKinds, Renewals!RenewUpdates, Renewals!Pay, Renewals!Refund
<1> QED BY <1>1, PeriodParts, PeriodApart DEF LedgerKinds

LEMMA PeriodAdmin ==
  ASSUME PeriodInv, Renewals!SeeUpdatesUntil \/ Renewals!SetActive \/ Renewals!Tick
  PROVE  PeriodInv'
<1>1. LedgerKinds /\ OtherKinds /\ renewed.until \in AnEnd /\ now \in Nat \ {0} /\ MaxTime \in Nat /\ MaxEdits \in Nat
  BY PeriodParts
<1>2. CASE Renewals!SeeUpdatesUntil
  <2>1. <<renewed.until>> \in Seq(AnEnd) /\ Len(<<renewed.until>>) = 1
    BY <1>1
  <2>2. OtherKinds' /\ UNCHANGED <<now, renewed, ledger, bought>>
    BY <1>1, <1>2, <2>1 DEF OtherKinds, Renewals!SeeUpdatesUntil
  <2> QED BY <1>1, <2>2, PeriodApart DEF LedgerKinds
<1>3. CASE Renewals!SetActive
  <2>1. OtherKinds' /\ UNCHANGED <<now, ledger, bought>>
    BY <1>1, <1>3 DEF OtherKinds, Renewals!SetActive
  <2>2. renewed'.until = renewed.until /\ renewed' \in [until : AnEnd, perpetual : BOOLEAN, active : BOOLEAN]
    BY <1>1, <1>3 DEF LedgerKinds, Renewals!SetActive
  <2> QED BY <1>1, <2>1, <2>2, PeriodApart DEF LedgerKinds
<1>4. CASE Renewals!Tick
  <2>1. OtherKinds' /\ UNCHANGED <<renewed, ledger, bought>> /\ now' \in now .. MaxTime + 1
    BY <1>1, <1>4 DEF OtherKinds, Renewals!Tick
  <2> QED BY <1>1, <2>1, PeriodApart DEF LedgerKinds
<1> QED BY <1>2, <1>3, <1>4

\* The period is set outside the ledger: its rows are closed.
LEMMA PeriodRestarts ==
  ASSUME PeriodInv, OtherKinds', now' = now, NEW end \in AnEnd, renewed'.until = end,
         renewed' \in [until : AnEnd, perpetual : BOOLEAN, active : BOOLEAN],
         ledger' = Renewals!Superseded(ledger), bought' = <<[kind |-> "start", end |-> end]>>
  PROVE  PeriodInv'
<1>1. LedgerKinds /\ Stamps(ledger, now) /\ now \in Nat /\ ledger \in Seq(RowSet)
  BY PeriodParts DEF LedgerKinds
<1>2. /\ ledger' \in Seq(RowSet) /\ Len(ledger') = Len(ledger)
      /\ \A k \in 1 .. Len(ledger) :
           Alike(ledger[k], ledger'[k]) /\ ledger'[k].refunded = ledger[k].refunded /\ ledger'[k].superseded
  BY <1>1, ClosedRows
<1>3. Stamps(ledger', now')
  BY <1>1, <1>2, StampsKept
<1>4. [kind |-> "start", end |-> end] \in EntrySet
  BY DEF EntrySet
<1>5. LedgerKinds'
  BY <1>1, <1>2, <1>4 DEF LedgerKinds
<1>6. Period(ledger', bought', end)
  BY <1>2, PeriodStart
<1> QED BY <1>3, <1>5, <1>6, PeriodInvIs

LEMMA PeriodPlan ==
  ASSUME PeriodInv, NEW end \in AnEnd, Renewals!ChangePlan(end)
  PROVE  PeriodInv'
<1>1. LedgerKinds /\ OtherKinds /\ MaxEdits \in Nat
  BY PeriodParts
<1>2. OtherKinds' /\ now' = now
  BY <1>1 DEF OtherKinds, Renewals!ChangePlan
<1>3. /\ renewed' \in [until : AnEnd, perpetual : BOOLEAN, active : BOOLEAN] /\ renewed'.until \in AnEnd
      /\ ledger' = Renewals!Superseded(ledger)
      /\ bought' = <<[kind |-> "start", end |-> renewed'.until]>>
  BY <1>1 DEF LedgerKinds, AnEnd, Renewals!ChangePlan, Renewals!Restarted
<1> QED BY <1>2, <1>3, PeriodRestarts

\* An admin sets the end.
LEMMA PeriodSet ==
  ASSUME PeriodInv, NEW next \in AnEnd, Renewals!SetLicenseUpdatesUntil(next)
  PROVE  PeriodInv'
<1> DEFINE u == renewed.until
<1>1. /\ LedgerKinds /\ OtherKinds /\ Stamps(ledger, now) /\ Period(ledger, bought, u) /\ now \in Nat \ {0}
      /\ now <= MaxTime + 1 /\ MaxTime \in Nat /\ u \in AnEnd /\ ledger \in Seq(RowSet) /\ bought \in Seq(EntrySet)
      /\ renewed \in [until : AnEnd, perpetual : BOOLEAN, active : BOOLEAN]
  BY PeriodParts DEF LedgerKinds
<1>2. OtherKinds' /\ now' = now
  <2>1. editor' = <<>> /\ UNCHANGED <<now, early, payments, handled, renewers, edits>>
    BY DEF Renewals!SetLicenseUpdatesUntil
  <2>2. <<>> \in Seq(AnEnd) /\ Len(<<>>) <= 1
    OBVIOUS
  <2> QED BY <1>1, <2>1, <2>2 DEF OtherKinds
<1>3. CASE UNCHANGED <<renewed, ledger, bought>>
  BY <1>1, <1>2, <1>3, PeriodApart DEF LedgerKinds
<1>4. CASE /\ editor[1] = u /\ renewed' = [renewed EXCEPT !.until = next]
           /\ ledger' = IF Renewals!ClosesLedger(next) THEN Renewals!Superseded(ledger) ELSE ledger
           /\ IF Life \in {editor[1], next} THEN Renewals!Restarted(next)
              ELSE Renewals!Record([kind |-> "edit", shift |-> next - editor[1]])
  <2>1. renewed'.until = next /\ renewed' \in [until : AnEnd, perpetual : BOOLEAN, active : BOOLEAN]
    BY <1>1, <1>4
  <2>2. CASE next = Life
    <3>1. ledger' = Renewals!Superseded(ledger) /\ bought' = <<[kind |-> "start", end |-> next]>>
      BY <1>4, <2>2 DEF Renewals!ClosesLedger, Renewals!Restarted
    <3> QED BY <1>2, <2>1, <3>1, PeriodRestarts
  <2>3. CASE next # Life /\ u = Life
    <3>1. ledger' = ledger /\ bought' = <<[kind |-> "start", end |-> next]>>
      BY <1>4, <2>3 DEF Renewals!ClosesLedger, Renewals!Restarted
    <3>2. [kind |-> "start", end |-> next] \in EntrySet
      BY DEF EntrySet
    <3>3. LedgerKinds'
      BY <1>1, <1>2, <2>1, <3>1, <3>2 DEF LedgerKinds
    <3>4. Period(ledger', bought', next)
      BY <1>1, <2>3, <3>1, PeriodFinite
    <3> QED BY <1>1, <1>2, <2>1, <3>1, <3>3, <3>4, PeriodInvIs
  <2>4. CASE next # Life /\ u # Life
    <3>0. next \in Int /\ u \in Int /\ next - u \in Int /\ u + (next - u) = next
      BY <1>1, <2>4 DEF AnEnd
    <3>1. ledger' = ledger /\ bought' = Append(bought, [kind |-> "edit", shift |-> next - u])
      BY <1>4, <2>4 DEF Renewals!ClosesLedger, Renewals!Record
    <3>2. [kind |-> "edit", shift |-> next - u] \in EntrySet
      BY <3>0 DEF EntrySet
    <3>3. LedgerKinds'
      BY <1>1, <1>2, <2>1, <3>1, <3>2 DEF LedgerKinds
    <3>4. Period(ledger', bought', next)
      <4> DEFINE shift == next - u
      <4>1. shift \in Int /\ u + shift = next /\ bought' = Append(bought, [kind |-> "edit", shift |-> shift])
        BY <3>0, <3>1
      <4> HIDE DEF shift
      <4>2. Period(ledger, Append(bought, [kind |-> "edit", shift |-> shift]), u + shift)
        BY <1>1, <3>0, <4>1, PeriodEdit
      <4> QED BY <3>1, <4>1, <4>2
    <3> QED BY <1>1, <1>2, <2>1, <3>1, <3>3, <3>4, PeriodInvIs
  <2> QED BY <2>2, <2>3, <2>4
<1> QED BY <1>3, <1>4 DEF Renewals!SetLicenseUpdatesUntil, Renewals!SameEnd

\* A renewal is applied, or found refunded, in one transaction.
LEMMA PeriodFulfilled ==
  ASSUME PeriodInv, NEW w \in Workers, Renewals!FulfillRenewal(w)
  PROVE  PeriodInv'
<1> DEFINE u == renewed.until
           i == renewers[w]
<1>1. /\ LedgerKinds /\ OtherKinds /\ Stamps(ledger, now) /\ Period(ledger, bought, u) /\ now \in Nat \ {0}
      /\ now <= MaxTime + 1 /\ MaxTime \in Nat /\ u \in AnEnd /\ ledger \in Seq(RowSet) /\ bought \in Seq(EntrySet)
      /\ renewed \in [until : AnEnd, perpetual : BOOLEAN, active : BOOLEAN]
      /\ (u # Life => u \in Int)
  BY PeriodParts DEF LedgerKinds
<1>2. i \in Intents
  BY <1>1 DEF OtherKinds, Renewals!FulfillRenewal
<1>3. OtherKinds'
  <2>1. /\ UNCHANGED <<payments, handled, editor, edits>> /\ renewers' = [renewers EXCEPT ![w] = Renewals!None]
        /\ early' = early \/ early' = early \ {i}
    BY DEF Renewals!FulfillRenewal, Renewals!RecordRefundedRenewal, Renewals!ApplyLicenseRenewal
  <2> QED BY <1>1, <2>1 DEF OtherKinds
<1>4. CASE UNCHANGED <<now, renewed, ledger, early, bought>>
  BY <1>1, <1>3, <1>4, PeriodApart DEF LedgerKinds
<1>5. ASSUME ~Renewals!HasRow(i) PROVE \A k \in 1 .. Len(ledger) : ledger[k].intent # i
  BY <1>1, <1>5 DEF Renewals!HasRow
<1>6. CASE ~Renewals!HasRow(i) /\ Renewals!RefundedFirst(i) /\ Renewals!RecordRefundedRenewal(i)
  <2> DEFINE r == Renewals!Row(i, FALSE, now)
  <2>1. ledger' = Append(ledger, r) /\ UNCHANGED <<renewed, bought>> /\ now' = now + 1 /\ now <= MaxTime
    BY <1>6 DEF Renewals!RecordRefundedRenewal, Renewals!Stamped
  <2>2. now \in 1 .. MaxTime /\ now \in 0 .. MaxTime /\ now' \in 1 .. MaxTime + 1
    BY <1>1, <2>1
  <2>3. /\ r \in RowSet /\ r.intent = i /\ r.prev = u /\ r.at = now /\ ~r.applied /\ r.refunded = now
        /\ r.refunded # 0 /\ ~r.superseded
    BY <1>1, <1>2, <2>2 DEF RowSet, Renewals!Row
  <2> HIDE DEF r, u
  <2>4. \A k \in 1 .. Len(ledger) : ledger[k].intent # r.intent
    BY <1>5, <1>6, <2>3
  <2>5. Stamps(ledger', now')
    BY <1>1, <2>1, <2>3, <2>4, StampsOneMore
  <2>6. Period(Append(ledger, r), bought, u)
    BY <1>1, <2>2, <2>3, <2>4, PeriodFirst
  <2>7. LedgerKinds'
    BY <1>1, <2>1, <2>2, <2>3 DEF LedgerKinds
  <2>8. Period(ledger', bought', renewed'.until)
    BY <2>1, <2>6 DEF u
  <2> QED BY <1>3, <2>5, <2>7, <2>8, PeriodInvIs
<1>7. CASE ~Renewals!HasRow(i) /\ ~Renewals!RefundedFirst(i) /\ Renewals!ApplyLicenseRenewal(i)
  <2> DEFINE r == Renewals!Row(i, TRUE, Renewals!Never)
             v == Renewals!RenewedUpdatesUntil(u, now, Days[i])
             entry == [kind |-> "buy", intent |-> i, at |-> now]
  <2>1. /\ ledger' = Append(ledger, r) /\ bought' = Append(bought, entry) /\ now' = now + 1 /\ now <= MaxTime
        /\ renewed' = [renewed EXCEPT !.until = v] /\ u # Life
    BY <1>7 DEF Renewals!ApplyLicenseRenewal, Renewals!Stamped, Renewals!Record, Renewals!Eligible
  <2>2. now \in 1 .. MaxTime /\ 0 \in 0 .. MaxTime /\ now' \in 1 .. MaxTime + 1 /\ u \in Int
    BY <1>1, <2>1
  <2>3. /\ r \in RowSet /\ r.intent = i /\ r.prev = u /\ r.at = now /\ r.applied /\ r.refunded = 0
        /\ ~r.superseded
    BY <1>1, <1>2, <2>2 DEF RowSet, Renewals!Row, Renewals!Never
  <2>4. entry \in EntrySet
    BY <1>2, <2>2 DEF EntrySet
  <2>5. v \in AnEnd
    <3>1. Days[i] \in Int
      BY <1>2, PurchasesAssumption DEF Renewals!RenewalsAssumption
    <3> QED BY <2>2, <3>1 DEF Renewals!RenewedUpdatesUntil, AnEnd
  <2> HIDE DEF r, u
  <2>6. \A k \in 1 .. Len(ledger) : ledger[k].intent # r.intent
    BY <1>5, <1>7, <2>3
  <2>7. Stamps(ledger', now')
    BY <1>1, <2>1, <2>3, <2>6, StampsOneMore
  <2>8. Period(Append(ledger, r), Append(bought, [kind |-> "buy", intent |-> r.intent, at |-> now]),
               Renewals!RenewedUpdatesUntil(u, now, Days[r.intent]))
    BY <1>1, <2>2, <2>3, <2>6, PeriodBuy
  <2>9. Period(Append(ledger, r), Append(bought, entry), v)
    BY <2>3, <2>8
  <2> HIDE DEF v, entry
  <2>10. LedgerKinds'
    <3>1. ledger' \in Seq(RowSet)
      BY <1>1, <2>1, <2>3
    <3>2. bought' \in Seq(EntrySet)
      BY <1>1, <2>1, <2>4
    <3>3. renewed' \in [until : AnEnd, perpetual : BOOLEAN, active : BOOLEAN]
      BY <1>1, <2>1, <2>5
    <3> QED BY <2>2, <3>1, <3>2, <3>3 DEF LedgerKinds
  <2>11. renewed'.until = v
    BY <1>1, <2>1
  <2>12. Period(ledger', bought', renewed'.until)
    BY <2>1, <2>9, <2>11
  <2> QED BY <1>3, <2>7, <2>10, <2>12, PeriodInvIs
<1> QED BY <1>4, <1>6, <1>7 DEF Renewals!FulfillRenewal

\* The ledger's replay without one renewal is the one of the refunded ledger.
LEMMA WithoutIs ==
  ASSUME ledger \in Seq(RowSet), NEW k \in 1 .. Len(ledger), NEW m \in 0 .. Len(ledger), Stamps(ledger, now),
         NEW s, s = [ledger EXCEPT ![k].refunded = now], s \in Seq(RowSet)
  PROVE  Renewals!WithoutIntent(Rest(ledger, m), ledger[k].intent) = Rest(s, m)
<1> DEFINE c == Rest(ledger, m)
           d == Rest(s, m)
           i == ledger[k].intent
<1>1. Len(s) = Len(ledger) /\ \A j \in 1 .. Len(ledger) :
        s[j] = IF j = k THEN [ledger[k] EXCEPT !.refunded = now] ELSE ledger[j]
  OBVIOUS
<1>2. /\ c \in Seq(RowSet) /\ Len(c) = Len(ledger) - m
      /\ \A j \in 1 .. Len(c) : m + j \in 1 .. Len(ledger) /\ c[j] = ledger[m + j]
  BY RestIs
<1>3. /\ d \in Seq(RowSet) /\ Len(d) = Len(c)
      /\ \A j \in 1 .. Len(c) : d[j] = s[m + j]
  <2>1. m \in 0 .. Len(s)
    BY <1>1
  <2>2. d \in Seq(RowSet) /\ Len(d) = Len(s) - m /\ \A j \in 1 .. Len(d) : d[j] = s[m + j]
    BY <2>1, RestIs
  <2> HIDE DEF c, d
  <2> QED BY <1>1, <1>2, <2>2
<1> HIDE DEF c, d
<1>4. \A j \in 1 .. Len(c) : d[j] = IF c[j].intent = i THEN [c[j] EXCEPT !.refunded = now] ELSE c[j]
  <2> SUFFICES ASSUME NEW j \in 1 .. Len(c)
               PROVE  d[j] = IF c[j].intent = i THEN [c[j] EXCEPT !.refunded = now] ELSE c[j]
    OBVIOUS
  <2>1. m + j \in 1 .. Len(ledger) /\ c[j] = ledger[m + j] /\ d[j] = s[m + j]
    BY <1>2, <1>3
  <2>2. ledger[m + j].intent = i <=> m + j = k
    BY <2>1 DEF Stamps
  <2> QED BY <1>1, <2>1, <2>2
<1>5. Renewals!WithoutIntent(c, i) =
        [j \in 1 .. Len(c) |-> IF c[j].intent = i THEN [c[j] EXCEPT !.refunded = now] ELSE c[j]]
  BY <1>2 DEF Renewals!WithoutIntent
<1> HIDE DEF i
<1>6. d = [j \in 1 .. Len(c) |-> d[j]]
  BY <1>3
<1>7. Renewals!WithoutIntent(c, i) = d
  BY <1>4, <1>5, <1>6
<1> QED BY <1>7 DEF c, d, i

\* The replays of a refund both have an end, so that what an admin moved it
\* by is told from what was bought.
ReplayTells(i) ==
  Life \notin {Renewals!ReplayRenewals(Renewals!Current),
               Renewals!ReplayRenewals(Renewals!WithoutIntent(Renewals!Current, i))}

\* What a refund of row k makes of the end.
RefundKeeps(k) ==
  LET s == [ledger EXCEPT ![k].refunded = now]
      i == ledger[k].intent
  IN  /\ Refunding(ledger, s, k, now)
      /\ ledger[k].superseded => Period(s, bought, renewed.until)
      /\ ~ledger[k].superseded =>
           /\ ledger[k].applied /\ renewed.until # Life /\ ReplayTells(i)
           /\ Renewals!Reverted(i) \in AnEnd /\ Period(s, bought, Renewals!Reverted(i))

LEMMA RefundReplays ==
  ASSUME PeriodInv, now <= MaxTime, NEW k \in DOMAIN ledger, ledger[k].refunded = 0
  PROVE  RefundKeeps(k)
<1> DEFINE u == renewed.until
           s == [ledger EXCEPT ![k].refunded = now]
           i == ledger[k].intent
<1>1. /\ LedgerKinds /\ Stamps(ledger, now) /\ Period(ledger, bought, u) /\ now \in Nat \ {0}
      /\ MaxTime \in Nat /\ ledger \in Seq(RowSet) /\ bought \in Seq(EntrySet)
  BY PeriodParts DEF LedgerKinds
<1>2. k \in 1 .. Len(ledger) /\ now \in 1 .. MaxTime
  BY <1>1
<1>3. Refunding(ledger, s, k, now)
  BY <1>1, <1>2, RefundedRowIs
<1>4. PICK m : ClosedTo(ledger, m)
  BY <1>1 DEF Period, PeriodAt
<1>5. m \in 0 .. Len(ledger)
  BY <1>4 DEF ClosedTo
<1>6. s \in Seq(RowSet) /\ Len(s) = Len(ledger)
  BY <1>3 DEF Refunding
<1> DEFINE p == Renewals!ReplayRenewals(Rest(ledger, m))
           q == Renewals!ReplayRenewals(Rest(s, m))
<1>7. /\ Renewals!Reverted(i) = IF Life \notin {p, q} THEN q + (u - p) ELSE u - Days[i]
      /\ ReplayTells(i) <=> Life \notin {p, q}
  <2>1. Renewals!Current = Rest(ledger, m)
    BY <1>1, <1>4, CurrentIs
  <2>2. Renewals!WithoutIntent(Rest(ledger, m), i) = Rest(s, m)
    BY <1>1, <1>2, <1>5, <1>6, WithoutIs
  <2> HIDE DEF s, i
  <2> QED BY <2>1, <2>2 DEF Renewals!Reverted, ReplayTells
<1> HIDE DEF s
<1>8. /\ ledger[k].superseded => Period(s, bought, u)
      /\ ~ledger[k].superseded => /\ ledger[k].applied /\ p # Life /\ q # Life /\ u # Life
                                  /\ q + (u - p) \in AnEnd /\ Period(s, bought, q + (u - p))
  BY <1>1, <1>2, <1>3, <1>4, PeriodRefund
<1> HIDE DEF p, q, i
<1>9. ~ledger[k].superseded =>
        /\ ledger[k].applied /\ u # Life /\ ReplayTells(i)
        /\ Renewals!Reverted(i) \in AnEnd /\ Period(s, bought, Renewals!Reverted(i))
  BY <1>7, <1>8
<1> QED BY <1>3, <1>8, <1>9 DEF RefundKeeps, s, i

\* A refund that finds the row it takes back.
LEMMA PeriodTakenBack ==
  ASSUME PeriodInv, NEW i \in Intents, OtherKinds', NEW k \in DOMAIN ledger,
         ledger[k].intent = i, ledger[k].refunded = 0, now <= MaxTime, now' = now + 1, bought' = bought,
         renewed' = (IF renewed.until # Life /\ ledger[k].applied /\ ~ledger[k].superseded
                     THEN [renewed EXCEPT !.until = Renewals!Reverted(i)] ELSE renewed),
         ledger' = [ledger EXCEPT ![k].refunded = now]
  PROVE  PeriodInv'
<1> DEFINE s == [ledger EXCEPT ![k].refunded = now]
<1>1. /\ LedgerKinds /\ Stamps(ledger, now) /\ now \in Nat \ {0}
      /\ now <= MaxTime + 1 /\ MaxTime \in Nat /\ ledger \in Seq(RowSet) /\ bought \in Seq(EntrySet)
      /\ renewed \in [until : AnEnd, perpetual : BOOLEAN, active : BOOLEAN]
  BY PeriodParts DEF LedgerKinds
<1>2. now' \in 1 .. MaxTime + 1 /\ now \in Nat /\ now' \in Nat /\ now <= now' /\ now # 0 /\ now < now'
  BY <1>1
<1>3. /\ Refunding(ledger, s, k, now)
      /\ ledger[k].superseded => Period(s, bought, renewed.until)
      /\ ~ledger[k].superseded =>
           /\ ledger[k].applied /\ renewed.until # Life
           /\ Renewals!Reverted(i) \in AnEnd /\ Period(s, bought, Renewals!Reverted(i))
  BY RefundReplays DEF RefundKeeps
<1>4. ledger' = s
  OBVIOUS
<1> HIDE DEF s
<1>5. s \in Seq(RowSet) /\ Len(s) = Len(ledger)
  BY <1>3 DEF Refunding
<1>6. renewed' \in [until : AnEnd, perpetual : BOOLEAN, active : BOOLEAN] /\ Period(s, bought, renewed'.until)
  <2>1. CASE ledger[k].superseded
    <3>1. renewed' = renewed
      BY <2>1
    <3> QED BY <1>1, <1>3, <2>1, <3>1
  <2>2. CASE ~ledger[k].superseded
    <3>1. renewed' = [renewed EXCEPT !.until = Renewals!Reverted(i)] /\ Renewals!Reverted(i) \in AnEnd
      BY <1>3, <2>2
    <3>2. /\ renewed'.until = Renewals!Reverted(i)
          /\ renewed' \in [until : AnEnd, perpetual : BOOLEAN, active : BOOLEAN]
      BY <1>1, <3>1
    <3> QED BY <1>3, <2>2, <3>2
  <2> QED BY <2>1, <2>2
<1>7. Stamps(s, now')
  <2>1. \A j \in 1 .. Len(ledger) :
          /\ Alike(ledger[j], s[j])
          /\ s[j].refunded = ledger[j].refunded \/ (s[j].refunded # 0 /\ s[j].refunded < now')
    BY <1>2, <1>3 DEF Refunding
  <2> QED BY <1>1, <1>2, <1>5, <2>1, StampsKept
<1>8. LedgerKinds'
  BY <1>1, <1>2, <1>4, <1>5, <1>6 DEF LedgerKinds
<1> QED BY <1>4, <1>6, <1>7, <1>8, PeriodInvIs

LEMMA PeriodRefunds ==
  ASSUME PeriodInv, NEW i \in Intents, Renewals!TakeBackCharge(i)
  PROVE  PeriodInv'
<1>1. LedgerKinds /\ OtherKinds /\ now \in Nat \ {0} /\ now <= MaxTime + 1 /\ MaxTime \in Nat
  BY PeriodParts
<1>2. /\ handled' = handled \cup {i} /\ UNCHANGED <<payments, renewers, editor, edits, bought>>
      /\ early' = early \cup {i} \/ early' = early
  BY DEF Renewals!TakeBackCharge
<1>3. OtherKinds'
  BY <1>1, <1>2 DEF OtherKinds
<1>4. CASE UNCHANGED <<now, renewed, ledger>>
  BY <1>1, <1>2, <1>3, <1>4, PeriodApart DEF LedgerKinds
<1>5. ASSUME NEW k \in DOMAIN ledger, ledger[k].intent = i, ledger[k].refunded = 0, now <= MaxTime, now' = now + 1,
             renewed' = (IF renewed.until # Life /\ ledger[k].applied /\ ~ledger[k].superseded
                         THEN [renewed EXCEPT !.until = Renewals!Reverted(i)] ELSE renewed),
             ledger' = [ledger EXCEPT ![k].refunded = now]
      PROVE  PeriodInv'
  BY <1>2, <1>3, <1>5, PeriodTakenBack
<1> QED BY <1>4, <1>5 DEF Renewals!TakeBackCharge, Renewals!Stamped, Renewals!Never

LEMMA PeriodStep ==
  ASSUME PeriodInv, [Renewals!Next]_renewalVars
  PROVE  PeriodInv'
<1>1. CASE UNCHANGED renewalVars
  BY <1>1 DEF renewalVars, PeriodInv, PeriodKinds
<1>2. ASSUME NEW i \in Intents, Renewals!RenewUpdates(i) \/ Renewals!Pay(i) \/ Renewals!Refund(i)
      PROVE  PeriodInv'
  BY <1>2, PeriodPortal
<1>3. ASSUME NEW i \in Intents, Renewals!TakeBackCharge(i) PROVE PeriodInv'
  BY <1>3, PeriodRefunds
<1>4. ASSUME NEW i \in Intents, NEW w \in Workers, Renewals!ClaimSession(w, i) PROVE PeriodInv'
  BY <1>4, PeriodClaim
<1>5. ASSUME NEW w \in Workers, Renewals!FulfillRenewal(w) PROVE PeriodInv'
  BY <1>5, PeriodFulfilled
<1>6. ASSUME NEW w \in Workers, Renewals!Fail(w) PROVE PeriodInv'
  <2>1. OtherKinds' /\ UNCHANGED <<now, renewed, ledger, bought>>
    BY <1>6, PeriodParts DEF OtherKinds, Renewals!Fail
  <2> QED BY <2>1, PeriodParts, PeriodApart DEF LedgerKinds
<1>7. CASE Renewals!SeeUpdatesUntil \/ Renewals!SetActive \/ Renewals!Tick
  BY <1>7, PeriodAdmin
<1>8. ASSUME NEW e \in Ends \cup {Life}, Renewals!SetLicenseUpdatesUntil(e) PROVE PeriodInv'
  <2>1. e \in AnEnd
    BY PurchasesAssumption DEF AnEnd, Renewals!RenewalsAssumption
  <2> QED BY <1>8, <2>1, PeriodSet
<1>9. ASSUME NEW e \in {Life, now + PlanDays}, Renewals!ChangePlan(e) PROVE PeriodInv'
  <2>1. e \in AnEnd
    BY PeriodParts, PurchasesAssumption DEF AnEnd, Renewals!RenewalsAssumption
  <2> QED BY <1>9, <2>1, PeriodPlan
<1> QED BY <1>1, <1>2, <1>3, <1>4, <1>5, <1>6, <1>7, <1>8, <1>9 DEF Renewals!Next

\* The end of the invariant is the one the property speaks of.
LEMMA PeriodSays ==
  ASSUME PeriodInv
  PROVE  Renewals!TypeOK /\ Renewals!EndAsIfNeverBought
<1>1. /\ LedgerKinds /\ OtherKinds /\ Period(ledger, bought, renewed.until)
      /\ ledger \in Seq(RowSet) /\ bought \in Seq(EntrySet)
  BY PeriodParts DEF LedgerKinds
<1>2. \A k \in DOMAIN ledger : ledger[k] \in RowSet
  BY <1>1
<1>3. \A k \in DOMAIN ledger : Renewals!IsRow(ledger[k])
  BY <1>2 DEF RowSet, AnEnd, Renewals!IsRow, Renewals!IsEnd
<1>4. \A k \in DOMAIN editor : Renewals!IsEnd(editor[k])
  BY <1>1 DEF OtherKinds, AnEnd, Renewals!IsEnd
<1>5. Renewals!TypeOK
  BY <1>1, <1>3, <1>4 DEF LedgerKinds, OtherKinds, AnEnd, Renewals!TypeOK, Renewals!IsEnd
<1>6. renewed.until = Bought(bought, RefundedIn(ledger))
  BY <1>1 DEF Period, PeriodAt, Reckoned
<1>7. ASSUME NEW k \in 1 .. Len(bought), bought[k].kind = "buy"
      PROVE  bought[k].intent \in RefundedIn(ledger) <=> Renewals!TakenBack(bought[k].intent)
  <2>1. bought[k] \in EntrySet
    BY <1>1
  <2>2. bought[k].intent \in Intents
    BY <1>7, <2>1 DEF EntrySet
  <2>3. DOMAIN ledger = 1 .. Len(ledger)
    BY <1>1
  <2> QED BY <2>2, <2>3 DEF RefundedIn, Renewals!TakenBack, Renewals!Never
<1>8. Renewals!AsIfNeverBought = Bought(bought, RefundedIn(ledger))
  BY <1>1, <1>7, BoughtIs
<1> QED BY <1>5, <1>6, <1>8 DEF Renewals!EndAsIfNeverBought

\* The inductive invariant, for any number of renewals of any length, callers,
\* refunds and edits: the end is that of the period's history without the
\* refunded renewals, and rows and history come to the same whatever is taken
\* back, but for an edit since the last row (ReplayRenewals).
THEOREM PeriodInvHolds == Purchases => [](part = "renewals" => PeriodInv)
<1> DEFINE Inv == part = "renewals" => PeriodInv
<1>1. PurchasesInit => Inv
  BY PeriodBegins DEF PurchasesInit
<1>2. ASSUME Inv, [PurchasesNext]_<<part, vars, renewalVars>> PROVE Inv'
  <2>1. CASE part = "renewals" /\ [Renewals!Next]_renewalVars /\ part' = part
    BY <1>2, <2>1, PeriodStep
  <2>2. CASE part # "renewals" /\ part' = part
    BY <2>2
  <2> QED BY <1>2, <2>1, <2>2 DEF PurchasesNext, UpgradesNext, RenewalsNext
<1> QED BY <1>1, <1>2, PTL DEF Purchases

\* Renewals applied, refunded, applied after their refund and edited around,
\* in any order and by any callers, leave the end where it would be had the
\* refunded ones never been bought (ReplayRenewals, RevertLicenseRenewalIn).
THEOREM EndAsIfNeverBoughtHolds == Purchases => []EndAsIfNeverBought
<1>1. (part = "renewals" => PeriodInv) /\ (part = "renewals" => Renewals!RefundNotLost) => EndAsIfNeverBought
  BY PeriodSays DEF EndAsIfNeverBought
<1> QED BY <1>1, PeriodInvHolds, RefundNotLostHolds, PTL

\* A refund of a renewal of this period never has to guess: the renewal had
\* moved the end, the licence has an end, and so have the ledger's replays with
\* the renewal and without it.  The fallback of RevertLicenseRenewalIn, which
\* takes the renewal's days off and would be wrong for one that revived a
\* lapsed period, is never taken.
THEOREM RefundsNeverGuess ==
  Purchases => [](part = "renewals" =>
                    \A k \in DOMAIN ledger :
                      now <= MaxTime /\ ledger[k].refunded = 0 /\ ~ledger[k].superseded
                        => ledger[k].applied /\ renewed.until # Life /\ ReplayTells(ledger[k].intent))
<1>1. (part = "renewals" => PeriodInv) =>
        (part = "renewals" =>
           \A k \in DOMAIN ledger :
             now <= MaxTime /\ ledger[k].refunded = 0 /\ ~ledger[k].superseded
               => ledger[k].applied /\ renewed.until # Life /\ ReplayTells(ledger[k].intent))
  BY RefundReplays DEF RefundKeeps
<1> QED BY <1>1, PeriodInvHolds, PTL
=============================================================================
