# Keygate: a TLA+ model

Keygate is a self-hosted licensing server: it sells licences through Stripe,
activates devices and floating sessions against them, lets an owner share a
licence with a team, meters usage, and publishes signed releases. It is one Go
program over PostgreSQL, run as one or more replicas. This directory holds TLA+
modules translated from that program, TLC configurations that check them on
small instances, and TLAPS proofs of the properties that matter most.

## The system

| Part | State it keeps | Operations | What makes it correct |
|---|---|---|---|
| Teams (`store/seats.go`, `service/seats.go`) | a seat row per person: invited, joined, removed; the invite token | invite, resend, accept, roll an accept back, remove | no slot past the limit; a place is given out once; a seat off the team holds nothing |
| Keys (`store/member_keys.go`) | the licence's key, a key per joined member | mint, rotate, sweep leftovers | no device or session on a key that no longer works |
| Devices (`store/store.go`, `service/license.go`) | an activation row per device | activate, deactivate, sweep | within the limit in force; never on a stopped licence |
| Floating sessions (`store/floating.go`) | a lease per machine | check out, heartbeat, check in, clean | running leases within the limit; a stopped licence holds none |
| Licence status (`store/admin.go`, `service/expiry.go`, `payment/stripe.go`) | status, valid_until, past_due_at | suspend, reinstate, revoke, expire, Stripe updates | revoked is final; a sweep never undoes what an admin did meanwhile |
| Terms (`payment/subscription_change.go`, `payment/seats.go`) | plan, quantity, hold | downgrade, upgrade, Stripe reads | a lowered limit holds until Stripe's answer is known |
| Upgrades (`payment/upgrade.go`, `store/upgrades.go`) | a row per upgrade | open, fulfil, revert, refund | the team fits; a payment is applied or given back |
| Stripe events (`payment/stripe.go`) | processed event claims | claim, handle, release | each event takes effect once |
| Renewals (`store/store.go`, `model/model.go`) | a ledger per licence | apply, refund, supersede | the date is the replay of the ledger |
| Webhooks, e-mail (`service/webhook.go`, `service/email.go`) | deliveries, queued mail | claim, send, retry | nothing is lost; nothing goes out twice while claimed |
| Idempotency (`middleware/idempotency.go`) | a key per request | claim, complete, replay | the handler runs once per key |
| Usage (`store/usage.go`, `service/metered_sync.go`) | counters, billed amounts | record, reset, sync | a quota is never passed; nothing is billed twice |
| Releases (`service/release.go`, `store/release.go`) | releases, artifacts, signing keys | upload, publish, yank, rotate | what is published is complete and signed by a live key |
| Sign-in (`handler/otp.go`, `store/store.go`) | codes, refresh tokens | request, verify, renew | a code works once, whatever burst guesses at it; a lost answer is not taken for theft |
| Feeds (`handler/admin.go`, `handler/release_public.go`) | the product's type, gate and periods; links handed out | gate, ungate, change type, serve | no link outlives a period that is enforced |
| Owners (`store/store.go`, `handler/setup.go`) | a role per user | set up, invite, demote, remove | an install keeps an owner |
| Self signup (`store/self_signup.go`) | free licences claimed | claim, edit the plan | one licence to an address; the day's cap |

They interact through the licence row: every transaction that changes devices,
seats, sessions, terms or status takes `SELECT ... FOR UPDATE` on it first, and
re-checks there what the request read before. Stripe is asked outside of it.

What is hard here: requests that read a licence, then wait for its lock while
keys rotate, people leave, limits fall and the licence is stopped; two
transactions where one would do (accept, then roll back; count people, then
open a checkout); leases compared with clocks that moved on; replicas of two
versions during a rolling upgrade; Stripe events that come late, twice or out of
order; servers that stop between two steps. `PROJECT.json` lists each hazard
at its line with the property that would catch it.

## Modules

A component is a module named after it. Components that interact only through a
value are kept apart (an open checkout is a record to Team; the seats in use a
number to Terms); those that share a row are one module. The instances TLC
checks are in the MC modules. `Team`, `Fulfilment`, `Terms` and `Mail` are
checked as they are or through an MC module of their own. The others are small,
and an MC module puts several side by side: they share no state, so a behaviour
is one part, chosen at the start, and the rest stays as it began. Such a run
shows of each part what a run of its own would.

Where such a composition is proved about, it is a module of its own, with every
bound a constant, and its MC module only adds what TLC needs.

| Composition | For TLC | Parts |
|---|---|---|
| | `MCTeam`, `MCSubscription` | plans of the product; symmetry |
| `Background` | `MCBackground` | Metering, Webhooks, and Team beside an older replica |
| `Accounts` | `MCAccounts` | Floating, Idempotency, Usage, Codes, Tokens, Owners, Signup |
| `Delivery` | `MCDelivery` | Releases, Feeds |
| `Purchases` | `MCPurchases` | Upgrades, Renewals |

### Team

One licence and its team. A transaction holds the licence row, so it is one
action; a request's earlier reads are kept in `reqs[r]` until its transaction
runs, and everything else may happen between the two.

| Variable | Code |
|---|---|
| `licenseKey`, `seats[e].key` | `licenses.key_hash`, `seats.member_key_hash` |
| `standing` | `licenses.status` with `valid_until`, in the classes the key checks tell apart |
| `terms` | `plan_id`, `quantity` |
| `hasSeats` | the product's type supports seats |
| `seats` | `seats`: `removed_at`, `accepted_at`, `invite_token_hash` |
| `acts` | `activations`: `seat_id`, `predates_member_keys` |
| `opening`, `upgrade` | an upgrade being opened under `UpgradeLockKey`; the pending `license_upgrades` row |
| `serial`, `seats[e].join`, `acts[d].key` | history: numbers given to keys and joins |

Actions are named after the code: `LoadActivate`/`CommitActivate`
(`LicenseService.Activate`, then `ActivateForKey`'s transaction),
`LoadInvite`/`CommitInvite` (`AddSeat`, `AddSeatWithinLimit`),
`AcceptSeatInvite`, `CheckAccept`, `RollbackSeatAccept`, `RemoveSeat`,
`MintMemberKey`, `RotateMemberKey`, `RotateLicenseKey`, the terms
(`ReadTerms`, `SetLicenseQuantity`, `BeginUpgrade`, `OpenUpgrade`,
`AbortUpgrade`, `LapseUpgrade`, `FulfillUpgrade`), the status
(`SuspendLicense`, `ReinstateLicense`, `Expire`, ...) and `SetProductType`.
`OlderRemoveSeat` and `OlderReinvite` are a replica of the version before
members had keys, as the comments on `FinishSeatRemovals` describe it;
`ClearSeatLeftovers` is the sweep that repairs what it leaves. `team` runs
`Steady`, the team without them and without the sweep, which finds nothing to
clear then (`NoLeftovers`, proved); `background` runs the whole of `Spec`.
`Steady` is about two products, the part chosen at the start: one whose licences
have devices and a plan sold per seat, and one with the plans upgrades go to and
no devices.

Abstractions: the licence's e-mail address does not change; an invite that
expires is one that is not accepted; a canceled licence whose period ended is
`suspended`, one inside its period `usable`; plans themselves are not edited
meanwhile; servers' clocks disagree in the times of joining only.

### Floating

Leases on the device slots. A checkout has three moments: the service reads the
licence and fixes the new expiry (`LoadCheckOut`), the transaction begins and
with it `now()` (`BeginCheckOut`), and it goes on under the licence lock
(`CommitCheckOut`). Time may pass between any two of them. A heartbeat takes no
lock. The server's clock and the database's are one; a member over the seat
limit is left to Team. `SessionsWithinCap` leaves out one step, a checkout that
renews its own machine's lease though that has lapsed while it waited for the
lock (`RevivesLease`); the run `floating_waits` is about it.

### Idempotency

One key of the idempotency middleware. `row` is the `idempotency_keys` row: the
body it was claimed with, the stored response, its age, and whether its server
stopped (`orphan`, history). A request claims the slot (`Claim`, the INSERT that
also replaces an expired row) or conflicts and reads it in a second statement
(`Conflict`, then `ReadNothing`, `Refuse` or `Replay`); the one that claimed runs
the handler, answers the client, and only then stores the answer (`Complete`) or
deletes the slot (`Abandon`). Time is counted in ticks from the claim; a handler
ends within `Patience`, less than the TTL, as it does within the server's
timeouts against 24 hours.

### Webhooks

One delivery and everyone who may send it: the request that dispatched it and
the retry loop of each replica. `row` keeps `status`, `attempts`, the time until
`next_retry` and the claim token. A sender claims the row for a lease
(`Dispatch`, `Claim`), reads the webhook (`LookUp`), waits for one of the slots,
renews the claim (`Renew`), posts (`Accept`, `Refuse`) and writes the outcome if
it still holds the row (`Finish`). A sender spends no time between two of its own
statements unless it is held up (`HoldUp`), which then lasts past its lease; a
post lasts at most `SendTime`, less than the lease (`claimLease` covers it by
construction). `accepted` and `cutOff` are history: whether the receiver took
the delivery, and whether a sender was lost before it could say so.

### Mail

One reminder and the mails made for it: `claim` is the `notifications` row with
its token, `mails` the queue. A pass claims the reminder, then queues the mail
and closes the claim in one transaction (`Enqueue`), or releases it. A processor
reads the settings once for its batch (`StartQueue`), claims the due mails for a
lease, sends, and marks the result if it still holds the mail (`Mark`), which may
reopen a reminder whose mail is given up on (`Reopened`).

Settings are none, wrong or good. Wrong ones are refused by the provider, which
puts the mail off and costs no attempt (`Reject`); or their host does not answer,
which is a fault and costs one (`Hiccup`). A send is tried twice, three seconds
apart, in one step. A reminder is claimed only while its window is `open`: the
licence has come that near to its end, and no nearer window has been reminded of.
`WindowCloses` may happen whenever a pass could claim it, which is when a pass
looks; the mails there are then still go out.

### Fulfilment

One checkout session and its licence, with every statement a step. `session` and
`events` are Stripe's side; `rows` holds the reservation and the in-flight marker
of each event and of the session; `workers` are the webhook and success-page
requests and the sync loop of each replica. `Reserve`, `ReadMarker`,
`ReleaseStale` and `ClaimAgain` are the four statements of `reserve`;
`CheckSession` to `CompleteSession` are `fulfillCheckout`; `Deliver`, `Handle`
and `Finish` the webhook around it; `Verify` the success page; `StartSync` and
`SyncPending` a round of the sync. Any statement may fail and any worker stop
(`Fail`, `Crash`).

Abstractions: the session sells a new licence (renewals and upgrades branch off
before the claim); the plan is good, unresolved, or held because it may not be
issued as sold; a buyer without an address is an unresolved plan. A marker goes
stale only when nobody works under it: a request's work is cut off after
`webhookWorkTimeout`, two minutes, against `staleClaimAge`, ten. The sync has no
such limit, and the model assumes the same of it. `torn` and `misread` are
history: a claim, or the session, was read or lost between two of its statements.
`Stranded` is no history but what a takeover of the session's claim leaves when
it stops half-way: a reservation with no marker, and no licence. These, and an
event acknowledged unhandled, are what `PaidGetsLicence` leaves out (see the
findings and observations).

### Subscription and Standing

The status of a licence a subscription bills. Stripe changes the subscription
and sends an event for each change, in no order; a handler finds the licence
(`Find`), takes a stamp of the database clock, reads the subscription and writes
it, each a step, beside an operator's suspend, reinstate, revoke and "cancel and
revoke", the portal's cancel, and the sweeps. The write applies if the licence is
still linked, its stamp is newer and its own state allows it (`NotStale`,
`Unrestricted`). With `readable` FALSE there is no API key, and the event's
payload stands in for the read.

`Standing` is the abstract licence: where it stands (working, paused, lapsed,
ended, held, revoked) and who may move it. An operator's hold is the operator's
to lift, a revocation is nobody's, and a subscription known to be over never
gives the licence back. What only an operator may do is counted in `restores`:
billing's steps leave the count alone, and the one step that makes a held licence
work, or one whose subscription is over, raises it. In `Subscription` the
operator's own actions do that (`Lift`, `SetLicenseValidUntil`), and nothing
else, so that an event which lifted a hold would be no step of `Standing`.
`KeepsStanding` says that `Subscription` implements it
(`INSTANCE Standing WITH standing <- StandingOf(lic), over <- ended`).

`FollowsStripe` leaves out what the code leaves to others: an operator's
decision, and a reinstatement that could not read Stripe afterwards (`astray`).
`TellsOnce` is about reads: without an API key a failed payment's payload takes
an expired licence into dunning again and tells nobody.

### Terms

How many seats the licence has, and how many its subscription bills. A downgrade
lowers the licence before Stripe is asked and holds the lower terms
(`LowerLicenseTerms`) against reads that still show the old ones, until the
outcome is known (`MarkLicenseRead`, then `ReleaseLicenseTerms`, or
`RestoreLicenseTerms`) or the hold lapses and the sweep asks Stripe
(`SettleLapsedHold`). An upgrade is charged first. Stripe makes a change, refuses
it, or never sees it (`StripeMakes`, `StripeRefuses`, `StripeNeverSees`), its
answer may be lost (`OutcomeUnknown`), and the same change asked again is one
request to Stripe (the idempotency key). `order` keeps the workers whose stamp is
still good; a write uses up every older one. Each write may fail too: the read
before the change or after it (`ReadFails`), the licence from Stripe's answer
(`ApplyFails`), the read stamp (`MarkFails`), the lowered, restored or released
terms (`TermsWriteFails`). All but a failed `LowerLicenseTerms` are logged and
gone past, as in the code. A replayed answer whose subscription cannot then be read
moves the stamp and concludes nothing: an `OutcomeUnknown` followed by `ReadFails`.

Left out of `SeatsArePaid` and `TermsSettle`, as the code can do nothing about
it or says so: seats lowered in Stripe's dashboard, or by a change judged on a
subscription that moved before it was sent, which is then no downgrade to the
code and takes no hold (`edited`); and, as `crossed`, two reads that cross (the
finding below), a read stamp that could not be moved after a downgrade while a
read from before it stood (`MarkFails`: the code logs it and lets the hold go, and
the old seats are back until the next read), and a change that reaches Stripe out
of its turn. `TermsSettle` covers the first of these and `MarkFails` as long as
nothing else fails: `MarkLicenseRead` also puts out of date the read an event has
begun, which is the last there is if its request then dies. A request whose
sender died may still be made: an upgrade under a downgrade's hold, a downgrade
whose hold an earlier try's read has ended, either while another change has the
lock. The worker that finds it takes its own change for not made, and puts back
terms that Stripe no longer bills, until its next read (`settle`). That takes
two or three faults and as many requests, more than the run allows; on three
workers, two seats, three requests and two faults, and on two workers, three
seats, four requests and three faults, `SeatsArePaid` holds without those
changes and not with them.

### Upgrades

Upgrade checkouts of a licence on a free plan. The licence is active (also
trialing or past due), lapsed (expired or canceled, which nothing here tells
apart), suspended or revoked. A subscription is live, past due, unpaid or ended;
past due still pays for an upgrade being fulfilled, but does not keep one that
the sweep ends. Either plan may be deleted while no licence is on it. Requests and webhooks read the
upgrade's row and Stripe, call Stripe, and only then open the transaction that
writes: `StartUpgrade`, `OpenCheckout`, `RecordUpgrade`; for a
`Fulfillable` session `UpgradeStillPaid`, `ApplyUpgrade`; `FindRefunded` or `FindEnded`,
`CancelSubscription`, `CloseRefunded`, `RevertUpgrade`, `FinishEnded`; the sweep
and the operator take the same steps. A webhook that was handled may come again,
its completion not recorded. The claim of the session is left out: any
caller may hold it, as one whose claim went stale may.

`unrecorded` is a checkout whose row could not be written and which could not be
closed: a refund does not find it and nothing replaces it. With the free plan
deleted there is nothing to revert to and the licence is ended where it is. With
the paid plan deleted the subscription of a checkout whose payment failed is not
known to be Keygate's and left alone (`FindUnpaid`), which `RefundEndsUpgrade`
leaves out. A
subscription deleted before its upgrade was applied is ended by the sweep.
Refunds of a later period's invoice and changes within a period are left out.

### Renewals

The update period of a perpetual licence and the ledger of what was bought for
it. `bought` is history: what moved the period's end, in order, from which
`AsIfNeverBought` computes the end a customer who never bought the refunded
renewals would have. An admin's edit is decided on an earlier read (`editor`).
`Days` gives each renewal the days it adds, as the plan had them when it was
bought; `PlanDays` are those of a change of plan, `Ends` the ends an admin sets.
`ReplayRenewals` and `Walk` are recursive functions over the rows, as the code's
loops are: the prediction before a row walks the rows before it again.

### Releases and Feeds

`Releases` is one release: its artifact rows by platform, the objects at upload
keys and served keys, the product's signing key. A presigned URL works for its
whole lifetime, so an upload may land at any time. `FinalizeStarts` to the write
of the file, `Publish` with its signing, `Sign`, deletion, rotation and the
product's edits are each several steps, and two requests run at once. A number
stands for the bytes, their digest and what a signature covers; a request that
stops takes no further step. Init includes a release from before files had
served copies. The Tauri signatures' backfill is not modelled, and a commit whose
answer is lost is taken for a failure.

`Feeds` is the gate on a product's feeds. What a public feed handed out works for
a while whatever becomes of the feed, so a period may be set only once the feed
has been gated for that long. Times are ticks left and ticks since.
`PeriodsAreEnforced` leaves out a feed request that read the product before the
gate and signed after it (`late`), and feeds given back by a request that judged
the product by a type or gate since changed (`misjudged`): the code accepts both,
bounded by the life of a link.

### Usage and Metering

`Usage` is a quota: the limit read first, the count and the check in one
transaction, the warning from what it returned, the counter's width.
`Metering` is the log of billed calls and the pass that drains it to Stripe, with
the advisory lock whose connection may drop, the batches, the attempts, and
Stripe's memory of an identifier (`StripeForgets`). A batch is a set of rows,
tried lowest first, which is the order they were queued in. `late` is history: an event
Stripe had forgotten before Keygate recorded it; it is billed again, and left out
of `BilledOnce`.

### Codes, Tokens, Owners, Signup

`Codes`: the codes of one address, a burst of guesses, every database call a
step. `Tokens`: the tabs of one browser share a refresh token and renew it;
requests take up to `Delay`, answers are lost `MaxLosses` times and retried. The
grace (`RefreshReuseGrace`) covers `MaxLosses` losses if it is longer than three
delays for each and two more, `TokensAssumption`, and the instance has it just
so: the code's thirty seconds ride out one loss when nothing takes six seconds.
Only `AuthProvider`, which asks who is signed in, tries again by itself (`Retry`,
two seconds later, then four); a call of another page that got no answer is left
at that (`Close`), and the property is about browsers without one. `Owners`: setup, `ADMIN_EMAILS` at startup and sign-in, owners
who change one another's roles. `Signup`: claims of a free licence under the
product's lock.

### Proofs

| Module | About |
|---|---|
| `FulfilmentProofs`, `MailProofs`, `TermsProofs` | the module they are named after |
| `PurchasesProofs` | Upgrades and Renewals, in `Purchases` |
| `SubscriptionProofs` | Subscription, and that it implements Standing |
| `ReleasesProofs` | Releases and Feeds, in `Delivery` |
| `AccountsProofs` | the seven parts of `Accounts` |
| `BackgroundProofs` | Team, Metering and Webhooks, in `Background` |

A part's lemmas are about its own actions; the theorem about a composition adds
that the steps of the other parts leave its variables alone.

## Runs

| Run | Instance | What it shows |
|---|---|---|
| `team` | one member and the owner, two devices, two requests in flight, a plan sold per seat for one or two seats, up to four keys and joins; two members, two times of joining, one request, three plans (per seat, two people, no limit), one or two seats, up to three keys and joins | no device survives on a dead key; none is taken past the limit in force, on a stopped licence or by a paused member; nothing is left on a seat off the team; the places are given out exactly, whatever the clocks said; accepting pauses nobody; the team fits an open checkout until it is paid or closed |
| `subscription` | two workers, two changes at Stripe, two periods, one fault | the licence follows Stripe; each turn is told once; the abstract licence is implemented |
| `terms` | two workers, one or two seats, two requests, an edit in the dashboard, a fault | no seat that is not paid for; the terms settle on what Stripe bills |
| `terms_crossed` | three workers, no edit, no fault | a finding, below |
| `purchases` | two checkouts, one a subscription, two plans, two workers; three renewals | a refunded or ended upgrade is off and billed no more; no two are owed; the update period is as if refunded renewals had never been bought, also those refunded first |
| `delivery` | two platforms, two workers, two uploads, copies, rows and keys; two admins, links of two ticks | what is published is there with its digest, signed by one key where that is required, and never changes; no copy is orphaned; periods are enforced |
| `fulfilment` | one request at a time, one sync loop, two faults | one worker per event and session; an acknowledged event was handled unless its claim was torn; a paid session gets its licence, but for the findings; the backlog drains |
| `fulfilment_torn` | two requests, one sync loop, one fault | a finding, below |
| `background` | two calls, two passes, two faults; three senders, two retries, two faults; one member, one device, an older replica | usage is billed once and in the end; one sender at a time, a second post only after a sender was cut off, every delivery settles; no old key comes back to life and leftovers are swept |
| `mail` | two passes, two processors, three claims, two attempts, two faults | one live mail per reminder, out once, its text kept while it is pending; sent means sent; it goes out in the end, or its window closes with none left to send |
| `accounts` | two machines, two requests, limits one and two; two requests with two bodies; three calls against quotas of two and four; two sends and three guesses; two tabs and a loss; three users, two of them listed; three claims | the cap and live keys; one claimant, once per lifetime, its own answer replayed; the quota; a code compared and used as often as it may be; no false alarm; an owner for good; one licence to an address, within the cap |
| `floating_waits` | two machines, two requests, limits one and two | a finding, below |

Two requests are enough for a stale read to race a second change of the same
row; `MaxSerial` lets a member join, get a key and have it rotated, or leave and come
back; two devices and limits one and two make a limit that is full, exceeded and
free. Devices, machines, requests and workers are symmetric where the cfg says
so: no action tells them apart.

Two faults are a crash and a second one during the recovery from it. Three
senders are one that stalls, one that takes over and one more that takes over
from that. In `fulfilment` the request and the sync already contend for the
session; the two events reach the webhook one after the other and overlap
through the rows they leave. In `terms` two workers are a change and a read
beside it, and the sweep when one of them is gone; crossing reads need a third.
In `subscription` two changes make a newer and an older read, and two stamps a
job that began before and one after. In `purchases` three renewals make one that
is refunded between two others, one of them of another length, and the ends 1 and
4 an admin sets are in the past and beyond what one renewal reaches. In `delivery` two uploads make a file that is
replaced, and two keys a rotation.

`CHECK_DEADLOCK FALSE` (all but `mail` and `background`): an instance may really
stop. A revoked licence with nothing left to clear, a session whose licence is
written and whose events are acknowledged, an instance that has used up its
serial numbers, its clock or its requests has nothing more to do. A mail queue
and a delivery never stop, since time goes on; in `background` the other two
parts may rest.

Fairness:

- `background`: weak fairness of `ClearSeatLeftovers`, for the sweep runs at
  startup and every hour while any replica of this version runs
  (`StartExpiryLoop`); for webhooks and metering, time passes, the loops of the
  replicas come round, and a sender or pass once begun goes on. Faults are finite
  in number.
- `mail`: the same, and `ReminderGoesOut` asks besides that the settings are good
  from some time on. A reminder given back is claimed again only in its window,
  which need not last: the property then asks only that no mail stays queued.
- `fulfilment`: Stripe delivers an event again until it is acknowledged (strong
  fairness: a request slot of the instance is free again and again), the sync
  comes round every five minutes (`main.go`), work once begun goes on, and an
  abandoned marker gets old. `PaidGetsLicence` asks besides that the merchant
  repairs the plan for good.
- `terms`: Stripe decides on what it was asked and delivers its events again
  until they are answered, a worker goes on, and the sweep of lapsed holds comes
  round.

Every property of a passing run has a mutant in `PROJECT.json`: a plausible
mistake in one mapped definition (a check not repeated under the lock, the
caller's limit instead of the one in force, devices not deleted on removal) that
makes TLC find the property violated.

### Findings

- `terms_crossed`: a downgrade's hold also ends with the first read that shows
  the lowered terms, before the downgrade's request has marked older reads out of
  date. Two reads may cross: the one stamped first asks Stripe last, shows the
  downgrade and ends the hold; the other asked before it, is the newer by its
  stamp, and puts the old seats back, one of which is then taken. `SeatsArePaid`
  leaves that out. The next event or read puts the licence right
  (`TermsSettle`).
- `fulfilment_torn`: `reserve` takes an event for done when its INSERT conflicts
  and its read of the in-flight marker finds none. Between the two another
  delivery may have failed and given both rows back, or be taking a stale marker
  over, and the event is acknowledged though nobody handled it. A sale is picked
  up by the sync all the same; a refund would be lost. `AckedIsHandledUntorn` says
  what holds without that.
- `floating_waits`: `checkOutFloating` compares leases with `now()`, which
  PostgreSQL fixes at the start of the transaction, before the licence lock is
  held (`store/floating.go:127`). A checkout that began before its machine's lease
  lapsed, and waited for the lock past it, renews the lease without counting
  though another machine has taken the slot; a lapsed lease is said to have to
  compete for a slot like any other. A checkout that takes a new slot counts
  leases that have lapsed meanwhile as running, which is on the safe side.

### Observations

What the models do as the code does, and no run states as a property:

- Fulfilment: a stale claim of a session is taken over by deleting its marker
  (`store.ReleaseStaleProcessedEvent`, `payment/stripe.go:466`) and inserting a
  new one (`payment/stripe.go:471`). A process that stops between the two, or
  fails at the second, leaves the reservation alone, which reads as fulfilled for
  good: the buyer has paid and gets no licence (`Stranded`). The comment on
  `staleClaimAge` (`payment/stripe.go:1434`) says that a crashed process does not
  strand a paid session. It takes two losses, the one whose claim went stale and
  the one that took it over. `PaidGetsLicence` is about sessions not stranded so.
- Team: `RollbackSeatAccept` names the seat, not the accept
  (`store/seats.go:494`). A rollback delayed past a removal, a new invite and a
  new accept takes the new member off the team.
- Idempotency: a claim is an INSERT and a SELECT (`store/idempotency.go:83`). A
  slot abandoned between the two is taken for a fresh claim with no row behind
  it, and the next request runs the handler too; `OneClaimantRuns` is about
  requests with a row. A slot whose server stopped answers 409 until the key's 24
  hours are over.
- Webhooks: `ProcessRetries` gives a delivery up on any error of the read of its
  webhook (`LookUpFails`).
- Renewals: with an end an admin edited, a refund keeps the edit as an offset on
  the replay without the renewal (`store/store.go:3616`), where the comment over it
  (`store/store.go:3564`) says that the renewal's days are subtracted; the two
  differ for a renewal that revived a lapsed period. `EndAsIfNeverBought` is what
  the code does. The fallback that does subtract is never taken
  (`RefundsNeverGuess`).
- Renewals: reverting an upgrade puts `updates_until` back to what it was before
  (`store/upgrades.go:209`) and leaves the renewals bought meanwhile in the
  ledger, where other resets supersede them (`store/store.go:3639`).
- Releases: publishing signs one artifact after the other and keeps the
  signatures of those before a failure (`service/release.go:679`).
- Feeds: a product that gets its feeds back waits out old links only as the
  request judged it before the lock (`handler/admin.go:867`).
- Metering: after a stop longer than Stripe's 24-hour memory, an event Stripe
  took and Keygate did not record is billed again (`service/metered_sync.go:22`).
- Codes: the limit of codes sent in ten minutes is a count and then an insert, so
  requests at once may pass it together. Tokens: deleting a user's tokens may
  miss one that is being inserted.

## Theorems

Checked by TLAPS, each for every value of the constants that satisfies the
module's assumption, and from nothing else unless said here. Few of the
properties are inductive as they stand; what is added says what a request under
way may rely on: what it read, what it holds, who owns what. Where the data would
want an induction (a latest code, a lowest row, a power of two, a fold over a
ledger), the proof uses a least element of a well-founded order, or counts a set.

Team, from `TeamAssumption` (members are positive numbers and finite, plans have
their type):

- `TypeCorrect`: `TypeOK`, inductive as it stands.
- `DevicesOnLiveKeysHolds`, `NoLeftoversHolds`: from `KeyInv`. The invariant
  itself is not inductive: a member's first key would strand a device activated
  with no key at all, and an accepted invite one its seat held before. `KeyInv`
  adds that requests and devices carry real keys (`RealKeys`) and that a seat off
  the team has none (`OffTeamKeyless`).
- `KeyFromThisJoinHolds`: from `JoinInv`, which adds that no join is numbered
  ahead of the counter.
- `NewDeviceOnWorkingKeyHolds`: the action property, from `KeyInv`: only
  `CommitActivate` takes a device or hands it over, and only under `KeyHeld`.
- `UpgradeHoldsTeamHolds`: inductive together with the types; an invite adds at
  most one person (`PeopleMonotone`), and only under `MayJoin`.
- `PlacesFilledHolds`: whatever the stamps, of two members who joined one is
  ahead of the other, so their ranks differ and leave no gap, and as many are not
  paused as there are places, or all.
- `NoSlotPastLimitHolds`, `JoinPausesNobodyHolds`: action properties. Each count
  changes by at most one in a step, and one that grows was compared with the
  limit under the lock; with a place free for the one who joins, those ahead of
  any member are fewer than the places.

Fulfilment, from `FulfilmentAssumption`:

- `FulfilmentTypeCorrect` and `OneWorksHolds`: from `ClaimInv`. `OneWorks` is not
  inductive: a claim could be won while its holder still works. `ClaimsHeld` adds
  that who works holds both rows, and `TakeoversHeld` that a marker is never
  without its reservation and that who has taken a stale one away is alone;
  `AllApt` that the webhook claims and finishes the event it is for. A worker's
  step either begins no work (`QuietStep`) or changes the rows of something
  nobody else works on (`RowStep`).
- `AckedIsHandledUntornHolds`: with `DoneIsHandled`, that an event which looks
  done (reserved, no marker) was handled or is being taken over. So a reader or a
  loss half-way is the only way an event is acknowledged unhandled.

Subscription, from `SubscriptionAssumption`:

- `SubscriptionInvHolds`. There is a stamp `c`, of no variable, since which the
  subscription at Stripe has not changed: every read taken under a later stamp
  shows it as it is (`Knows`), so the newest write is right (`Row`), or an event
  or a worker that will write after it is still on its way (`StatusComes`,
  `EndingComes`). `Said` relates what was told last to the row.
- `FollowsStripeHolds` and `TellsOnceHolds` follow.
- `KeepsStandingHolds`: Subscription implements Standing. The initial state maps
  to the initial state and each action to a step of Standing or none, by the case
  on what the write makes of the status; only the operator's actions map to
  `Restore`.

Mail, from `MailAssumption` (a send ends before its lease does):

- `MailInvHolds`, `MailedOnceHolds`, `SentMeansAcceptedHolds`. A processor that
  sends holds the mail, and the lease it took is as old as the send (`Holds`); a
  claim's number is given once and its mail is queued by the pass that won it
  (`Claims`); a mail that went out and is still pending is being marked
  (`Settling`), unless a sender was lost.

Terms, from `TermsAssumption`:

- `SeatsArePaidHolds`: from `TermsInv`. A handler that is past its judgement has
  the change lock until it knows what became of its change (`Shape`). While
  nothing was out of turn, a read that may still be applied shows no more than is
  billed, unless a downgrade was made since it was taken: then the terms are held,
  and the read is kept from them (`ReadHolds`); and the read that ends the hold,
  as it shows the downgrade, is stamped after every read from before it, or the
  two crossed (`EndsForAll`). `Lowering` says what a downgrade may count on at
  each step: the hold and the higher bill until it is made, the lower bill from
  then on. A hold of as many seats as are billed has nothing pending that could
  raise it (`MadeForGood`), and what a dead sender's request still asks is less
  than is billed (`Owed`).

Upgrades, from `SubsAssumption`:

- `UpgradesInvHolds`, `RefundEndsUpgradeHolds`, `OneOwedHolds`. A handler past
  its call to Stripe knows what it made true there (`Knows`), the row and Stripe
  agree on which checkouts may still be paid (`Rows`), the licence is billed by
  the upgrade that applies (`Links`), and at most one checkout applies or may
  (`Sole`), but for those that could not be recorded.

Renewals, `RefundNotLostHolds` from nothing and the others from
`PurchasesAssumption` (ends and days are numbers, a renewal adds a day at least,
and updates for life are no number):

- `RefundNotLostHolds`: a refund that was handled marks the renewal's row, or is
  remembered until there is one. It is inductive only with one row to a checkout
  (`Listed`): of two, the refund would mark one and the other would still count.
- `PeriodInvHolds`, `EndAsIfNeverBoughtHolds`, `RefundsNeverGuess`. The replay of
  the ledger and the history of the period are two folds, and the replay finds out
  on its way, by folds of its own, what an admin did before each row. That the end
  is as it should be now says nothing of the next refund, so the invariant speaks of
  every set of renewals that might be taken back: for all of them at once, what the
  rows come to without them (`Replay`) and what the history comes to without them
  (`Bought`) are one constant apart, the edit since the last row (`Shifted`), or
  nothing in the period has moved the end yet (`Flat`). A renewal or an edit adds an
  element to a fold (`ReplayOneMore`, `BoughtOneMore`); a refund only makes one more
  renewal taken back. What the replay finds before a row never changes again
  (`Fixed`): it reads the rows before it as they counted then, and a refund is
  stamped later than every row (`Stamps`, `FixedRefund`), which is why
  `ReplayRenewals` compares instants and does not ask who was refunded. The rows of
  the period are those after the closed ones (`ClosedTo`, `CurrentIs`). A fold is
  reasoned about as the function its recursion has: one exists (`LeadsSomewhere`),
  and two that go on alike agree (`GoOnAlike`), or there would be a least place
  where they do not, the one use of a well-founded order.

Releases and Feeds, from `ReleasesAssumption` and `DeliveryAssumption` (a link
lives for a tick at least):

- `ReleasesInvHolds`, `ShippedVerifiesHolds`, `ServedIsFrozenHolds`. Each served
  copy has one number and one owner, a row or the request that made it
  (`Copied`, `Owned`), and is covered by it (`Covered`); so what a row points at
  has the digest in the row (`RowsOK`), and nothing else can be put there. A
  release that is out keeps all its rows (`Complete`).
- `PeriodsAreEnforcedHolds`: from `FeedsInv`. While a product is gated, what is
  left of any link and the time since the gate went up make at most a link's
  life (`Draining`); a gate that goes up again starts anew. `WrittenProduct` is the
  case analysis of an update decided on an older read.

Accounts, from the assumption of each part:

- `OneClaimantRunsHolds`, `RunsOncePerLifetimeHolds`: the row of a key in flight
  names the one request that runs the handler.
- `SessionsOnWorkingKeysHolds`; and `SessionsWithinCapHolds`, however long a
  checkout waits: it counts as of a time gone by (`CountsFromBegin`), and a lease
  that runs now ran then.
- `QuotaHoldsHolds`: a counter stays under the highest quota that was read, and
  the call that crossed the threshold has warned or owes the warning.
- `CodesAreSpentHolds`: an attempt is taken before its comparison.
- `RidesOutLossesHolds`: a browser that holds a rotated token has a renewal under
  way whose remaining delays and losses fit in what is left of the grace.
- `OwnedForGoodHolds`, `ClaimsAreLimitedHolds`.

Background, from `BackgroundAssumption`:

- `BilledOnceHolds`: from `MeteringInv`. A pass about to record a row has had
  Stripe count it (`InHand`), and Stripe counts nothing that was not queued
  (`Uncounted`). That holds also of two passes that both believe they have the
  lock: the lock is no part of the argument, the identifier is.
- `ResentOnlyIfCutOffHolds`: from `WebhooksInv`. A sender that is sending holds
  the row, and what is left of the row's lease is the lease less the age of the
  request (`SendsHeld`), which is where `SendTime < Lease` is needed; once the
  receiver has accepted, the one who knows it holds the row (`Knows`), or was cut
  off.

Model-checked only:

- Liveness (`LeftoversCleared`, `Settles`, `UsageSettles`, `ReminderGoesOut`,
  `PaidGetsLicence`, `BacklogDrains`, `TermsSettle`) is out of the prover's
  reach.

## Plan

Every module of the plan is written, and every invariant the runs check has a
proof. What is left is to look for more of
the code that a model would say something new about: the forms of the product
and its plans beside the requests that read them, and the backfill of stored
keys.

## Not modelled

- Lockout and rate limits: counters under one mutex, or one Redis script, that no
  other part reads.
- Migrations: SQL run once under an advisory lock.
- The admin forms, add-ons and API keys: validation and single-row writes. The
  product's type, plans deleted and dates edited are actions of the modules that
  depend on them.
- Analytics, exports and listings: read-only queries.
- Configuration, cryptography, object storage and HTTP: pure I/O.
- The web interface: it holds no state the server does not decide. The renewal of
  tokens by several tabs is in Tokens.
