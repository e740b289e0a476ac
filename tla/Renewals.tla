------------------------------ MODULE Renewals ------------------------------
(***************************************************************************)
(* The update period of a perpetual licence and the ledger of the renewals *)
(* bought for it (store/store.go, model/model.go, payment/stripe.go,       *)
(* handler/admin.go).  A renewal, its refund and an admin's edit each move *)
(* the period's end in one transaction under the licence's row lock; a     *)
(* refund replays the ledger without the renewal it takes back.  Webhooks, *)
(* the success page and the sync may all fulfil one session, a refund may  *)
(* be handled first, and an admin's edit is decided on an earlier read.    *)
(***************************************************************************)
EXTENDS Integers, Sequences

CONSTANTS
  Intents,      \* renewal checkouts, by payment intent
  Workers,      \* callers of fulfillRenewal
  Life,         \* an end that is not there: updates for life
  Days,         \* renewal -> the days it adds
  PlanDays,     \* the days of updates a perpetual plan comes with
  Ends,         \* bound: the ends an admin sets, by the day
  MaxTime,      \* bound: the database clock
  MaxEdits      \* bound: admin actions

RenewalsAssumption ==
  /\ Life \notin Int /\ Ends \subseteq Int
  /\ Days \in [Intents -> Nat \ {0}] /\ PlanDays \in Nat \ {0}
  /\ MaxTime \in Nat /\ MaxEdits \in Nat

VARIABLES
  now,          \* the database clock; every ledger row is stamped after the one before
  lic,          \* the licence: end of its update period, perpetual plan, active
  ledger,       \* license_renewals, oldest first
  early,        \* renewals refunded before they were applied (processed_events)
  stripe,       \* intent -> its checkout in Stripe
  handled,      \* intents whose refund was handled
  workers,      \* worker -> the session it is about to apply, or None
  editor,       \* the end an admin's edit under way was decided on
  edits,        \* admin actions so far
  bought        \* history: what moved the end since the period began

vars == <<now, lic, ledger, early, stripe, handled, workers, editor, edits, bought>>

None == "none"
Never == 0                       \* a row not refunded
Forever == MaxTime + 1           \* later than every stamp
IsEnd(e) == e = Life \/ e \in Int

\* applied: updates_until is set (a row refunded before it applied moved nothing).
IsRow(r) ==
  /\ r.intent \in Intents /\ IsEnd(r.prev) /\ r.at \in 1..MaxTime /\ r.refunded \in 0..MaxTime
  /\ {r.applied, r.superseded} \subseteq BOOLEAN

TypeOK ==
  /\ now \in 1 .. MaxTime + 1
  /\ IsEnd(lic.until) /\ {lic.perpetual, lic.active} \subseteq BOOLEAN
  /\ \A k \in DOMAIN ledger : IsRow(ledger[k])
  /\ early \subseteq Intents /\ handled \subseteq Intents
  /\ stripe \in [Intents -> {"none", "open", "paid", "refunded"}]
  /\ workers \in [Workers -> Intents \cup {None}]
  /\ Len(editor) <= 1 /\ \A k \in DOMAIN editor : IsEnd(editor[k])
  /\ edits \in 0..MaxEdits

Init ==
  /\ now = 1
  /\ lic = [until |-> 2, perpetual |-> TRUE, active |-> TRUE]
  /\ ledger = <<>> /\ early = {} /\ handled = {}
  /\ stripe = [i \in Intents |-> "none"]
  /\ workers = [w \in Workers |-> None]
  /\ editor = <<>> /\ edits = 0
  /\ bought = <<[kind |-> "start", end |-> 2]>>

-----------------------------------------------------------------------------
(* model/model.go: the arithmetic of the period.                           *)

RenewedUpdatesUntil(end, at, days) == (IF end # Life /\ end > at THEN end ELSE at) + days

\* MUTANT: only the rows that still count are replayed for a row's previous end.
InEffect_NotRefunded(row, at) == row.refunded = Never

\* The row still contributed at that instant.
InEffect(row, at) == row.refunded = Never \/ row.refunded >= at

\* What happened outside the ledger before a row: a restart from its recorded
\* end, or a shift; then the row itself, if it counts.
Outside(row, change, end) ==
  IF change.restart THEN row.prev ELSE IF end # Life THEN end + change.shift ELSE end
Walked(row, change, end, counts) ==
  IF row.applied /\ counts THEN RenewedUpdatesUntil(Outside(row, change, end), row.at, Days[row.intent])
  ELSE Outside(row, change, end)

\* The walk over the rows whose changes from outside are known.
Walk(rows, before, at) ==
  LET end[k \in 0 .. Len(before)] ==
        IF k = 0 THEN Life ELSE Walked(rows[k], before[k], end[k - 1], InEffect(rows[k], at))
  IN end[Len(before)]

\* What must have happened outside the ledger before a row, from the end it
\* recorded and the end the rows before it predict.
OutsideBefore(prev, predicted, first) ==
  [restart |-> first \/ (prev # predicted /\ Life \in {prev, predicted}),
   shift |-> IF first \/ Life \in {prev, predicted} THEN 0 ELSE prev - predicted]

ReplayRenewals(rows) ==
  LET before[k \in 0 .. Len(rows)] ==
        IF k = 0 THEN <<>>
        ELSE Append(before[k - 1],
                    OutsideBefore(rows[k].prev, Walk(rows, before[k - 1], rows[k].at), k = 1))
  IN Walk(rows, before[Len(rows)], Forever)

-----------------------------------------------------------------------------
(* The transactions.                                                       *)

HasRow(i) == \E k \in DOMAIN ledger : ledger[k].intent = i
Stamped == now <= MaxTime /\ now' = now + 1
Record(entry) == bought' = Append(bought, entry)

\* The period is set outside the ledger: a new one begins with this end.
Restarted(end) == bought' = <<[kind |-> "start", end |-> end]>>

Row(i, applied, refunded) ==
  [intent |-> i, prev |-> lic.until, at |-> now, applied |-> applied, refunded |-> refunded, superseded |-> FALSE]

Eligible == lic.until # Life /\ lic.perpetual /\ lic.active

RefundedFirst(i) == i \in early

\* fulfillRenewal up to the claim: no row for the session yet.
ClaimSession(w, i) ==
  /\ workers[w] = None
  /\ stripe[i] \in {"paid", "refunded"} /\ ~HasRow(i)
  /\ workers' = [workers EXCEPT ![w] = i]
  /\ UNCHANGED <<now, lic, ledger, early, stripe, handled, editor, edits, bought>>

\* The renewal's row and the licence's new end, in one write.
ApplyLicenseRenewal(i) ==
  /\ Eligible
  /\ Stamped
  /\ ledger' = Append(ledger, Row(i, TRUE, Never))
  /\ lic' = [lic EXCEPT !.until = RenewedUpdatesUntil(@, now, Days[i])]
  /\ Record([kind |-> "buy", intent |-> i, at |-> now])
  /\ UNCHANGED early

RecordRefundedRenewal(i) ==
  /\ Stamped
  /\ ledger' = Append(ledger, Row(i, FALSE, now))
  /\ early' = early \ {i}
  /\ UNCHANGED <<lic, bought>>

\* Its transaction: the session's unique index refuses a second row, a
\* refund that came first leaves a refunded row, an ineligible licence nothing.
FulfillRenewal(w) ==
  LET i == workers[w] IN
  /\ i # None
  /\ \/ (HasRow(i) \/ (~RefundedFirst(i) /\ ~Eligible)) /\ UNCHANGED <<now, lic, ledger, early, bought>>
     \/ ~HasRow(i) /\ RefundedFirst(i) /\ RecordRefundedRenewal(i)
     \/ ~HasRow(i) /\ ~RefundedFirst(i) /\ ApplyLicenseRenewal(i)
  /\ workers' = [workers EXCEPT ![w] = None]
  /\ UNCHANGED <<stripe, handled, editor, edits>>

\* A failure, or a crash, before the transaction.
Fail(w) ==
  /\ workers[w] # None
  /\ workers' = [workers EXCEPT ![w] = None]
  /\ UNCHANGED <<now, lic, ledger, early, stripe, handled, editor, edits, bought>>

\* The rows of the current period, oldest first.
Current ==
  LET rows[k \in 0 .. Len(ledger)] ==
        IF k = 0 THEN <<>>
        ELSE IF ledger[k].superseded THEN rows[k - 1] ELSE Append(rows[k - 1], ledger[k])
  IN rows[Len(ledger)]

\* RevertLicenseRenewalIn: the replay without this renewal, with what an
\* admin moved the end by since kept as an offset.
WithoutIntent(rows, i) == [k \in DOMAIN rows |-> IF rows[k].intent = i THEN [rows[k] EXCEPT !.refunded = now] ELSE rows[k]]
Reverted(i) ==
  LET predicted == ReplayRenewals(Current)
      without == ReplayRenewals(WithoutIntent(Current, i))
  IN IF Life \notin {predicted, without} THEN without + (lic.until - predicted) ELSE lic.until - Days[i]

\* takeBackCharge, the renewal part, under the intent's lock.  A second
\* refund of the same charge changes nothing.
TakeBackCharge(i) ==
  /\ stripe[i] = "refunded"
  /\ \/ /\ ~HasRow(i) /\ early' = early \cup {i}
        /\ UNCHANGED <<now, lic, ledger>>
     \/ /\ \E k \in DOMAIN ledger : ledger[k].intent = i /\ ledger[k].refunded # Never
        /\ UNCHANGED <<now, lic, ledger, early>>
     \/ \E k \in DOMAIN ledger :
          /\ ledger[k].intent = i /\ ledger[k].refunded = Never
          /\ Stamped
          /\ lic' = IF lic.until # Life /\ ledger[k].applied /\ ~ledger[k].superseded
                    THEN [lic EXCEPT !.until = Reverted(i)] ELSE lic
          /\ ledger' = [ledger EXCEPT ![k].refunded = now]
          /\ UNCHANGED early
  /\ handled' = handled \cup {i}
  /\ UNCHANGED <<stripe, workers, editor, edits, bought>>

-----------------------------------------------------------------------------
(* Admins.                                                                 *)

SeeUpdatesUntil ==
  /\ editor = <<>> /\ edits < MaxEdits /\ lic.perpetual
  /\ editor' = <<lic.until>>
  /\ edits' = edits + 1
  /\ UNCHANGED <<now, lic, ledger, early, stripe, handled, workers, bought>>

SameEnd(a, b) == a = b

Superseded(rows) == [k \in DOMAIN rows |-> [rows[k] EXCEPT !.superseded = TRUE]]

ClosesLedger(next) == next = Life

\* SetLicenseUpdatesUntilIn: applied only on the end the admin saw; updates
\* for life close the ledger, a finite end keeps it.
SetLicenseUpdatesUntil(next) ==
  LET expected == editor[1] IN
  /\ editor # <<>>
  /\ \/ /\ lic.perpetual /\ SameEnd(lic.until, expected)
        /\ lic' = [lic EXCEPT !.until = next]
        /\ ledger' = IF ClosesLedger(next) THEN Superseded(ledger) ELSE ledger
        /\ IF Life \in {expected, next} THEN Restarted(next)
           ELSE Record([kind |-> "edit", shift |-> next - expected])
     \/ ~(lic.perpetual /\ SameEnd(lic.until, expected)) /\ UNCHANGED <<lic, ledger, bought>>
  /\ editor' = <<>>
  /\ UNCHANGED <<now, early, stripe, handled, workers, edits>>

\* A change of plan out of, or into, a perpetual one starts a new period and
\* closes the ledger (UpdateLicenseAndSupersedeRenewalsIn).
ChangePlan(end) ==
  /\ edits < MaxEdits
  /\ lic' = [lic EXCEPT !.perpetual = ~@, !.until = IF lic.perpetual THEN Life ELSE end]
  /\ ledger' = Superseded(ledger)
  /\ Restarted(lic'.until)
  /\ edits' = edits + 1
  /\ UNCHANGED <<now, early, stripe, handled, workers, editor>>

SetActive ==
  /\ edits < MaxEdits
  /\ lic' = [lic EXCEPT !.active = ~@]
  /\ edits' = edits + 1
  /\ UNCHANGED <<now, ledger, early, stripe, handled, workers, editor, bought>>

-----------------------------------------------------------------------------
(* The portal, and Stripe and its customer (external).                     *)

RenewUpdates(i) ==
  /\ stripe[i] = "none" /\ Eligible
  /\ stripe' = [stripe EXCEPT ![i] = "open"]
  /\ UNCHANGED <<now, lic, ledger, early, handled, workers, editor, edits, bought>>

Pay(i) ==
  /\ stripe[i] = "open"
  /\ stripe' = [stripe EXCEPT ![i] = "paid"]
  /\ UNCHANGED <<now, lic, ledger, early, handled, workers, editor, edits, bought>>

Refund(i) ==
  /\ stripe[i] = "paid"
  /\ stripe' = [stripe EXCEPT ![i] = "refunded"]
  /\ UNCHANGED <<now, lic, ledger, early, handled, workers, editor, edits, bought>>

Tick ==
  /\ now < MaxTime
  /\ now' = now + 1
  /\ UNCHANGED <<lic, ledger, early, stripe, handled, workers, editor, edits, bought>>

Next ==
  \/ \E i \in Intents : \/ RenewUpdates(i) \/ Pay(i) \/ Refund(i) \/ TakeBackCharge(i)
                        \/ \E w \in Workers : ClaimSession(w, i)
  \/ \E w \in Workers : FulfillRenewal(w) \/ Fail(w)
  \/ SeeUpdatesUntil \/ SetActive \/ Tick
  \/ \E e \in Ends \cup {Life} : SetLicenseUpdatesUntil(e)
  \/ \E e \in {Life, now + PlanDays} : ChangePlan(e)

Spec == Init /\ [][Next]_vars

-----------------------------------------------------------------------------
\* The end of a period in which only these were bought, each at its time,
\* and edited as the admin edited it.
TakenBack(i) == \E k \in DOMAIN ledger : ledger[k].intent = i /\ ledger[k].refunded # Never
Moved(entry, end, takenBack) ==
  CASE entry.kind = "start" -> entry.end
    [] entry.kind = "edit" -> IF end = Life THEN end ELSE end + entry.shift
    [] entry.kind = "buy" -> IF takenBack THEN end ELSE RenewedUpdatesUntil(end, entry.at, Days[entry.intent])
AsIfNeverBought ==
  LET end[k \in 0 .. Len(bought)] ==
        IF k = 0 THEN Life
        ELSE Moved(bought[k], end[k - 1], bought[k].kind = "buy" /\ TakenBack(bought[k].intent))
  IN end[Len(bought)]

\* Renewals applied, refunded and edited around in any order leave the end
\* where a customer who never bought the refunded ones would have it, with
\* every admin edit kept (ReplayRenewals, RevertLicenseRenewalIn).
EndAsIfNeverBought == lic.until = AsIfNeverBought

\* A refund handled before the renewal was applied is not lost: the renewal
\* never grants anything afterwards (takeBackCharge, fulfillRenewal).
RefundNotLost ==
  \A i \in handled :
    IF HasRow(i) THEN \A k \in DOMAIN ledger : ledger[k].intent = i => ledger[k].refunded # Never
    ELSE i \in early
=============================================================================
