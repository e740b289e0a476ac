---------------------------- MODULE Subscription ----------------------------
(***************************************************************************)
(* The status of one licence that a Stripe subscription bills              *)
(* (internal/payment/stripe.go, internal/store/store.go,                   *)
(* internal/store/admin.go, internal/service/expiry.go).                   *)
(*                                                                         *)
(* Stripe changes the subscription and sends an event for each change, in  *)
(* no particular order.  A handler finds the licence, takes a stamp of the *)
(* database clock, reads the subscription as Stripe has it now, and writes *)
(* it; each of those is a step, and handlers, the portal's cancel, an      *)
(* operator's actions and the hourly sweeps run beside each other.  A      *)
(* write applies only while the licence is still linked, no newer read was *)
(* written, and the licence's own state allows it, all checked in the      *)
(* UPDATE itself.  Without an API key the event's payload stands in for    *)
(* the read.  What the subscription bills (plan and seats) is Terms.tla,   *)
(* an upgrade's end is Upgrades.tla.                                       *)
(***************************************************************************)
EXTENDS Integers

CONSTANTS
  Workers,      \* handlers, portal and admin requests in flight at once
  MaxChanges,   \* bound: changes of the subscription at Stripe
  MaxPeriods,   \* bound: billing periods
  MaxStamps,    \* bound: the database clock up to which jobs begin
  MaxFaults     \* bound: statements and calls that fail

ASSUME SubscriptionAssumption ==
  /\ MaxChanges \in Nat
  /\ MaxPeriods \in Nat \ {0}
  /\ {MaxStamps, MaxFaults} \subseteq Nat

VARIABLES
  readable,     \* the API key sees the subscription; else payloads stand in
  stripe,       \* the subscription at Stripe
  changes,      \* how often it changed
  events,       \* events not answered 2xx yet
  now,          \* the billing period now running
  clock,        \* the database clock, as stamps
  lic,          \* the licence row
  workers,      \* what each worker is doing
  faults,       \* failures so far
  ended,        \* history: the end of the subscription was written
  restores,     \* history: how often an operator gave the licence back
  astray,       \* history: a reinstatement could not read Stripe afterwards
  said,         \* history: what the merchant's webhooks were last told
  repeated      \* history: billing told what had been told last

vars == <<readable, stripe, changes, events, now, clock, lic, workers, faults, ended, restores, astray,
          said, repeated>>

Usable == {"active", "trialing", "past_due"}
Statuses == Usable \cup {"suspended", "canceled", "expired", "revoked"}
StripeStatuses == Usable \cup {"paused", "unpaid", "canceled"}
Periods == 0..MaxPeriods
Stamps == Nat
NoStamp == -1

\* A subscription as read from Stripe, or as an event carries it.
ReadType == [status : StripeStatuses, ending : BOOLEAN, period : Periods]
LicType == [status : Statuses, by : {"", "admin", "stripe"}, linked : BOOLEAN,
            synced : Stamps, pastDue : BOOLEAN, until : Periods,
            ending : BOOLEAN, endingAt : Stamps]
\* The payload counts only where the subscription cannot be read.
EventType == [kind : {"updated", "paid", "failed", "deleted"}, sub : ReadType]
CopyType == [status : Statuses, pastDue : BOOLEAN, until : Periods]
Jobs == {"event", "cancelNow", "cancelEnd", "refund", "takeBack", "reinstate", "unlink"}
WorkerType == [pc : {"idle", "read", "sync", "write", "stamp", "end", "date", "revoke", "first", "lift",
                     "again", "reread", "clear"},
               job : Jobs, event : EventType, copy : CopyType, stamp : Stamps, sub : ReadType]

Fresh == [status |-> "trialing", by |-> "", linked |-> TRUE, synced |-> 0, pastDue |-> FALSE,
          until |-> 1, ending |-> FALSE, endingAt |-> 0]
\* What a worker still uses of the licence it read.
CopyOf(row) == [status |-> row.status, pastDue |-> row.pastDue, until |-> row.until]
NoRead == [status |-> "trialing", ending |-> FALSE, period |-> 1]
Idle == [pc |-> "idle", job |-> "event", event |-> [kind |-> "updated", sub |-> NoRead],
         copy |-> CopyOf(Fresh), stamp |-> 0, sub |-> NoRead]

Init ==
  /\ readable \in BOOLEAN
  /\ stripe = [status |-> "trialing", ending |-> FALSE]
  /\ changes = 0
  /\ events = {}
  /\ now = 1
  /\ clock = 0
  /\ lic = Fresh
  /\ workers = [w \in Workers |-> Idle]
  /\ faults = 0
  /\ ended = FALSE
  /\ restores = 0
  /\ astray = FALSE
  /\ said = ""
  /\ repeated = FALSE

-----------------------------------------------------------------------------
(* Stripe, as the code relies on it. *)

StripeMoves ==
  [trialing |-> {"active", "past_due", "paused", "canceled"},
   active   |-> {"active", "past_due", "canceled"},
   past_due |-> {"active", "unpaid", "canceled"},
   unpaid   |-> {"active", "canceled"},
   paused   |-> {"active", "canceled"},
   canceled |-> {}]

\* Where the subscription is read, an invoice's event is handled as an update.
EventKinds(to) ==
  CASE to = "canceled"             -> {"deleted"}
    [] to = "active" /\ ~readable   -> {"updated", "paid"}
    [] to = "past_due" /\ ~readable -> {"updated", "failed"}
    [] OTHER                       -> {"updated"}

ReadAt(s, p) == [status |-> s.status, ending |-> s.ending, period |-> p]

\* Stripe takes the subscription to s in period p, and sends one of its events.
ChangeTo(s, p) ==
  /\ changes < MaxChanges
  /\ changes' = changes + 1
  /\ stripe' = s
  /\ now' = p
  /\ \E k \in EventKinds(s.status) :
       events' = events \cup {[kind |-> k, sub |-> IF readable THEN NoRead ELSE ReadAt(s, p)]}

\* Stripe charges, gives up, resumes or ends the subscription; a charge
\* may be the next period's.
StripeMove ==
  /\ \E to \in StripeMoves[stripe.status] : \E p \in {now, now + 1} \cap Periods :
       ChangeTo([status |-> to, ending |-> stripe.ending /\ to # "canceled"], p)
  /\ UNCHANGED <<readable, faults, clock, lic, workers, ended, restores, astray, said, repeated>>

\* The customer resumes, or ends at the period's end, in Stripe's own portal.
StripeEnding ==
  /\ stripe.status # "canceled"
  /\ ChangeTo([stripe EXCEPT !.ending = ~stripe.ending], now)
  /\ UNCHANGED <<readable, faults, clock, lic, workers, ended, restores, astray, said, repeated>>

\* A period goes by with nothing left to bill.
PeriodPasses ==
  /\ stripe.status \in {"canceled", "paused"}
  /\ now < MaxPeriods
  /\ now' = now + 1
  /\ UNCHANGED <<readable, faults, stripe, changes, events, clock, lic, workers, ended, restores,
                 astray, said, repeated>>

-----------------------------------------------------------------------------
(* The write (updateLicenseAndSubscriptionIn). *)

Paused(row) == row.status = "suspended" /\ row.by = "stripe"
OperatorHolds(row) == row.by = "admin" /\ row.status \in {"suspended", "canceled"}

\* MUTANT: an operator's hold does not stop the write.
Unrestricted_Held(row, to, stamped) ==
  /\ row.status # "revoked"
  /\ to \in Usable => stamped \/ row.status # "canceled"

\* The row's own state lets billing take it to a status.
Unrestricted(row, to, stamped) ==
  /\ row.status # "revoked"
  /\ to \in Usable =>
       /\ ~OperatorHolds(row)
       /\ stamped \/ row.status # "canceled"
       /\ to = "past_due" => ~(row.status = "expired" /\ row.pastDue)
  /\ to = "suspended" => row.status # "canceled" /\ ~OperatorHolds(row)

\* MUTANT: the last write wins.
NotStale_Last(row, at) == TRUE

\* A newer read of the subscription is not in place (stamp NoStamp: a payload).
NotStale(row, at) == at = NoStamp \/ row.synced <= at

\* The write is made: linked still, not stale, not restricted.
Lands(row, to, at) == row.linked /\ NotStale(row, at) /\ Unrestricted(row, to, at # NoStamp)

StatusFor(s) ==
  CASE s = "paused"               -> "suspended"
    [] s \in {"unpaid", "canceled"} -> "canceled"
    [] OTHER                      -> s

\* endAccessNow: the end of a subscription brings a date still to come, as
\* the handler read it, in to now.
EndAccess(row, copy, p) == IF copy.until < p THEN row.until ELSE p - 1

\* The row with the state applySubscriptionState sets; copy is the licence
\* as the handler read it, whose past_due_at a trial or a pause writes back.
Written(row, copy, s, at, p) ==
  LET to == StatusFor(s.status) IN
  [row EXCEPT
     !.status = to,
     !.by = CASE to = "suspended" -> "stripe"
              [] to = "canceled"  -> IF Paused(row) THEN "" ELSE row.by
              [] OTHER            -> "",
     !.pastDue = CASE to = "past_due"             -> TRUE
                   [] to \in {"active", "canceled"} -> FALSE
                   [] OTHER                       -> copy.pastDue,
     !.until = IF to = "canceled" THEN EndAccess(row, copy, p) ELSE s.period,
     !.synced = IF at = NoStamp THEN row.synced ELSE at]

\* What the write that made a turn tells, from the row it found under its
\* lock; "" when there is nothing to tell.
News(row, to) ==
  CASE to = "suspended" /\ ~Paused(row)                                           -> "suspended"
    [] to \in Usable /\ (Paused(row) \/ row.status \in {"canceled", "expired"})   -> "reinstated"
    [] to = "canceled" /\ row.status # "canceled"                                 -> "canceled"
    [] OTHER                                                                      -> ""

\* MUTANT: the turn is judged from the licence the handler read.
NewsFromCopy(w, to) == News([lic EXCEPT !.status = workers[w].copy.status], to)
NewsFromRow(w, to) == News(lic, to)

Tell(news) ==
  /\ said' = IF news = "" THEN said ELSE news
  /\ repeated' = (repeated \/ (news # "" /\ news = said))

TellAlways(news) == said' = news /\ UNCHANGED repeated

-----------------------------------------------------------------------------
(* A handler: find the licence, stamp, read Stripe, write. *)

Step(w, pc) == workers' = [workers EXCEPT ![w].pc = pc]
Done(w) == workers' = [workers EXCEPT ![w] = Idle]

\* StripeReadStamp: the database clock before the read.
Stamp == clock' = clock + 1
MayBegin == clock < MaxStamps

\* FindLicenseByStripeSubscription, and the stamp of the read to come; an
\* end is not read, and stamped as it is written.  A licence no longer on
\* this subscription leaves nothing to do.
TakeEvent(w) ==
  /\ workers[w].pc = "idle"
  /\ \E e \in events :
       /\ events' = events \ {e}
       /\ IF lic.linked
          THEN /\ MayBegin
               /\ IF e.kind = "deleted" THEN UNCHANGED clock ELSE Stamp
               /\ workers' = [workers EXCEPT ![w] =
                    [pc |-> IF e.kind = "deleted" THEN "stamp" ELSE "read", job |-> "event",
                     event |-> e, copy |-> CopyOf(lic),
                     stamp |-> IF e.kind = "deleted" THEN 0 ELSE clock', sub |-> NoRead]]
          ELSE UNCHANGED <<clock, workers>>
  /\ UNCHANGED <<readable, faults, stripe, changes, now, lic, ended, restores, astray, said,
                 repeated>>

\* currentSubscription: as Stripe has it now, or nothing to read with.
ReadStripe(w) ==
  /\ workers[w].pc = "read"
  /\ workers' = [workers EXCEPT ![w].pc = IF readable THEN "sync" ELSE "write",
                                ![w].sub = IF readable THEN ReadAt(stripe, now)
                                                       ELSE workers[w].event.sub]
  /\ UNCHANGED <<readable, faults, stripe, changes, events, now, clock, lic, ended, restores,
                 astray, said, repeated>>

\* SetSubscriptionCancelScheduled: the newest read wins, not the last write.
NoteEnding(row, ending, at) ==
  IF row.endingAt < at THEN [row EXCEPT !.ending = ending, !.endingAt = at] ELSE row

SyncEnding(w) ==
  /\ workers[w].pc = "sync"
  /\ lic' = NoteEnding(lic, workers[w].sub.ending, workers[w].stamp)
  /\ IF workers[w].job = "cancelEnd" THEN Done(w) ELSE Step(w, "write")
  /\ UNCHANGED <<readable, faults, stripe, changes, events, now, clock, ended, restores, astray,
                 said, repeated>>

\* applySubscriptionState from a current read.  One refused for an
\* operator's hold still takes what Stripe bills, and the stamp with it.
WriteRead(w) ==
  LET s == workers[w].sub  at == workers[w].stamp  to == StatusFor(s.status) IN
  /\ workers[w].pc = "write" /\ readable
  /\ IF Lands(lic, to, at)
     THEN /\ lic' = Written(lic, workers[w].copy, s, at, now)
          /\ Tell(NewsFromRow(w, to))
     ELSE /\ lic' = IF lic.linked /\ NotStale(lic, at) /\ to \in Usable
                    THEN [lic EXCEPT !.synced = at] ELSE lic
          /\ UNCHANGED <<said, repeated>>
  /\ Done(w)
  /\ UNCHANGED <<readable, faults, stripe, changes, events, now, clock, ended, restores, astray>>

\* An update, from its payload.
WritePayload(w) ==
  LET s == workers[w].sub  to == StatusFor(s.status) IN
  /\ workers[w].pc = "write" /\ ~readable /\ workers[w].event.kind = "updated"
  /\ IF Lands(lic, to, NoStamp)
     THEN lic' = Written(lic, workers[w].copy, s, NoStamp, now) /\ Tell(NewsFromRow(w, to))
     ELSE UNCHANGED <<lic, said, repeated>>
  /\ Done(w)
  /\ UNCHANGED <<readable, faults, stripe, changes, events, now, clock, ended, restores, astray>>

\* A paid invoice, from its payload: it extends the date, and lifts what
\* non-payment took.  One for nothing (the trial's opening) moves the date
\* alone, and not for a licence paused.
WritePaid(w) ==
  LET copy == workers[w].copy
      until == IF workers[w].sub.period > copy.until THEN workers[w].sub.period ELSE copy.until IN
  /\ workers[w].pc = "write" /\ ~readable /\ workers[w].event.kind = "paid"
  /\ \E lifts \in IF copy.status \in {"trialing", "suspended"} THEN BOOLEAN ELSE {TRUE} :
       IF lifts
       THEN IF Lands(lic, "active", NoStamp)
            THEN /\ lic' = [lic EXCEPT !.status = "active", !.by = "", !.pastDue = FALSE,
                                       !.until = until]
                 /\ Tell(NewsFromRow(w, "active"))
            ELSE UNCHANGED <<lic, said, repeated>>
       ELSE /\ lic' = IF copy.status = "trialing" /\ Lands(lic, "trialing", NoStamp)
                         /\ lic.status \notin {"canceled", "expired"}
                      THEN [lic EXCEPT !.until = until] ELSE lic
            /\ UNCHANGED <<said, repeated>>
  /\ Done(w)
  /\ UNCHANGED <<readable, faults, stripe, changes, events, now, clock, ended, restores, astray>>

\* A failed invoice, from its payload: dunning begins.
WriteFailed(w) ==
  /\ workers[w].pc = "write" /\ ~readable /\ workers[w].event.kind = "failed"
  /\ lic' = IF workers[w].copy.status \in {"active", "trialing"} /\ Lands(lic, "past_due", NoStamp)
            THEN [lic EXCEPT !.status = "past_due", !.pastDue = TRUE] ELSE lic
  /\ Done(w)
  /\ UNCHANGED <<readable, faults, stripe, changes, events, now, clock, ended, restores, astray,
                 said, repeated>>

\* UpdateLicenseFromSubscriptionEnded: final, and stamped, so that no read
\* from before brings the licence back.  The stamp never moves back.
EndedStamp(row, at) == IF row.synced > at THEN row.synced ELSE at

StampEnd(w) ==
  /\ workers[w].pc = "stamp"
  /\ Stamp
  /\ workers' = [workers EXCEPT ![w].pc = "end", ![w].stamp = clock']
  /\ UNCHANGED <<readable, faults, stripe, changes, events, now, lic, ended, restores, astray,
                 said, repeated>>

WriteEnd(w) ==
  /\ workers[w].pc = "end"
  /\ IF lic.linked /\ lic.status # "revoked"
     THEN /\ lic' = [lic EXCEPT !.status = "canceled", !.by = IF Paused(lic) THEN "" ELSE lic.by,
                                !.pastDue = FALSE, !.until = EndAccess(lic, workers[w].copy, now),
                                !.synced = EndedStamp(lic, workers[w].stamp)]
          /\ Tell(NewsFromRow(w, "canceled"))
          /\ ended' = TRUE
     ELSE UNCHANGED <<lic, said, repeated, ended>>
  /\ Done(w)
  /\ UNCHANGED <<readable, faults, stripe, changes, events, now, clock, restores, astray>>

\* A statement or Stripe's answer fails: from a read the event is asked for
\* again; a payload's write is not, and a request of the portal or of an
\* operator has failed.
Retried(w) == workers[w].job = "event" /\ (readable \/ workers[w].pc # "write")

Fail(w) ==
  /\ workers[w].pc # "idle"
  /\ faults < MaxFaults
  /\ faults' = faults + 1
  /\ events' = IF Retried(w) THEN events \cup {workers[w].event} ELSE events
  /\ astray' = (astray \/ (workers[w].job = "reinstate" /\ workers[w].pc \notin {"first", "lift"}))
  /\ Done(w)
  /\ UNCHANGED <<readable, stripe, changes, now, clock, lic, ended, restores, said, repeated>>

-----------------------------------------------------------------------------
(* The portal: cancel now, or at the end of the period. *)

Begin(w, job, pc, stamped) ==
  /\ workers[w].pc = "idle" /\ lic.linked /\ MayBegin
  /\ IF stamped THEN Stamp ELSE UNCHANGED clock
  /\ workers' = [workers EXCEPT ![w] = [Idle EXCEPT !.pc = pc, !.job = job, !.copy = CopyOf(lic),
                                                    !.stamp = IF stamped THEN clock' ELSE 0]]

\* Stripe ends the subscription for a request; one that already ended is
\* the end asked for.
StripeEnds ==
  IF stripe.status = "canceled" THEN UNCHANGED <<stripe, changes, events, now>>
  ELSE ChangeTo([status |-> "canceled", ending |-> FALSE], now)

\* subscription.Cancel, then the same final write as the deletion's.  A
\* second cancel of a licence already canceled writes nothing.
CancelNow(w) ==
  /\ ~(stripe.status = "canceled" /\ lic.status = "canceled")
  /\ StripeEnds
  /\ Begin(w, "cancelNow", "stamp", FALSE)
  /\ UNCHANGED <<readable, faults, lic, ended, restores, astray, said, repeated>>

CancelAtPeriodEnd(w) ==
  /\ stripe.status # "canceled"
  /\ Begin(w, "cancelEnd", "date", TRUE)
  /\ ChangeTo([stripe EXCEPT !.ending = TRUE], now)
  /\ UNCHANGED <<readable, faults, lic, ended, restores, astray, said, repeated>>

\* The date alone, as of the stamp taken before Stripe was asked: never one
\* that gives back what ended.
WriteDate(w) ==
  LET at == workers[w].stamp IN
  /\ workers[w].pc = "date"
  /\ lic' = IF /\ Lands(lic, workers[w].copy.status, at)
               /\ lic.status \notin {"canceled", "expired"}
            THEN [lic EXCEPT !.until = now, !.synced = at] ELSE lic
  /\ workers' = [workers EXCEPT ![w].pc = "sync", ![w].sub.ending = TRUE]
  /\ UNCHANGED <<readable, faults, stripe, changes, events, now, clock, ended, restores, astray,
                 said, repeated>>

-----------------------------------------------------------------------------
(* Operators. *)

SuspendLicense ==
  /\ lic.status \in Usable
  /\ lic' = [lic EXCEPT !.status = "suspended", !.by = "admin"]
  /\ TellAlways("suspended")
  /\ UNCHANGED <<readable, faults, stripe, changes, events, now, clock, workers, ended, restores,
                 astray>>

RevokeLicense ==
  /\ lic' = [lic EXCEPT !.status = "revoked"]
  /\ TellAlways("revoked")
  /\ UNCHANGED <<readable, faults, stripe, changes, events, now, clock, workers, ended, restores,
                 astray>>

\* "Cancel and revoke", and a refund made in Stripe: the subscription is
\* cancelled first, then the licence revoked, the first only while it still
\* carries the subscription.
RefundLicense(w) ==
  /\ StripeEnds
  /\ \E job \in {"refund", "takeBack"} : Begin(w, job, "revoke", FALSE)
  /\ UNCHANGED <<readable, faults, lic, ended, restores, astray, said, repeated>>

WriteRevoked(w) ==
  /\ workers[w].pc = "revoke"
  /\ IF IF workers[w].job = "refund" THEN lic.linked /\ lic.status # "revoked"
                                     ELSE workers[w].copy.status # "revoked"
     THEN /\ lic' = [lic EXCEPT !.status = "revoked"]
          /\ Tell(IF lic.status = "revoked" THEN "" ELSE "revoked")
     ELSE UNCHANGED <<lic, said, repeated>>
  /\ Done(w)
  /\ UNCHANGED <<readable, faults, stripe, changes, events, now, clock, ended, restores, astray>>

Reinstatable(row) ==
  \/ row.status = "suspended"
  \/ row.status \in {"expired", "canceled"} /\ row.until >= now

\* FollowSubscription reads the subscription before the suspension is
\* lifted, and again after.
ReinstateLicense(w) ==
  /\ readable
  /\ Begin(w, "reinstate", "first", TRUE)
  /\ UNCHANGED <<readable, faults, stripe, changes, events, now, lic, ended, restores, astray,
                 said, repeated>>

ReadFirst(w) ==
  /\ workers[w].pc = "first"
  /\ workers' = [workers EXCEPT ![w].pc = "lift", ![w].sub = ReadAt(stripe, now)]
  /\ UNCHANGED <<readable, faults, stripe, changes, events, now, clock, lic, ended, restores,
                 astray, said, repeated>>

Lift(w) ==
  /\ workers[w].pc = "lift"
  /\ IF Reinstatable(lic)
     THEN /\ lic' = [lic EXCEPT !.status = "active", !.by = ""]
          /\ ended' = FALSE
          /\ restores' = restores + 1
          /\ TellAlways("reinstated")
          /\ Step(w, "again")
     ELSE /\ Done(w)
          /\ UNCHANGED <<lic, ended, restores, said, repeated>>
  /\ UNCHANGED <<readable, faults, stripe, changes, events, now, clock, astray>>

\* The second read's stamp, or, should it fail, the first read stands in.
FollowAgain(w) ==
  /\ workers[w].pc = "again"
  /\ \/ /\ Stamp
        /\ workers' = [workers EXCEPT ![w].pc = "reread", ![w].stamp = clock']
        /\ UNCHANGED astray
     \/ /\ workers' = [workers EXCEPT ![w].pc = "sync", ![w].copy = CopyOf(lic)]
        /\ astray' = TRUE
        /\ UNCHANGED clock
  /\ UNCHANGED <<readable, faults, stripe, changes, events, now, lic, ended, restores, said,
                 repeated>>

ReadAgain(w) ==
  /\ workers[w].pc = "reread"
  /\ workers' = [workers EXCEPT ![w].pc = "sync", ![w].sub = ReadAt(stripe, now), ![w].copy = CopyOf(lic)]
  /\ UNCHANGED <<readable, faults, stripe, changes, events, now, clock, lic, ended, restores,
                 astray, said, repeated>>

\* SetLicenseValidUntil: refused while a subscription bills the licence.
SetLicenseValidUntil ==
  /\ ~lic.linked
  /\ lic' = [lic EXCEPT !.until = MaxPeriods,
                        !.status = IF lic.status = "expired" THEN "active" ELSE lic.status]
  /\ ended' = (ended /\ lic.status # "expired")
  /\ restores' = IF lic.status = "expired" THEN restores + 1 ELSE restores
  /\ IF lic.status = "expired" THEN TellAlways("reinstated") ELSE UNCHANGED <<said, repeated>>
  /\ UNCHANGED <<readable, faults, stripe, changes, events, now, clock, workers, astray>>

\* UnlinkStripeSubscription, once Stripe says the subscription ended.
AskEnded(w) ==
  /\ readable /\ stripe.status = "canceled"
  /\ workers[w].pc = "idle" /\ lic.linked
  /\ workers' = [workers EXCEPT ![w] = [Idle EXCEPT !.pc = "clear", !.job = "unlink"]]
  /\ UNCHANGED <<readable, faults, stripe, changes, events, now, clock, lic, ended, restores,
                 astray, said, repeated>>

ClearStripeSubscription(w) ==
  /\ workers[w].pc = "clear"
  /\ lic' = [lic EXCEPT !.linked = FALSE]
  /\ Done(w)
  /\ UNCHANGED <<readable, faults, stripe, changes, events, now, clock, ended, restores, astray,
                 said, repeated>>

-----------------------------------------------------------------------------
(* The hourly sweeps; each write checks its candidate again. *)

Expire ==
  /\ lic' = [lic EXCEPT !.status = "expired"]
  /\ Tell("expired")
  /\ UNCHANGED <<readable, faults, stripe, changes, events, now, clock, workers, ended, restores,
                 astray>>

ExpireAfterGrace == lic.status \in {"active", "past_due"} /\ lic.until < now /\ Expire
ExpireTrial == lic.status = "trialing" /\ lic.until < now /\ Expire
ExpirePastDue == lic.status = "past_due" /\ Expire

-----------------------------------------------------------------------------
Handler(w) ==
  \/ TakeEvent(w) \/ ReadStripe(w) \/ SyncEnding(w) \/ WriteRead(w) \/ WritePayload(w)
  \/ WritePaid(w) \/ WriteFailed(w) \/ StampEnd(w) \/ WriteEnd(w) \/ Fail(w)

Portal(w) == CancelNow(w) \/ CancelAtPeriodEnd(w) \/ WriteDate(w)

Operator(w) ==
  \/ RefundLicense(w) \/ WriteRevoked(w) \/ ReinstateLicense(w) \/ ReadFirst(w) \/ Lift(w)
  \/ FollowAgain(w) \/ ReadAgain(w) \/ AskEnded(w) \/ ClearStripeSubscription(w)

Next ==
  \/ StripeMove \/ StripeEnding \/ PeriodPasses
  \/ SuspendLicense \/ RevokeLicense \/ SetLicenseValidUntil
  \/ ExpireAfterGrace \/ ExpireTrial \/ ExpirePastDue
  \/ \E w \in Workers : Handler(w) \/ Portal(w) \/ Operator(w)

Spec == Init /\ [][Next]_vars

-----------------------------------------------------------------------------
\* The variables have their types.
TypeOK ==
  /\ readable \in BOOLEAN
  /\ stripe \in [status : StripeStatuses, ending : BOOLEAN]
  /\ changes \in 0..MaxChanges
  /\ events \subseteq EventType
  /\ now \in Periods \ {0}
  /\ clock \in Stamps
  /\ lic \in LicType
  /\ workers \in [Workers -> WorkerType]
  /\ faults \in 0..MaxFaults
  /\ restores \in Nat
  /\ ended \in BOOLEAN /\ astray \in BOOLEAN /\ repeated \in BOOLEAN
  /\ said \in {"", "suspended", "reinstated", "canceled", "expired", "revoked"}

Quiet == events = {} /\ \A w \in Workers : workers[w].pc = "idle"

\* The statuses a licence may show for a subscription: a failing one may
\* have been expired by the dunning sweep.
Shows(s) == IF s = "past_due" THEN {"past_due", "expired"} ELSE {StatusFor(s)}

\* Once every event is answered, the licence is as Stripe has the
\* subscription, and knows whether it renews, however the reads and writes
\* of its handlers overlapped: only an operator's decision, a missing read
\* of Stripe or a reinstatement cut off from Stripe leaves it otherwise
\* (stripe.go, currentSubscription; store.go,
\* UpdateLicenseFromSubscriptionRead).
FollowsStripe ==
  (readable /\ Quiet /\ lic.linked /\ ~astray /\ lic.status # "revoked" /\ ~OperatorHolds(lic))
    => /\ lic.status \in Shows(stripe.status)
       /\ lic.status \in Usable => lic.ending = stripe.ending

\* Each turn of a licence is told once: no two events, however they race,
\* tell the merchant's webhooks the same turn twice (store.go,
\* License.WasCanceled and the others read under the row lock).  Not where
\* payloads stand in for reads: a failed payment's takes a licence expired
\* meanwhile into dunning and says nothing.
TellsOnce == readable => ~repeated

\* Where the licence stands for Standing.tla.
StandingOf(row) ==
  IF OperatorHolds(row) THEN "held"
  ELSE CASE row.status = "revoked"   -> "revoked"
         [] row.status = "suspended" -> "paused"
         [] row.status = "canceled"  -> "ended"
         [] row.status = "expired"   -> "lapsed"
         [] OTHER                    -> "working"

Abstract == INSTANCE Standing WITH standing <- StandingOf(lic), over <- ended

\* The licence keeps what Standing.tla promises: an event handled while an
\* operator suspends or revokes never undoes it, only an operator's own
\* reinstatement gives back what an operator held or what ended with the
\* subscription, and a read from before the subscription's end never does
\* (store.go, updateLicenseAndSubscriptionIn).
KeepsStanding == Abstract!Spec
=============================================================================
