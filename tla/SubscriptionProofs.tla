------------------------- MODULE SubscriptionProofs -------------------------
(***************************************************************************)
(* Proofs about Subscription, for any number of workers, changes, periods, *)
(* stamps and faults.                                                      *)
(***************************************************************************)
EXTENDS Subscription, TLAPS

\* A worker that has read the subscription and will write what it read.
Reads(w) == \/ workers[w].pc \in {"write", "lift", "again"}
            \/ workers[w].pc = "sync" /\ workers[w].job # "cancelEnd"

\* One that ends the subscription at the period's end, and read nothing.
Dating(w) == \/ workers[w].pc = "date"
             \/ workers[w].pc = "sync" /\ workers[w].job = "cancelEnd"

\* It read the subscription as Stripe has it now.
Current(w) ==
  /\ workers[w].sub.status = stripe.status /\ workers[w].sub.ending = stripe.ending
  /\ stripe.status \notin {"paused", "canceled"} => workers[w].sub.period = now

\* A subscription in its trial, or paused after it, was never over.
Early == readable /\ stripe.status \in {"trialing", "paused"}

\* What each worker knows, where the subscription last changed at stamp c:
\* one that took its stamp since reads it as it is.
Knows(w, c) ==
  /\ workers[w].stamp <= clock
  /\ workers[w].event.kind = "deleted" => stripe.status = "canceled"
  /\ workers[w].pc \in {"stamp", "end"} => stripe.status = "canceled"
  /\ workers[w].pc = "end" => workers[w].stamp > c
  /\ workers[w].pc = "read" => workers[w].job = "event"
  /\ workers[w].pc \in {"first", "lift", "again", "reread"} => workers[w].job = "reinstate"
  /\ Dating(w) => workers[w].job = "cancelEnd" /\ workers[w].stamp <= c
  /\ readable /\ Reads(w) /\ workers[w].stamp > c => Current(w)
  /\ Early /\ Reads(w) => workers[w].sub.status \notin {"unpaid", "canceled"}

\* The row: an operator's hold is one of a licence stopped, and a licence whose
\* subscription is known to be over is canceled, by a write stamped since.
Row(c) ==
  /\ ended => lic.status \in {"canceled", "revoked"} /\ stripe.status = "canceled" /\ lic.synced > c
  /\ lic.by = "admin" => lic.status \in {"suspended", "canceled", "revoked"}
  /\ lic.status = "suspended" => lic.by \in {"admin", "stripe"}
  /\ lic.synced <= clock /\ lic.endingAt <= clock
  /\ Early => lic.status # "canceled"
  /\ readable /\ lic.endingAt > c => lic.ending = stripe.ending

\* What the webhooks were told last is how the licence stands.
Said ==
  readable =>
    /\ ~repeated
    /\ said \in {"", "reinstated"} => lic.status \in Usable
    /\ said \notin {"", "reinstated"} => lic.status = said

\* The licence is as Stripe has it, by a write stamped since the last change; or
\* an event, or a worker that will write after every older read, is on its way.
Settled(c) ==
  /\ lic.synced > c /\ lic.status \in Shows(stripe.status)
  /\ lic.status \in {"active", "trialing"} => lic.until >= now
Carries(w, c) ==
  /\ workers[w].job \in {"event", "reinstate"}
  /\ \/ workers[w].pc \in {"again", "stamp"}
     \/ /\ workers[w].pc \in {"read", "reread", "sync", "write", "end"}
        /\ workers[w].stamp > c /\ workers[w].stamp >= lic.synced
Billed == lic.linked /\ ~astray /\ lic.status # "revoked" /\ ~OperatorHolds(lic)
StatusComes(c) ==
  readable /\ Billed => Settled(c) \/ events # {} \/ \E w \in Workers : Carries(w, c)

\* And so for whether it renews.
Brings(w, c) ==
  /\ workers[w].job \in {"event", "reinstate"}
  /\ \/ workers[w].pc = "again"
     \/ workers[w].pc \in {"read", "reread", "sync"} /\ workers[w].stamp > c
EndingComes(c) ==
  readable /\ lic.linked /\ ~astray =>
    \/ lic.endingAt > c \/ events # {} \/ stripe.status = "canceled"
    \/ \E w \in Workers : Brings(w, c)

Since(c) ==
  /\ c <= clock
  /\ \A e \in events : e.kind = "deleted" => stripe.status = "canceled"
  /\ \A w \in Workers : Knows(w, c)
  /\ Row(c) /\ Said /\ StatusComes(c) /\ EndingComes(c)

SubscriptionInv == TypeOK /\ \E c \in Int : Since(c)

-----------------------------------------------------------------------------
(* Types. *)

\* The bounds are numbers, and a worker at rest has its type.
LEMMA Constants ==
  /\ MaxChanges \in Nat /\ MaxPeriods \in Nat \ {0} /\ MaxStamps \in Nat /\ MaxFaults \in Nat
  /\ Periods \subseteq Nat /\ 0 \in Periods /\ 1 \in Periods
  /\ Fresh \in LicType /\ NoRead \in ReadType /\ Idle \in WorkerType
<1>1. /\ MaxChanges \in Nat /\ MaxPeriods \in Nat \ {0} /\ MaxStamps \in Nat /\ MaxFaults \in Nat
      /\ Periods \subseteq Nat /\ 0 \in Periods /\ 1 \in Periods
  BY SubscriptionAssumption DEF Periods
<1>2. Fresh \in LicType
  BY <1>1 DEF Fresh, LicType, Statuses, Usable, Stamps
<1>3. NoRead \in ReadType
  BY <1>1 DEF NoRead, ReadType, StripeStatuses, Usable
<1>4. CopyOf(Fresh) \in CopyType
  BY <1>2 DEF CopyOf, CopyType, LicType
<1>5. Idle \in WorkerType
  BY <1>3, <1>4 DEF Idle, WorkerType, EventType, Jobs, Stamps
<1> QED
  BY <1>1, <1>2, <1>3, <1>5

\* What a worker at rest has.
LEMMA AtRest == /\ Idle.pc = "idle" /\ Idle.stamp = 0 /\ Idle.job = "event" /\ Idle.event.kind = "updated"
                /\ Idle.sub = NoRead
BY DEF Idle

\* The licence a handler read, and the subscription, have their types.
LEMMA Copied ==
  ASSUME TypeOK
  PROVE  /\ CopyOf(lic) \in CopyType
         /\ ReadAt(stripe, now) \in ReadType
         /\ ReadAt(stripe, now).status = stripe.status /\ ReadAt(stripe, now).ending = stripe.ending
         /\ ReadAt(stripe, now).period = now
BY DEF TypeOK, CopyOf, CopyType, LicType, ReadAt, ReadType, Periods

\* What a step leaves of the workers but the one that moves.
LEMMA Moves ==
  ASSUME TypeOK, NEW w \in Workers, NEW r \in WorkerType, workers' = [workers EXCEPT ![w] = r]
  PROVE  /\ workers' \in [Workers -> WorkerType] /\ workers'[w] = r
         /\ \A v \in Workers : v # w => workers'[v] = workers[v]
BY DEF TypeOK

\* A worker that is done, or gives up.
LEMMA Rests ==
  ASSUME TypeOK, NEW w \in Workers, Done(w)
  PROVE  /\ workers' \in [Workers -> WorkerType] /\ workers'[w] = Idle
         /\ \A v \in Workers : v # w => workers'[v] = workers[v]
BY Moves, Constants DEF Done

\* A step that moves the worker on, and nothing else of it.
LEMMA Steps ==
  ASSUME TypeOK, NEW w \in Workers, NEW pc \in {"sync", "write", "again"}, Step(w, pc)
  PROVE  /\ workers' \in [Workers -> WorkerType]
         /\ workers'[w].pc = pc /\ workers'[w].job = workers[w].job /\ workers'[w].event = workers[w].event
         /\ workers'[w].stamp = workers[w].stamp /\ workers'[w].sub = workers[w].sub
         /\ \A v \in Workers : v # w => workers'[v] = workers[v]
<1> DEFINE r == [workers[w] EXCEPT !.pc = pc]
<1>1. workers[w] \in WorkerType
  BY DEF TypeOK
<1>2. r \in WorkerType
  BY <1>1 DEF WorkerType
<1>3. workers' = [workers EXCEPT ![w] = r]
  BY <1>1 DEF Step, TypeOK
<1>4. /\ r.pc = pc /\ r.job = workers[w].job /\ r.event = workers[w].event
      /\ r.stamp = workers[w].stamp /\ r.sub = workers[w].sub
  BY <1>1 DEF WorkerType
<1> HIDE DEF r
<1> QED
  BY <1>2, <1>3, <1>4, Moves

\* A job of the portal or of an operator that begins.
LEMMA Begins ==
  ASSUME TypeOK, NEW w \in Workers, NEW job \in Jobs,
         NEW pc \in {"stamp", "date", "revoke", "first"}, NEW stamped \in BOOLEAN,
         Begin(w, job, pc, stamped)
  PROVE  /\ workers' \in [Workers -> WorkerType]
         /\ workers'[w].pc = pc /\ workers'[w].job = job /\ workers'[w].event.kind = "updated"
         /\ workers'[w].stamp = IF stamped THEN clock' ELSE 0
         /\ \A v \in Workers : v # w => workers'[v] = workers[v]
         /\ workers[w].pc = "idle" /\ clock' \in Nat /\ clock <= clock'
<1> DEFINE r == [Idle EXCEPT !.pc = pc, !.job = job, !.copy = CopyOf(lic),
                             !.stamp = IF stamped THEN clock' ELSE 0]
<1>1. clock \in Nat /\ clock' \in Nat /\ clock <= clock' /\ workers[w].pc = "idle"
  <2>1. clock \in Nat /\ workers[w].pc = "idle"
    BY DEF Begin, TypeOK, Stamps
  <2>2. CASE stamped
    BY <2>1, <2>2 DEF Begin, Stamp
  <2>3. CASE ~stamped
    BY <2>1, <2>3 DEF Begin
  <2> QED
    BY <2>1, <2>2, <2>3
<1>2. CopyOf(lic) \in CopyType /\ Idle \in WorkerType
  BY Copied, Constants
<1>3. r \in WorkerType
  BY <1>1, <1>2 DEF WorkerType, Stamps
<1>4. /\ r.pc = pc /\ r.job = job /\ r.event = Idle.event /\ r.stamp = IF stamped THEN clock' ELSE 0
  BY <1>2 DEF WorkerType
<1>5. workers' = [workers EXCEPT ![w] = r]
  BY DEF Begin
<1> HIDE DEF r
<1> QED
  BY <1>1, <1>3, <1>4, <1>5, Moves, AtRest

\* What a write of subscription s, stamped at, makes of a row.
IsWritten(r, row, s, at) ==
  LET to == StatusFor(s.status) IN
  /\ r \in LicType /\ to \in Statuses /\ r.status = to
  /\ r.linked = row.linked /\ r.ending = row.ending /\ r.endingAt = row.endingAt
  /\ r.synced = IF at = NoStamp THEN row.synced ELSE at
  /\ to \in Usable \cup {"suspended", "canceled"}
  /\ to \in Usable => r.by = "" /\ r.until = s.period
  /\ to = "suspended" => r.by = "stripe"
  /\ to = "canceled" => r.by = IF Paused(row) THEN "" ELSE row.by

\* The row after a write of a subscription that was read or came as a payload.
LEMMA WrittenType ==
  ASSUME NEW row \in LicType, NEW copy \in CopyType, NEW s \in ReadType,
         NEW at \in Stamps \cup {NoStamp}, NEW p \in Periods \ {0}
  PROVE  IsWritten(Written(row, copy, s, at, p), row, s, at) /\ EndAccess(row, copy, p) \in Periods
<1> DEFINE to == StatusFor(s.status)
           pd == CASE to = "past_due"             -> TRUE
                   [] to \in {"active", "canceled"} -> FALSE
                   [] OTHER                       -> copy.pastDue
           by == CASE to = "suspended" -> "stripe"
                   [] to = "canceled"  -> IF Paused(row) THEN "" ELSE row.by
                   [] OTHER            -> ""
           un == IF to = "canceled" THEN EndAccess(row, copy, p) ELSE s.period
           sy == IF at = NoStamp THEN row.synced ELSE at
           r == [row EXCEPT !.status = to, !.by = by, !.pastDue = pd, !.until = un, !.synced = sy]
<1>1. to \in Usable \cup {"suspended", "canceled"} /\ to \in Statuses
  BY DEF ReadType, StripeStatuses, Usable, StatusFor, Statuses
<1>2. EndAccess(row, copy, p) \in Periods
  <2>1. row.until \in Periods /\ copy.until \in Periods
    BY DEF LicType, CopyType
  <2>2. MaxPeriods \in Nat
    BY SubscriptionAssumption
  <2>3. copy.until >= p => p - 1 \in Periods
    BY <2>1, <2>2 DEF Periods
  <2> QED
    BY <2>1, <2>2, <2>3 DEF EndAccess, Periods
<1>3. un \in Periods
  BY <1>2 DEF ReadType
<1>4. sy \in Stamps
  BY DEF LicType
<1>5. pd \in BOOLEAN
  <2>1. copy.pastDue \in BOOLEAN
    BY DEF CopyType
  <2>2. CASE to = "past_due"
    BY <2>2
  <2>3. CASE to \in {"active", "canceled"}
    BY <2>3
  <2>4. CASE to \notin {"past_due", "active", "canceled"}
    BY <2>1, <2>4
  <2> QED
    BY <2>2, <2>3, <2>4
<1>6. by \in {"", "admin", "stripe"}
  <2>1. row.by \in {"", "admin", "stripe"}
    BY DEF LicType
  <2>2. CASE to = "suspended"
    BY <2>2
  <2>3. CASE to = "canceled"
    BY <2>1, <2>3
  <2>4. CASE to \notin {"suspended", "canceled"}
    BY <2>4
  <2> QED
    BY <2>2, <2>3, <2>4
<1>7. /\ to \in Usable => by = "" /\ un = s.period
      /\ to = "suspended" => by = "stripe"
      /\ to = "canceled" => by = IF Paused(row) THEN "" ELSE row.by
  BY DEF Usable
<1>8. Written(row, copy, s, at, p) = r
  BY DEF Written
<1> HIDE DEF to, pd, by, un, sy
<1>9. /\ r \in LicType
      /\ r.status = to /\ r.by = by /\ r.until = un /\ r.synced = sy
      /\ r.linked = row.linked /\ r.ending = row.ending /\ r.endingAt = row.endingAt
  BY <1>1, <1>3, <1>4, <1>5, <1>6 DEF LicType
<1> HIDE DEF r
<1> QED
  BY <1>1, <1>2, <1>7, <1>8, <1>9 DEF IsWritten, to, sy

\* The types of the fields the argument compares.
LEMMA Typed ==
  ASSUME TypeOK
  PROVE  /\ clock \in Nat /\ now \in Nat \ {0} /\ stripe.status \in StripeStatuses
         /\ readable \in BOOLEAN /\ ended \in BOOLEAN /\ astray \in BOOLEAN /\ repeated \in BOOLEAN
         /\ lic.status \in Statuses /\ lic.by \in {"", "admin", "stripe"} /\ lic.linked \in BOOLEAN
         /\ lic.synced \in Nat /\ lic.endingAt \in Nat /\ lic.until \in Nat
         /\ said \in {"", "suspended", "reinstated", "canceled", "expired", "revoked"}
         /\ \A w \in Workers : /\ workers[w] \in WorkerType
                               /\ workers[w].stamp \in Nat /\ workers[w].job \in Jobs
                               /\ workers[w].event \in EventType /\ workers[w].sub \in ReadType
                               /\ workers[w].copy \in CopyType
BY Constants DEF TypeOK, LicType, WorkerType, Stamps

-----------------------------------------------------------------------------
(* What a step leaves of the invariant. *)

\* The workers that do not move know what they knew.
LEMMA OthersKnow ==
  ASSUME TypeOK, NEW c \in Int, Since(c), NEW w \in Workers, UNCHANGED <<readable, stripe>>,
         now' = now \/ stripe.status \in {"paused", "canceled"},
         clock' \in Nat, clock <= clock',
         \A v \in Workers : v # w => workers'[v] = workers[v]
  PROVE  \A v \in Workers : v # w => Knows(v, c)'
<1> SUFFICES ASSUME NEW v \in Workers, v # w PROVE Knows(v, c)'
  OBVIOUS
<1>1. workers'[v] = workers[v] /\ Knows(v, c)
  BY DEF Since
<1>2. clock \in Nat /\ workers[v].stamp \in Nat
  BY Typed
<1>3. Reads(v)' = Reads(v) /\ Dating(v)' = Dating(v) /\ Early' = Early
  BY <1>1 DEF Reads, Dating, Early
<1>4. Current(v) => Current(v)'
  BY <1>1 DEF Current
<1> QED
  BY <1>1, <1>2, <1>3, <1>4 DEF Knows

\* A worker that is done knows all it must.
LEMMA RestKnows ==
  ASSUME TypeOK, NEW c \in Int, NEW w \in Workers, workers'[w] = Idle, clock' \in Nat
  PROVE  Knows(w, c)' /\ ~Carries(w, c)' /\ ~Brings(w, c)'
BY AtRest DEF Knows, Reads, Dating, Carries, Brings

\* A step that writes neither the licence nor Stripe's side: the worker that moved
\* still knows what it must, and brings what it was bringing, or an event does.
LEMMA Unwritten ==
  ASSUME TypeOK, NEW c \in Int, Since(c), NEW w \in Workers,
         UNCHANGED <<readable, stripe, now, lic, ended, restores, said, repeated>>,
         clock' \in Nat, clock <= clock', astray => astray',
         \A v \in Workers : v # w => workers'[v] = workers[v],
         Knows(w, c)',
         \A e \in events' : e.kind = "deleted" => stripe.status = "canceled",
         lic.linked /\ events # {} /\ readable =>
           events' # {} \/ (Carries(w, c)' /\ (Brings(w, c)' \/ stripe.status = "canceled")),
         readable /\ Carries(w, c) => events' # {} \/ astray' \/ Carries(w, c)',
         readable /\ Brings(w, c) => events' # {} \/ astray' \/ Brings(w, c)'
  PROVE  Since(c)'
<1>1. \A v \in Workers : Knows(v, c)'
  BY OthersKnow
<1>2. c <= clock'
  <2>1. c <= clock /\ clock \in Nat
    BY Typed DEF Since
  <2> QED
    BY <2>1
<1>3. Row(c)'
  <2>1. Row(c) /\ clock \in Nat /\ lic.synced \in Nat /\ lic.endingAt \in Nat
    BY Typed DEF Since
  <2> QED
    BY <2>1 DEF Row, Early
<1>4. Said'
  BY DEF Since, Said
<1>5. StatusComes(c)'
  <2> SUFFICES ASSUME readable, Billed', ~Settled(c)', events' = {}
               PROVE  \E v \in Workers : Carries(v, c)'
    BY DEF StatusComes
  <2>1. Billed /\ ~astray' /\ lic.linked /\ ~Settled(c)
    BY DEF Billed, OperatorHolds, Settled
  <2>2. CASE events # {}
    BY <2>1, <2>2
  <2>3. ASSUME NEW v \in Workers, Carries(v, c) PROVE \E u \in Workers : Carries(u, c)'
    <3>1. CASE v = w
      BY <2>1, <2>3, <3>1
    <3>2. CASE v # w
      BY <2>3, <3>2 DEF Carries
    <3> QED
      BY <3>1, <3>2
  <2> QED
    BY <2>1, <2>2, <2>3 DEF Since, StatusComes
<1>6. EndingComes(c)'
  <2> SUFFICES ASSUME readable, lic.linked, ~astray', ~(lic.endingAt > c), events' = {},
                      stripe.status # "canceled"
               PROVE  \E v \in Workers : Brings(v, c)'
    BY DEF EndingComes
  <2>2. CASE events # {}
    BY <2>2
  <2>3. ASSUME NEW v \in Workers, Brings(v, c) PROVE \E u \in Workers : Brings(u, c)'
    <3>1. CASE v = w
      BY <2>3, <3>1
    <3>2. CASE v # w
      BY <2>3, <3>2 DEF Brings
    <3> QED
      BY <3>1, <3>2
  <2> QED
    BY <2>2, <2>3 DEF Since, EndingComes
<1> QED
  BY <1>1, <1>2, <1>3, <1>4, <1>5, <1>6 DEF Since

\* A write by worker w, at rest after it unless it goes on: what is left to show
\* is the row, what was told, and that the status and the ending still come.
LEMMA Wrote ==
  ASSUME TypeOK, NEW c \in Int, Since(c), NEW w \in Workers,
         UNCHANGED <<readable, stripe, now, clock, events>>,
         \A v \in Workers : v # w => workers'[v] = workers[v],
         Knows(w, c)', Row(c)', Said', StatusComes(c)', EndingComes(c)'
  PROVE  Since(c)'
<1>1. clock' \in Nat /\ clock <= clock'
  <2>1. clock \in Nat /\ clock' = clock
    BY Typed
  <2> QED
    BY <2>1
<1>2. \A v \in Workers : Knows(v, c)'
  BY <1>1, OthersKnow
<1> QED
  BY <1>2 DEF Since

\* The ending still comes after a write that leaves it and the link alone.
LEMMA EndingKept ==
  ASSUME NEW c \in Int, Since(c), NEW w \in Workers,
         UNCHANGED <<readable, stripe, events, astray>>,
         lic'.linked = lic.linked, lic'.endingAt = lic.endingAt,
         \A v \in Workers : v # w => workers'[v] = workers[v],
         ~Brings(w, c) \/ Brings(w, c)'
  PROVE  EndingComes(c)'
<1>1. \A v \in Workers : Brings(v, c) => Brings(v, c)'
  BY DEF Brings
<1> QED
  BY <1>1 DEF Since, EndingComes

\* The status still comes after a write that does not take the licence back from
\* an operator, keeps what was settled or settles it, and is not stamped past a read
\* made since the last change.
LEMMA StatusKept ==
  ASSUME TypeOK, NEW c \in Int, Since(c), NEW w \in Workers,
         UNCHANGED <<readable, stripe, events, astray>>,
         lic'.synced \in Nat,
         \A v \in Workers : v # w => workers'[v] = workers[v],
         Billed' => Billed,
         Settled(c) => Settled(c)',
         lic'.synced = lic.synced \/ lic'.synced <= c,
         ~Carries(w, c) \/ Carries(w, c)'
  PROVE  StatusComes(c)'
<1>1. \A v \in Workers : Carries(v, c) => Carries(v, c)'
  <2> SUFFICES ASSUME NEW v \in Workers, Carries(v, c), v # w PROVE Carries(v, c)'
    OBVIOUS
  <2>1. workers'[v] = workers[v] /\ workers[v].stamp \in Nat /\ lic.synced \in Nat
    BY Typed
  <2> QED
    BY <2>1 DEF Carries
<1> QED
  BY <1>1 DEF Since, StatusComes

\* A turn told by the write that makes it, from the row it found, is told once.
LEMMA Tells ==
  ASSUME TypeOK, NEW c \in Int, Since(c), UNCHANGED readable,
         NEW to \in Usable \cup {"suspended", "canceled"},
         readable => Unrestricted(lic, to, TRUE),
         lic'.status = to, Tell(News(lic, to))
  PROVE  Said'
<1> SUFFICES ASSUME readable PROVE Said'
  BY DEF Said
<1>1. Unrestricted(lic, to, TRUE) /\ Said /\ Row(c)
  BY DEF Since
<1>2. lic.status \in Statuses /\ lic.by \in {"", "admin", "stripe"}
      /\ said \in {"", "suspended", "reinstated", "canceled", "expired", "revoked"}
  BY Typed
<1>3. CASE to = "suspended"
  <2>1. lic.status # "revoked" /\ lic.status # "canceled" /\ ~OperatorHolds(lic)
    BY <1>1, <1>3 DEF Unrestricted
  <2>2. CASE lic.status = "suspended"
    <3>1. Paused(lic)
      BY <1>1, <2>1, <2>2 DEF Row, OperatorHolds, Paused
    <3>2. News(lic, to) = ""
      BY <1>3, <3>1 DEF News, Usable
    <3> QED
      BY <1>1, <1>2, <1>3, <2>2, <3>2 DEF Tell, Said, Usable
  <2>3. CASE lic.status # "suspended"
    <3>1. News(lic, to) = "suspended"
      BY <1>3, <2>3 DEF News, Paused, Usable
    <3> QED
      BY <1>1, <1>2, <1>3, <2>3, <3>1 DEF Tell, Said, Usable
  <2> QED
    BY <2>2, <2>3
<1>4. CASE to = "canceled"
  <2>1. News(lic, to) = IF lic.status = "canceled" THEN "" ELSE "canceled"
    BY <1>4 DEF News, Usable
  <2> QED
    BY <1>1, <1>2, <1>4, <2>1 DEF Tell, Said, Usable
<1>5. CASE to \in Usable
  <2>1. lic.status # "revoked" /\ ~OperatorHolds(lic)
    BY <1>1, <1>5 DEF Unrestricted
  <2>2. CASE Paused(lic) \/ lic.status \in {"canceled", "expired"}
    <3>1. News(lic, to) = "reinstated"
      BY <1>5, <2>2 DEF News, Usable
    <3>2. lic.status \in {"suspended", "canceled", "expired"}
      BY <2>2 DEF Paused
    <3> QED
      BY <1>1, <1>2, <1>5, <3>1, <3>2 DEF Tell, Said, Usable
  <2>3. CASE ~(Paused(lic) \/ lic.status \in {"canceled", "expired"})
    <3>1. News(lic, to) = ""
      BY <1>5, <2>3 DEF News, Usable
    <3>2. lic.status \in Usable
      BY <1>1, <1>2, <2>1, <2>3 DEF Paused, OperatorHolds, Row, Statuses
    <3> QED
      BY <1>1, <1>2, <1>5, <3>1, <3>2 DEF Tell, Said, Usable
  <2> QED
    BY <2>2, <2>3
<1> QED
  BY <1>3, <1>4, <1>5

-----------------------------------------------------------------------------
(* Stripe, and the steps that write nothing. *)

\* A change at Stripe, made by it or for the job that worker w begins: nothing was
\* read since, and its event is on its way.
LEMMA Changed ==
  ASSUME TypeOK, NEW c \in Int, Since(c), stripe.status # "canceled",
         NEW s \in [status : StripeStatuses, ending : BOOLEAN], NEW p \in Periods \ {0},
         ChangeTo(s, p),
         s.status = "trialing" => stripe.status = "trialing",
         s.status = "paused" => stripe.status \in {"trialing", "paused"},
         UNCHANGED <<readable, lic, ended, restores, said, repeated>>,
         clock' \in Nat, clock <= clock',
         workers' \in [Workers -> WorkerType],
         \A w \in Workers : 
           \/ workers'[w] = workers[w]
           \/ /\ workers'[w].stamp <= clock' /\ workers'[w].event.kind # "deleted"
              /\ \/ workers'[w].pc \in {"stamp", "revoke"} /\ s.status = "canceled"
                 \/ workers'[w].pc = "date" /\ workers'[w].job = "cancelEnd"
  PROVE  \E d \in Int : Since(d)'
<1>d. PICK d \in Int : d = clock'
  OBVIOUS
<1>k. PICK k \in EventKinds(s.status) :
        events' = events \cup {[kind |-> k, sub |-> IF readable THEN NoRead ELSE ReadAt(s, p)]}
  BY DEF ChangeTo
<1>1. /\ stripe' = s /\ now' = p /\ events' # {}
      /\ \A e \in events' : e \in events \/ e.kind \in EventKinds(s.status)
  <2> DEFINE e == [kind |-> k, sub |-> IF readable THEN NoRead ELSE ReadAt(s, p)]
  <2>1. e.kind = k
    OBVIOUS
  <2>2. stripe' = s /\ now' = p
    BY DEF ChangeTo
  <2>3. events' = events \cup {e}
    BY <1>k
  <2> HIDE DEF e
  <2> QED
    BY <2>1, <2>2, <2>3
<1>2. \A e \in events' : e.kind = "deleted" => s.status = "canceled"
  <2>1. "deleted" \in EventKinds(s.status) => s.status = "canceled"
    BY DEF EventKinds
  <2> QED
    BY <1>1, <2>1 DEF Since
<1>3. /\ clock \in Nat /\ lic.synced \in Nat /\ lic.endingAt \in Nat
      /\ \A w \in Workers : workers[w].stamp \in Nat
  BY Typed
<1>4. Early' => Early
  BY <1>1 DEF Early
<1>5. ASSUME NEW w \in Workers PROVE Knows(w, d)'
  <2>1. Knows(w, c)
    BY DEF Since
  <2>2. CASE workers'[w] = workers[w]
    <3>1. workers'[w].stamp <= clock' /\ workers'[w].stamp <= d /\ ~(workers'[w].stamp > d)
      BY <1>d, <1>3, <2>1, <2>2 DEF Knows
    <3>2. Dating(w)' = Dating(w) /\ Reads(w)' = Reads(w)
      BY <2>2 DEF Dating, Reads
    <3> QED
      BY <1>1, <1>4, <2>1, <2>2, <3>1, <3>2 DEF Knows
  <2>3. CASE workers'[w].pc \in {"stamp", "revoke"} /\ s.status = "canceled" 
             /\ workers'[w].stamp <= clock' /\ workers'[w].event.kind # "deleted"
    BY <1>d, <1>1, <2>3 DEF Knows, Dating, Reads
  <2>4. CASE workers'[w].pc = "date" /\ workers'[w].job = "cancelEnd"
             /\ workers'[w].stamp <= clock' /\ workers'[w].event.kind # "deleted"
    BY <1>d, <1>1, <2>4 DEF Knows, Dating, Reads
  <2> QED
    BY <2>2, <2>3, <2>4
<1>6. Row(d)'
  <2>1. Row(c)
    BY DEF Since
  <2>2. ~ended' /\ lic.synced <= clock' /\ lic.endingAt <= clock'
    BY <1>3, <2>1 DEF Row
  <2> QED
    BY <1>d, <1>3, <1>4, <2>1, <2>2 DEF Row
<1>7. Said' /\ StatusComes(d)' /\ EndingComes(d)'
  BY <1>1 DEF Since, Said, StatusComes, EndingComes
<1>8. Since(d)'
  BY <1>d, <1>1, <1>2, <1>5, <1>6, <1>7 DEF Since
<1> QED
  BY <1>8

\* The events Stripe sends have their type.
LEMMA Sent ==
  ASSUME TypeOK, NEW s \in [status : StripeStatuses, ending : BOOLEAN], NEW p \in Periods \ {0},
         ChangeTo(s, p)
  PROVE  /\ changes' \in 0..MaxChanges /\ events' \subseteq EventType
         /\ stripe' \in [status : StripeStatuses, ending : BOOLEAN] /\ now' \in Periods \ {0}
<1>1. EventKinds(s.status) \subseteq {"updated", "paid", "failed", "deleted"}
  BY DEF EventKinds
<1>2. ReadAt(s, p) \in ReadType /\ NoRead \in ReadType
  BY Constants DEF ReadAt, ReadType
<1>3. events' \subseteq EventType
  <2>1. PICK k \in EventKinds(s.status) :
          events' = events \cup {[kind |-> k, sub |-> IF readable THEN NoRead ELSE ReadAt(s, p)]}
    BY DEF ChangeTo
  <2>2. [kind |-> k, sub |-> IF readable THEN NoRead ELSE ReadAt(s, p)] \in EventType
    BY <1>1, <1>2 DEF EventType
  <2>3. events \subseteq EventType
    BY DEF TypeOK
  <2> QED
    BY <2>1, <2>2, <2>3
<1>4. changes' \in 0..MaxChanges
  <2>1. MaxChanges \in Nat /\ changes \in 0..MaxChanges /\ changes' = changes + 1 /\ changes < MaxChanges
    BY Constants DEF ChangeTo, TypeOK
  <2> QED
    BY <2>1
<1> QED
  BY <1>3, <1>4 DEF ChangeTo

\* Where Stripe may take a subscription.
LEMMA StripeGoes ==
  ASSUME NEW from \in StripeStatuses, NEW to \in StripeMoves[from]
  PROVE  /\ from # "canceled" /\ to \in StripeStatuses /\ to # "trialing"
         /\ to = "paused" => from = "trialing"
<1>1. /\ StripeMoves["trialing"] = {"active", "past_due", "paused", "canceled"}
      /\ StripeMoves["active"] = {"active", "past_due", "canceled"}
      /\ StripeMoves["past_due"] = {"active", "unpaid", "canceled"}
      /\ StripeMoves["unpaid"] = {"active", "canceled"}
      /\ StripeMoves["paused"] = {"active", "canceled"}
      /\ StripeMoves["canceled"] = {}
  BY DEF StripeMoves
<1>2. from \in {"trialing", "active", "past_due", "unpaid", "paused", "canceled"}
  BY DEF StripeStatuses, Usable
<1>3. to \in {"active", "past_due", "unpaid", "paused", "canceled"} /\ from # "canceled"
      /\ (to = "paused" => from = "trialing")
  BY <1>1, <1>2
<1> QED
  BY <1>3 DEF StripeStatuses, Usable

\* Stripe charges, gives up, resumes or ends.
LEMMA StripeMoveKeeps ==
  ASSUME TypeOK, NEW c \in Int, Since(c), StripeMove
  PROVE  TypeOK' /\ \E d \in Int : Since(d)'
<1>1. PICK to \in StripeMoves[stripe.status], p \in {now, now + 1} \cap Periods :
        ChangeTo([status |-> to, ending |-> stripe.ending /\ to # "canceled"], p)
  BY DEF StripeMove
<1>2. /\ stripe.status # "canceled" /\ to \in StripeStatuses /\ to # "trialing"
      /\ to = "paused" => stripe.status = "trialing"
  BY StripeGoes, Typed
<1>3. p \in Periods \ {0}
  <2>1. now \in Nat \ {0}
    BY Typed
  <2> QED
    BY <2>1
<1> DEFINE s == [status |-> to, ending |-> stripe.ending /\ to # "canceled"]
<1>4. s \in [status : StripeStatuses, ending : BOOLEAN] /\ s.status = to
  BY <1>2
<1>5. ChangeTo(s, p)
  BY <1>1
<1> HIDE DEF s
<1>6. /\ UNCHANGED <<readable, lic, ended, restores, said, repeated, clock, workers, astray,
                     faults>>
      /\ clock' \in Nat /\ clock <= clock'
  <2>1. UNCHANGED <<readable, lic, ended, restores, said, repeated, clock, workers, astray, faults>>
    BY DEF StripeMove
  <2>2. clock \in Nat
    BY Typed
  <2> QED
    BY <2>1, <2>2
<1>7. TypeOK'
  <2>1. /\ changes' \in 0..MaxChanges /\ events' \subseteq EventType
        /\ stripe' \in [status : StripeStatuses, ending : BOOLEAN] /\ now' \in Periods \ {0}
    BY Sent, <1>3, <1>4, <1>5
  <2> QED
    BY <1>6, <2>1 DEF TypeOK
<1>8. /\ workers' \in [Workers -> WorkerType] /\ \A w \in Workers : workers'[w] = workers[w]
  BY <1>6 DEF TypeOK
<1> QED
  BY <1>2, <1>3, <1>4, <1>5, <1>6, <1>7, <1>8, Changed

\* The customer ends or resumes in Stripe's own portal.
LEMMA StripeEndingKeeps ==
  ASSUME TypeOK, NEW c \in Int, Since(c), StripeEnding
  PROVE  TypeOK' /\ \E d \in Int : Since(d)'
<1> DEFINE s == [stripe EXCEPT !.ending = ~stripe.ending]
<1>1. s \in [status : StripeStatuses, ending : BOOLEAN] /\ s.status = stripe.status
  BY DEF TypeOK
<1>2. ChangeTo(s, now) /\ stripe.status # "canceled" /\ now \in Periods \ {0}
  BY DEF StripeEnding, TypeOK
<1> HIDE DEF s
<1>6. /\ UNCHANGED <<readable, lic, ended, restores, said, repeated, clock, workers, astray,
                     faults>>
      /\ clock' \in Nat /\ clock <= clock'
  <2>1. UNCHANGED <<readable, lic, ended, restores, said, repeated, clock, workers, astray, faults>>
    BY DEF StripeEnding
  <2>2. clock \in Nat
    BY Typed
  <2> QED
    BY <2>1, <2>2
<1>7. TypeOK'
  <2>1. /\ changes' \in 0..MaxChanges /\ events' \subseteq EventType
        /\ stripe' \in [status : StripeStatuses, ending : BOOLEAN] /\ now' \in Periods \ {0}
    BY Sent, <1>1, <1>2
  <2> QED
    BY <1>6, <2>1 DEF TypeOK
<1>8. /\ workers' \in [Workers -> WorkerType] /\ \A w \in Workers : workers'[w] = workers[w]
  BY <1>6 DEF TypeOK
<1> QED
  BY <1>1, <1>2, <1>6, <1>7, <1>8, Changed

\* A request that ends the subscription at Stripe, or finds it ended, and begins
\* the worker's job.
LEMMA EndsKeeps ==
  ASSUME TypeOK, NEW c \in Int, Since(c), NEW w \in Workers, StripeEnds,
         NEW job \in {"cancelNow", "refund", "takeBack"}, NEW pc \in {"stamp", "revoke"},
         Begin(w, job, pc, FALSE),
         UNCHANGED <<readable, faults, lic, ended, restores, astray, said, repeated>>
  PROVE  TypeOK' /\ \E d \in Int : Since(d)'
<1>1. /\ workers' \in [Workers -> WorkerType]
      /\ workers'[w].pc = pc /\ workers'[w].job = job /\ workers'[w].event.kind = "updated"
      /\ workers'[w].stamp = 0
      /\ \A v \in Workers : v # w => workers'[v] = workers[v]
      /\ workers[w].pc = "idle" /\ clock' \in Nat /\ clock <= clock'
  BY Begins DEF Jobs
<1>2. CASE stripe.status = "canceled"
  <2>1. UNCHANGED <<stripe, changes, events, now>>
    BY <1>2 DEF StripeEnds
  <2>2. TypeOK'
    BY <1>1, <2>1 DEF TypeOK, Stamps
  <2>3. Knows(w, c)'
    BY <1>1, <1>2, <2>1 DEF Knows, Dating, Reads
  <2>4. ~Carries(w, c) /\ ~Brings(w, c)
    BY <1>1 DEF Carries, Brings
  <2>5. Since(c)'
    BY <1>1, <1>2, <2>1, <2>3, <2>4, Unwritten DEF Since
  <2> QED
    BY <2>2, <2>5
<1>3. CASE stripe.status # "canceled"
  <2> DEFINE s == [status |-> "canceled", ending |-> FALSE]
  <2>1. s \in [status : StripeStatuses, ending : BOOLEAN] /\ s.status = "canceled"
    BY DEF StripeStatuses
  <2>2. ChangeTo(s, now) /\ now \in Periods \ {0}
    BY <1>3 DEF StripeEnds, TypeOK
  <2> HIDE DEF s
  <2>3. TypeOK'
    <3>1. /\ changes' \in 0..MaxChanges /\ events' \subseteq EventType
          /\ stripe' \in [status : StripeStatuses, ending : BOOLEAN] /\ now' \in Periods \ {0}
      BY Sent, <2>1, <2>2
    <3> QED
      BY <1>1, <3>1 DEF TypeOK, Stamps
  <2> QED
    BY <1>1, <1>3, <2>1, <2>2, <2>3, Changed
<1> QED
  BY <1>2, <1>3

\* The portal's cancel at the end of the period.
LEMMA CancelAtPeriodEndKeeps ==
  ASSUME TypeOK, NEW c \in Int, Since(c), NEW w \in Workers, CancelAtPeriodEnd(w)
  PROVE  TypeOK' /\ \E d \in Int : Since(d)'
<1> DEFINE s == [stripe EXCEPT !.ending = TRUE]
<1>1. s \in [status : StripeStatuses, ending : BOOLEAN] /\ s.status = stripe.status
  BY DEF TypeOK
<1>2. /\ ChangeTo(s, now) /\ stripe.status # "canceled" /\ now \in Periods \ {0}
      /\ Begin(w, "cancelEnd", "date", TRUE)
      /\ UNCHANGED <<readable, faults, lic, ended, restores, astray, said, repeated>>
  BY DEF CancelAtPeriodEnd, TypeOK
<1> HIDE DEF s
<1>3. /\ workers' \in [Workers -> WorkerType]
      /\ workers'[w].pc = "date" /\ workers'[w].job = "cancelEnd" /\ workers'[w].event.kind = "updated"
      /\ workers'[w].stamp = clock'
      /\ \A v \in Workers : v # w => workers'[v] = workers[v]
      /\ clock' \in Nat /\ clock <= clock'
  BY <1>2, Begins DEF Jobs
<1>4. TypeOK'
  <2>1. /\ changes' \in 0..MaxChanges /\ events' \subseteq EventType
        /\ stripe' \in [status : StripeStatuses, ending : BOOLEAN] /\ now' \in Periods \ {0}
    BY Sent, <1>1, <1>2
  <2> QED
    BY <1>2, <1>3, <2>1 DEF TypeOK, Stamps
<1>5. workers'[w].stamp <= clock'
  BY <1>3
<1> QED
  BY <1>1, <1>2, <1>3, <1>4, <1>5, Changed

\* A period goes by: a subscription paused or over bills nothing in it.
LEMMA PeriodPassesKeeps ==
  ASSUME TypeOK, NEW c \in Int, Since(c), PeriodPasses
  PROVE  TypeOK' /\ Since(c)'
<1>1. /\ UNCHANGED <<readable, faults, stripe, changes, events, clock, lic, workers, ended,
                     restores, astray, said,
                     repeated>>
      /\ stripe.status \in {"canceled", "paused"} /\ now' = now + 1 /\ now < MaxPeriods
  BY DEF PeriodPasses
<1>2. now' \in Periods \ {0}
  <2>1. now \in Nat \ {0} /\ MaxPeriods \in Nat
    BY Typed, Constants
  <2> QED
    BY <1>1, <2>1 DEF Periods
<1>3. TypeOK'
  BY <1>1, <1>2 DEF TypeOK
<1>4. ASSUME NEW w \in Workers PROVE Knows(w, c)'
  <2>1. Knows(w, c)
    BY DEF Since
  <2>2. Reads(w)' = Reads(w) /\ Dating(w)' = Dating(w) /\ Early' = Early /\ (Current(w) => Current(w)')
    BY <1>1 DEF Reads, Dating, Early, Current
  <2> QED
    BY <1>1, <2>1, <2>2 DEF Knows
<1>5. Row(c)' /\ Said' /\ EndingComes(c)'
  <2>1. Row(c) /\ Said /\ EndingComes(c)
    BY DEF Since
  <2>2. \A w \in Workers : Brings(w, c)' = Brings(w, c)
    BY <1>1 DEF Brings
  <2> QED
    BY <1>1, <2>1, <2>2 DEF Row, Early, Said, EndingComes
<1>6. StatusComes(c)'
  <2>1. Settled(c) => Settled(c)'
    <3>1. Shows(stripe.status) \cap {"active", "trialing"} = {}
      BY <1>1 DEF Shows, StatusFor
    <3> QED
      BY <1>1, <3>1 DEF Settled
  <2>2. Billed' = Billed /\ \A w \in Workers : Carries(w, c)' = Carries(w, c)
    BY <1>1 DEF Billed, OperatorHolds, Carries
  <2>3. StatusComes(c)
    BY DEF Since
  <2> QED
    BY <1>1, <2>1, <2>2, <2>3 DEF StatusComes
<1> QED
  BY <1>1, <1>3, <1>4, <1>5, <1>6 DEF Since

\* A handler takes an event: one of a licence linked is carried on.
LEMMA TakeEventKeeps ==
  ASSUME TypeOK, NEW c \in Int, Since(c), NEW w \in Workers, TakeEvent(w)
  PROVE  TypeOK' /\ Since(c)'
<1>1. /\ UNCHANGED <<readable, faults, stripe, changes, now, lic, ended, restores, astray, said,
                     repeated>>
      /\ workers[w].pc = "idle"
  BY DEF TakeEvent
<1>2. PICK e \in events : 
        /\ events' = events \ {e}
        /\ IF lic.linked
           THEN /\ MayBegin
                /\ IF e.kind = "deleted" THEN UNCHANGED clock ELSE Stamp
                /\ workers' = [workers EXCEPT ![w] =
                     [pc |-> IF e.kind = "deleted" THEN "stamp" ELSE "read", job |-> "event",
                      event |-> e, copy |-> CopyOf(lic),
                      stamp |-> IF e.kind = "deleted" THEN 0 ELSE clock', sub |-> NoRead]]
           ELSE UNCHANGED <<clock, workers>>
  BY DEF TakeEvent
<1>3. /\ e \in EventType /\ (e.kind = "deleted" => stripe.status = "canceled")
      /\ \A x \in events' : x.kind = "deleted" => stripe.status = "canceled"
      /\ ~Carries(w, c) /\ ~Brings(w, c)
      /\ events' \subseteq EventType
  BY <1>1, <1>2 DEF Since, TypeOK, Carries, Brings
<1>4. clock \in Nat /\ lic.synced \in Nat /\ lic.linked \in BOOLEAN /\ c <= clock
      /\ lic.synced <= clock
  BY Typed DEF Since, Row
<1>5. CASE ~lic.linked
  <2>1. UNCHANGED <<clock, workers>>
    BY <1>2, <1>5
  <2>2. TypeOK'
    BY <1>1, <1>3, <2>1 DEF TypeOK
  <2>3. Knows(w, c)'
    <3>1. Knows(w, c)
      BY DEF Since
    <3>2. workers'[w] = workers[w] /\ clock' = clock
      BY <2>1
    <3> QED
      BY <1>1, <3>1, <3>2 DEF Knows, Reads, Dating
  <2>4. clock' \in Nat /\ clock <= clock'
    BY <1>4, <2>1
  <2> QED
    BY <1>1, <1>3, <1>5, <2>1, <2>2, <2>3, <2>4, Unwritten
<1>6. CASE lic.linked
  <2> DEFINE r == [pc |-> IF e.kind = "deleted" THEN "stamp" ELSE "read", job |-> "event",
                   event |-> e, copy |-> CopyOf(lic),
                   stamp |-> IF e.kind = "deleted" THEN 0 ELSE clock', sub |-> NoRead]
  <2>1. clock' = (IF e.kind = "deleted" THEN clock ELSE clock + 1) /\ workers' = [workers EXCEPT ![w] = r]
    BY <1>2, <1>6 DEF Stamp
  <2>2. clock' \in Nat /\ clock <= clock' /\ r.stamp \in Nat /\ r.stamp <= clock'
    BY <1>4, <2>1
  <2>3. CopyOf(lic) \in CopyType /\ NoRead \in ReadType
    BY Copied, Constants
  <2>4. r \in WorkerType
    BY <1>3, <2>2, <2>3 DEF WorkerType, Jobs, Stamps
  <2>5. /\ r.job = "event" /\ r.event = e
        /\ e.kind = "deleted" => r.pc = "stamp"
        /\ e.kind # "deleted" => r.pc = "read" /\ r.stamp = clock + 1
    BY <2>1
  <2> HIDE DEF r
  <2>6. /\ workers' \in [Workers -> WorkerType] /\ workers'[w] = r
        /\ \A v \in Workers : v # w => workers'[v] = workers[v]
    BY <2>1, <2>4, Moves
  <2>7. TypeOK'
    BY <1>1, <1>3, <2>2, <2>6 DEF TypeOK, Stamps
  <2>8. Knows(w, c)'
    BY <1>1, <1>3, <2>2, <2>5, <2>6 DEF Knows, Reads, Dating
  <2>9. Carries(w, c)' /\ (Brings(w, c)' \/ stripe.status = "canceled")
    <3>1. CASE e.kind = "deleted"
      BY <1>3, <2>5, <2>6, <3>1 DEF Carries
    <3>2. CASE e.kind # "deleted"
      <4>1. r.stamp > c /\ r.stamp >= lic.synced
        BY <1>4, <2>5, <3>2
      <4> QED
        BY <1>1, <2>5, <2>6, <3>2, <4>1 DEF Carries, Brings
    <3> QED
      BY <3>1, <3>2
  <2> QED
    BY <1>1, <1>3, <2>2, <2>6, <2>7, <2>8, <2>9, Unwritten
<1> QED
  BY <1>4, <1>5, <1>6

\* A read since the last change gives the subscription as it is.
LEMMA ReadNow ==
  ASSUME TypeOK, NEW c \in Int, NEW w \in Workers, UNCHANGED <<stripe, now>>,
         workers'[w].sub = ReadAt(stripe, now)
  PROVE  Current(w)' /\ (Early' => workers'[w].sub.status \notin {"unpaid", "canceled"})
BY Copied DEF Current, Early

\* The read of the subscription, or the payload where there is none.
LEMMA ReadStripeKeeps ==
  ASSUME TypeOK, NEW c \in Int, Since(c), NEW w \in Workers, ReadStripe(w)
  PROVE  TypeOK' /\ Since(c)'
<1> DEFINE pc == IF readable THEN "sync" ELSE "write"
           x == IF readable THEN ReadAt(stripe, now) ELSE workers[w].event.sub
           r == [workers[w] EXCEPT !.pc = pc, !.sub = x]
<1>1. /\ UNCHANGED <<readable, faults, stripe, changes, events, now, clock, lic, ended, restores,
                     astray, said, repeated>>
      /\ workers[w].pc = "read"
      /\ workers' = [workers EXCEPT ![w].pc = pc, ![w].sub = x]
  BY DEF ReadStripe
<1>2. x \in ReadType /\ pc \in {"sync", "write", "lift"}
  BY Copied, Typed DEF EventType
<1>3. workers' = [workers EXCEPT ![w] = r]
  BY <1>1 DEF TypeOK
<1>4. /\ r \in WorkerType /\ r.pc = pc /\ r.sub = x /\ r.job = workers[w].job
      /\ r.stamp = workers[w].stamp /\ r.event = workers[w].event
  <2>1. workers[w] \in WorkerType
    BY Typed
  <2> HIDE DEF pc, x
  <2> QED
    BY <1>2, <2>1 DEF WorkerType
<1> HIDE DEF r
<1>5. /\ workers' \in [Workers -> WorkerType] /\ workers'[w] = r
      /\ \A v \in Workers : v # w => workers'[v] = workers[v]
  BY <1>3, <1>4, Moves
<1>6. TypeOK'
  BY <1>1, <1>5 DEF TypeOK
<1>7. Knows(w, c) /\ workers[w].job = "event" /\ clock \in Nat
  BY <1>1, Typed DEF Since, Knows
<1>8. Knows(w, c)'
  <2>1. readable => Current(w)' /\ (Early' => workers'[w].sub.status \notin {"unpaid", "canceled"})
    BY <1>1, <1>4, <1>5, ReadNow
  <2>2. ~Dating(w)' /\ (Early' => readable)
    BY <1>1, <1>4, <1>5, <1>7 DEF Dating, Early
  <2> QED
    BY <1>1, <1>4, <1>5, <1>7, <2>1, <2>2 DEF Knows
<1>9. /\ Carries(w, c) => Carries(w, c)'
      /\ readable /\ Brings(w, c) => Brings(w, c)'
  BY <1>1, <1>4, <1>5 DEF Carries, Brings
<1>10. /\ clock' \in Nat /\ clock <= clock'
       /\ \A e \in events' : e.kind = "deleted" => stripe.status = "canceled"
  BY <1>1, <1>7 DEF Since
<1>u. /\ UNCHANGED <<readable, stripe, now, lic, ended, restores, said, repeated>>
      /\ astray => astray'
      /\ lic.linked /\ events # {} /\ readable =>
            events' # {} \/ (Carries(w, c)' /\ (Brings(w, c)' \/ stripe.status = "canceled"))
  BY <1>1
<1>v. /\ readable /\ Carries(w, c) => events' # {} \/ astray' \/ Carries(w, c)'
      /\ readable /\ Brings(w, c) => events' # {} \/ astray' \/ Brings(w, c)'
  BY <1>9
<1>w. Since(c)'
  BY <1>v, <1>u, <1>5, <1>8, <1>10, Unwritten
<1> QED
  BY <1>6, <1>w

\* The stamp an end is written with.
LEMMA StampEndKeeps ==
  ASSUME TypeOK, NEW c \in Int, Since(c), NEW w \in Workers, StampEnd(w)
  PROVE  TypeOK' /\ Since(c)'
<1> DEFINE r == [workers[w] EXCEPT !.pc = "end", !.stamp = clock']
<1>1. /\ UNCHANGED <<readable, faults, stripe, changes, events, now, lic, ended, restores, astray,
                     said, repeated>>
      /\ workers[w].pc = "stamp" /\ clock' = clock + 1
      /\ workers' = [workers EXCEPT ![w].pc = "end", ![w].stamp = clock']
  BY DEF StampEnd, Stamp
<1>2. clock \in Nat /\ lic.synced \in Nat /\ c <= clock /\ lic.synced <= clock
  BY Typed DEF Since, Row
<1>3. clock' \in Nat /\ clock <= clock' /\ clock' > c /\ clock' >= lic.synced
  BY <1>1, <1>2
<1>4. workers' = [workers EXCEPT ![w] = r]
  BY <1>1 DEF TypeOK
<1>5. /\ r \in WorkerType /\ r.pc = "end" /\ r.stamp = clock' /\ r.job = workers[w].job
      /\ r.sub = workers[w].sub /\ r.event = workers[w].event
  <2>1. workers[w] \in WorkerType
    BY Typed
  <2> QED
    BY <1>3, <2>1 DEF WorkerType, Stamps
<1> HIDE DEF r
<1>6. /\ workers' \in [Workers -> WorkerType] /\ workers'[w] = r
      /\ \A v \in Workers : v # w => workers'[v] = workers[v]
  BY <1>4, <1>5, Moves
<1>7. TypeOK'
  BY <1>1, <1>3, <1>6 DEF TypeOK, Stamps
<1>8. Knows(w, c)'
  <2>1. Knows(w, c)
    BY DEF Since
  <2> QED
    BY <1>1, <1>3, <1>5, <1>6, <2>1 DEF Knows, Reads, Dating
<1>9. (Carries(w, c) => Carries(w, c)') /\ ~Brings(w, c)
  BY <1>1, <1>3, <1>5, <1>6 DEF Carries, Brings
<1>10. \A e \in events' : e.kind = "deleted" => stripe.status = "canceled"
  BY <1>1 DEF Since
<1>u. /\ UNCHANGED <<readable, stripe, now, lic, ended, restores, said, repeated>>
      /\ astray => astray'
      /\ lic.linked /\ events # {} /\ readable =>
            events' # {} \/ (Carries(w, c)' /\ (Brings(w, c)' \/ stripe.status = "canceled"))
  BY <1>1
<1>v. /\ readable /\ Carries(w, c) => events' # {} \/ astray' \/ Carries(w, c)'
      /\ readable /\ Brings(w, c) => events' # {} \/ astray' \/ Brings(w, c)'
  BY <1>9
<1>w. Since(c)'
  BY <1>v, <1>u, <1>3, <1>6, <1>8, <1>10, Unwritten
<1> QED
  BY <1>7, <1>w

\* A failure: the event is asked for again, or a reinstatement is cut off.
LEMMA FailKeeps ==
  ASSUME TypeOK, NEW c \in Int, Since(c), NEW w \in Workers, Fail(w)
  PROVE  TypeOK' /\ Since(c)'
<1>1. /\ UNCHANGED <<readable, stripe, changes, now, clock, lic, ended, restores, said, repeated>>
      /\ workers[w].pc # "idle" /\ faults < MaxFaults /\ faults' = faults + 1
      /\ events' = IF Retried(w) THEN events \cup {workers[w].event} ELSE events
      /\ astray' = (astray \/ (workers[w].job = "reinstate" /\ workers[w].pc \notin {"first", "lift"}))
      /\ Done(w)
  BY DEF Fail
<1>2. /\ workers' \in [Workers -> WorkerType] /\ workers'[w] = Idle
      /\ \A v \in Workers : v # w => workers'[v] = workers[v]
  BY <1>1, Rests
<1>3. /\ workers[w].event \in EventType /\ events \subseteq EventType
      /\ clock' \in Nat /\ clock <= clock' /\ (astray => astray') /\ astray' \in BOOLEAN
      /\ faults' \in 0..MaxFaults
  <2>1. clock \in Nat /\ workers[w].event \in EventType /\ astray \in BOOLEAN
    BY Typed
  <2>2. MaxFaults \in Nat /\ faults \in 0..MaxFaults /\ events \subseteq EventType
    BY Constants DEF TypeOK
  <2>3. faults' \in 0..MaxFaults
    BY <1>1, <2>2
  <2>4. clock' \in Nat /\ clock <= clock'
    BY <1>1, <2>1
  <2> QED
    BY <1>1, <2>1, <2>2, <2>3, <2>4
<1>4. TypeOK'
  BY <1>1, <1>2, <1>3 DEF TypeOK
<1>5. Knows(w, c)'
  BY <1>2, <1>3, RestKnows
<1>6. /\ \A e \in events' : e.kind = "deleted" => stripe.status = "canceled"
      /\ events # {} => events' # {}
  BY <1>1 DEF Since, Knows
<1>7. readable /\ (Carries(w, c) \/ Brings(w, c)) => events' # {} \/ astray'
  BY <1>1 DEF Carries, Brings, Retried
<1>u. /\ UNCHANGED <<readable, stripe, now, lic, ended, restores, said, repeated>>
      /\ astray => astray'
      /\ lic.linked /\ events # {} /\ readable =>
            events' # {} \/ (Carries(w, c)' /\ (Brings(w, c)' \/ stripe.status = "canceled"))
  BY <1>1, <1>6
<1>v. /\ readable /\ Carries(w, c) => events' # {} \/ astray' \/ Carries(w, c)'
      /\ readable /\ Brings(w, c) => events' # {} \/ astray' \/ Brings(w, c)'
  BY <1>7
<1>w. Since(c)'
  BY <1>v, <1>u, <1>2, <1>3, <1>5, <1>6, Unwritten
<1> QED
  BY <1>4, <1>w

\* A worker that moves on while nothing else does but the clock, and that was
\* bringing nothing, or brings it still.
LEMMA Goes ==
  ASSUME TypeOK, NEW c \in Int, Since(c), NEW w \in Workers, NEW r \in WorkerType,
         workers' = [workers EXCEPT ![w] = r],
         UNCHANGED <<readable, faults, stripe, changes, events, now, lic, ended, restores, said,
                     repeated>>,
         clock' \in Nat, clock <= clock', astray' \in BOOLEAN, astray => astray',
         Knows(w, c)',
         readable /\ Carries(w, c) => astray' \/ Carries(w, c)',
         readable /\ Brings(w, c) => astray' \/ Brings(w, c)'
  PROVE  TypeOK' /\ Since(c)'
<1>1. /\ workers' \in [Workers -> WorkerType]
      /\ \A v \in Workers : v # w => workers'[v] = workers[v]
  BY Moves
<1>2. TypeOK'
  BY <1>1 DEF TypeOK, Stamps
<1>3. \A e \in events' : e.kind = "deleted" => stripe.status = "canceled"
  BY DEF Since
<1>4. events' = events
  OBVIOUS
<1>5. Since(c)'
  BY <1>1, <1>3, <1>4, Unwritten
<1> QED
  BY <1>2, <1>5

\* An operator's reinstatement begins, with its stamp.
LEMMA ReinstateKeeps ==
  ASSUME TypeOK, NEW c \in Int, Since(c), NEW w \in Workers, ReinstateLicense(w)
  PROVE  TypeOK' /\ Since(c)'
<1>1. /\ UNCHANGED <<readable, faults, stripe, changes, events, now, lic, ended, restores, astray,
                     said, repeated>>
      /\ Begin(w, "reinstate", "first", TRUE)
  BY DEF ReinstateLicense
<1>2. /\ workers' \in [Workers -> WorkerType]
      /\ workers'[w].pc = "first" /\ workers'[w].job = "reinstate"
      /\ workers'[w].event.kind = "updated" /\ workers'[w].stamp = clock'
      /\ \A v \in Workers : v # w => workers'[v] = workers[v]
      /\ workers[w].pc = "idle" /\ clock' \in Nat /\ clock <= clock'
  BY <1>1, Begins DEF Jobs
<1>3. TypeOK'
  BY <1>1, <1>2 DEF TypeOK, Stamps
<1>4. Knows(w, c)' /\ ~Carries(w, c) /\ ~Brings(w, c)
  BY <1>2 DEF Knows, Reads, Dating, Carries, Brings
<1>5. \A e \in events' : e.kind = "deleted" => stripe.status = "canceled"
  BY <1>1 DEF Since
<1>6. Since(c)'
  BY <1>1, <1>2, <1>4, <1>5, Unwritten
<1> QED
  BY <1>3, <1>6

\* The read before the suspension is lifted.
LEMMA ReadFirstKeeps ==
  ASSUME TypeOK, NEW c \in Int, Since(c), NEW w \in Workers, ReadFirst(w)
  PROVE  TypeOK' /\ Since(c)'
<1> DEFINE x == ReadAt(stripe, now)
           r == [workers[w] EXCEPT !.pc = "lift", !.sub = x]
<1>1. /\ UNCHANGED <<readable, faults, stripe, changes, events, now, clock, lic, ended, restores,
                     astray, said, repeated>>
      /\ workers[w].pc = "first"
  BY DEF ReadFirst
<1>2. workers[w] \in WorkerType /\ x \in ReadType /\ clock \in Nat /\ astray \in BOOLEAN
  BY Typed, Copied
<1>3. workers' = [workers EXCEPT ![w] = r]
  BY DEF ReadFirst, TypeOK
<1>4. /\ r \in WorkerType /\ r.pc = "lift" /\ r.sub = x /\ r.job = workers[w].job
      /\ r.stamp = workers[w].stamp /\ r.event = workers[w].event
  <2> HIDE DEF x
  <2> QED
    BY <1>2 DEF WorkerType
<1> HIDE DEF r
<1>5. workers'[w] = r
  BY <1>3, <1>4, Moves
<1>6. Knows(w, c)'
  <2>1. Current(w)' /\ (Early' => workers'[w].sub.status \notin {"unpaid", "canceled"})
    BY <1>1, <1>4, <1>5, ReadNow
  <2>2. Knows(w, c)
    BY DEF Since
  <2> QED
    BY <1>1, <1>4, <1>5, <2>1, <2>2 DEF Knows, Dating
<1>7. ~Carries(w, c) /\ ~Brings(w, c)
  BY <1>1 DEF Carries, Brings
<1>8. clock' \in Nat /\ clock <= clock' /\ astray' \in BOOLEAN /\ (astray => astray')
  BY <1>1, <1>2
<1> QED
  BY <1>1, <1>3, <1>4, <1>6, <1>7, <1>8, Goes

\* The read after it.
LEMMA ReadAgainKeeps ==
  ASSUME TypeOK, NEW c \in Int, Since(c), NEW w \in Workers, ReadAgain(w)
  PROVE  TypeOK' /\ Since(c)'
<1> DEFINE x == ReadAt(stripe, now)
           y == CopyOf(lic)
           r == [workers[w] EXCEPT !.pc = "sync", !.sub = x, !.copy = y]
<1>1. /\ UNCHANGED <<readable, faults, stripe, changes, events, now, clock, lic, ended, restores,
                     astray, said, repeated>>
      /\ workers[w].pc = "reread"
  BY DEF ReadAgain
<1>2. workers[w] \in WorkerType /\ x \in ReadType /\ y \in CopyType /\ clock \in Nat /\ astray \in BOOLEAN
  BY Typed, Copied
<1>3. workers' = [workers EXCEPT ![w] = r]
  BY DEF ReadAgain, TypeOK
<1>4. /\ r \in WorkerType /\ r.pc = "sync" /\ r.sub = x /\ r.job = workers[w].job
      /\ r.stamp = workers[w].stamp /\ r.event = workers[w].event
  <2> HIDE DEF x, y
  <2> QED
    BY <1>2 DEF WorkerType
<1> HIDE DEF r
<1>5. workers'[w] = r
  BY <1>3, <1>4, Moves
<1>6. Knows(w, c)'
  <2>1. Current(w)' /\ (Early' => workers'[w].sub.status \notin {"unpaid", "canceled"})
    BY <1>1, <1>4, <1>5, ReadNow
  <2>2. Knows(w, c)
    BY DEF Since
  <2> QED
    BY <1>1, <1>4, <1>5, <2>1, <2>2 DEF Knows, Dating
<1>7. (Carries(w, c) => Carries(w, c)') /\ (Brings(w, c) => Brings(w, c)')
  BY <1>1, <1>4, <1>5 DEF Carries, Brings
<1>8. clock' \in Nat /\ clock <= clock' /\ astray' \in BOOLEAN /\ (astray => astray')
  BY <1>1, <1>2
<1> QED
  BY <1>1, <1>3, <1>4, <1>6, <1>7, <1>8, Goes

\* The second read is stamped, or fails and the first stands in.
LEMMA FollowAgainKeeps ==
  ASSUME TypeOK, NEW c \in Int, Since(c), NEW w \in Workers, FollowAgain(w)
  PROVE  TypeOK' /\ Since(c)'
<1>1. /\ UNCHANGED <<readable, faults, stripe, changes, events, now, lic, ended, restores, said,
                     repeated>>
      /\ workers[w].pc = "again"
  BY DEF FollowAgain
<1>2. /\ workers[w] \in WorkerType /\ CopyOf(lic) \in CopyType /\ clock \in Nat /\ lic.synced \in Nat
      /\ c <= clock /\ lic.synced <= clock /\ astray \in BOOLEAN /\ Knows(w, c)
  BY Typed, Copied DEF Since, Row
<1>3. CASE Stamp /\ workers' = [workers EXCEPT ![w].pc = "reread", ![w].stamp = clock'] /\ UNCHANGED astray
  <2> DEFINE r == [workers[w] EXCEPT !.pc = "reread", !.stamp = clock']
  <2>1. clock' \in Nat /\ clock <= clock' /\ clock' > c /\ clock' >= lic.synced
    BY <1>2, <1>3 DEF Stamp
  <2>2. workers' = [workers EXCEPT ![w] = r]
    BY <1>3 DEF TypeOK
  <2>3. /\ r \in WorkerType /\ r.pc = "reread" /\ r.stamp = clock' /\ r.job = workers[w].job
        /\ r.event = workers[w].event
    BY <1>2, <2>1 DEF WorkerType, Stamps
  <2> HIDE DEF r
  <2>4. workers'[w] = r
    BY <2>2, <2>3, Moves
  <2>5. Knows(w, c)'
    BY <1>1, <1>2, <2>1, <2>3, <2>4 DEF Knows, Reads, Dating
  <2>6. (Carries(w, c) => Carries(w, c)') /\ (Brings(w, c) => Brings(w, c)')
    BY <1>1, <2>1, <2>3, <2>4 DEF Carries, Brings
  <2>7. astray' \in BOOLEAN /\ (astray => astray')
    BY <1>2, <1>3
  <2> QED
    BY <1>1, <2>1, <2>2, <2>3, <2>5, <2>6, <2>7, Goes
<1>4. CASE workers' = [workers EXCEPT ![w].pc = "sync", ![w].copy = CopyOf(lic)] /\ astray' = TRUE
           /\ UNCHANGED clock
  <2> DEFINE y == CopyOf(lic)
             r == [workers[w] EXCEPT !.pc = "sync", !.copy = y]
  <2>1. clock' \in Nat /\ clock <= clock'
    BY <1>2, <1>4
  <2>2. workers' = [workers EXCEPT ![w] = r]
    BY <1>4 DEF TypeOK
  <2>3. /\ r \in WorkerType /\ r.pc = "sync" /\ r.sub = workers[w].sub /\ r.job = workers[w].job
        /\ r.stamp = workers[w].stamp /\ r.event = workers[w].event
    <3> HIDE DEF y
    <3>1. y \in CopyType
      BY <1>2 DEF y
    <3> QED
      BY <1>2, <3>1 DEF WorkerType
  <2> HIDE DEF r
  <2>4. workers'[w] = r
    BY <2>2, <2>3, Moves
  <2>5. Knows(w, c)'
    BY <1>1, <1>2, <1>4, <2>3, <2>4 DEF Knows, Reads, Dating, Current, Early
  <2>6. astray' \in BOOLEAN /\ astray'
    BY <1>4
  <2> QED
    BY <1>1, <2>1, <2>2, <2>3, <2>5, <2>6, Goes
<1> QED
  BY <1>3, <1>4 DEF FollowAgain

\* Unlinking begins once Stripe says the subscription ended.
LEMMA AskEndedKeeps ==
  ASSUME TypeOK, NEW c \in Int, Since(c), NEW w \in Workers, AskEnded(w)
  PROVE  TypeOK' /\ Since(c)'
<1> DEFINE r == [Idle EXCEPT !.pc = "clear", !.job = "unlink"]
<1>1. /\ UNCHANGED <<readable, faults, stripe, changes, events, now, clock, lic, ended, restores,
                     astray, said, repeated>>
      /\ workers[w].pc = "idle" /\ workers' = [workers EXCEPT ![w] = r]
  BY DEF AskEnded
<1>2. Idle \in WorkerType /\ clock \in Nat /\ astray \in BOOLEAN
  BY Typed, Constants
<1>3. r \in WorkerType /\ r.pc = "clear" /\ r.job = "unlink" /\ r.stamp = Idle.stamp /\ r.event = Idle.event
  BY <1>2 DEF WorkerType, Jobs
<1> HIDE DEF r
<1>4. workers'[w] = r
  BY <1>1, <1>3, Moves
<1>5. clock' \in Nat /\ clock <= clock' /\ astray' \in BOOLEAN /\ (astray => astray')
  BY <1>1, <1>2
<1>6. Knows(w, c)' /\ ~Carries(w, c) /\ ~Brings(w, c)
  BY <1>1, <1>3, <1>4, <1>5, AtRest DEF Knows, Reads, Dating, Carries, Brings
<1> QED
  BY <1>1, <1>3, <1>5, <1>6, Goes

\* The portal's cancel now.
LEMMA CancelNowKeeps ==
  ASSUME TypeOK, NEW c \in Int, Since(c), NEW w \in Workers, CancelNow(w)
  PROVE  TypeOK' /\ \E d \in Int : Since(d)'
BY EndsKeeps DEF CancelNow

\* An operator's refund, or one made in Stripe.
LEMMA RefundLicenseKeeps ==
  ASSUME TypeOK, NEW c \in Int, Since(c), NEW w \in Workers, RefundLicense(w)
  PROVE  TypeOK' /\ \E d \in Int : Since(d)'
<1>1. PICK job \in {"refund", "takeBack"} : Begin(w, job, "revoke", FALSE)
  BY DEF RefundLicense
<1> QED
  BY <1>1, EndsKeeps DEF RefundLicense

-----------------------------------------------------------------------------
(* The writes. *)

\* What is told has its type.
LEMMA TellTypes ==
  ASSUME TypeOK, NEW news \in {"", "suspended", "reinstated", "canceled", "expired", "revoked"},
         Tell(news)
  PROVE  /\ said' \in {"", "suspended", "reinstated", "canceled", "expired", "revoked"}
         /\ repeated' \in BOOLEAN
BY DEF TypeOK, Tell

\* And what a write's turn calls for.
LEMMA NewsTypes ==
  ASSUME NEW row, NEW to
  PROVE  News(row, to) \in {"", "suspended", "reinstated", "canceled", "expired", "revoked"}
<1>1. CASE to = "suspended" /\ ~Paused(row)
  BY <1>1 DEF News, Usable
<1>2. CASE to \in Usable /\ (Paused(row) \/ row.status \in {"canceled", "expired"})
  BY <1>2 DEF News, Usable
<1>3. CASE to = "canceled" /\ row.status # "canceled"
  BY <1>3 DEF News, Usable
<1>4. CASE /\ ~(to = "suspended" /\ ~Paused(row))
           /\ ~(to \in Usable /\ (Paused(row) \/ row.status \in {"canceled", "expired"}))
           /\ ~(to = "canceled" /\ row.status # "canceled")
  BY <1>4 DEF News
<1> QED
  BY <1>1, <1>2, <1>3, <1>4

\* What an operator gave back is counted in the naturals.
LEMMA Counts ==
  ASSUME TypeOK, restores' = restores \/ restores' = restores + 1
  PROVE  restores' \in Nat
<1>1. restores \in Nat
  BY DEF TypeOK
<1>2. restores + 1 \in Nat
  BY <1>1
<1> QED
  BY <1>1, <1>2, Zenon

\* A write leaves the types, where the row and what is told have theirs.
LEMMA WroteTypes ==
  ASSUME TypeOK, lic' \in LicType, workers' \in [Workers -> WorkerType],
         UNCHANGED <<readable, faults, stripe, changes, events, now, clock, astray>>,
         ended' \in BOOLEAN, restores' = restores \/ restores' = restores + 1, repeated' \in BOOLEAN,
         said' \in {"", "suspended", "reinstated", "canceled", "expired", "revoked"}
  PROVE  TypeOK'
<1>1. restores' \in Nat
  BY Counts
<1> QED
  BY <1>1 DEF TypeOK

\* Which row a write of a read leaves, and what is known of it.
LEMMA WriteReadRow ==
  ASSUME TypeOK, NEW c \in Int, Since(c), NEW w \in Workers, WriteRead(w)
  PROVE  LET at == workers[w].stamp  to == StatusFor(workers[w].sub.status) IN
         /\ lic' \in LicType /\ lic'.linked = lic.linked
         /\ lic'.ending = lic.ending /\ lic'.endingAt = lic.endingAt
         /\ Lands(lic, to, at) =>
              /\ lic'.status = to /\ lic'.synced = at
              /\ to \in Usable => lic'.by = "" /\ lic'.until = workers[w].sub.period
              /\ to = "suspended" => lic'.by = "stripe"
              /\ to = "canceled" => lic'.by = IF Paused(lic) THEN "" ELSE lic.by
              /\ Tell(News(lic, to))
         /\ ~Lands(lic, to, at) =>
              /\ lic'.status = lic.status /\ lic'.by = lic.by /\ lic'.until = lic.until
              /\ lic'.synced = (IF lic.linked /\ NotStale(lic, at) /\ to \in Usable THEN at ELSE lic.synced)
              /\ UNCHANGED <<said, repeated>>
<1> DEFINE at == workers[w].stamp  to == StatusFor(workers[w].sub.status)
           copy == workers[w].copy  s == workers[w].sub
<1>1. lic \in LicType /\ copy \in CopyType /\ s \in ReadType /\ at \in Stamps /\ now \in Periods \ {0}
  BY Typed DEF TypeOK, Stamps
<1>2. at # NoStamp
  BY <1>1 DEF NoStamp, Stamps
<1>3. CASE Lands(lic, to, at)
  <2>1. lic' = Written(lic, copy, s, at, now) /\ Tell(News(lic, to))
    BY <1>3 DEF WriteRead, NewsFromRow
  <2> HIDE DEF copy, s
  <2>2. IsWritten(Written(lic, copy, s, at, now), lic, s, at)
    BY <1>1, WrittenType
  <2>3. IsWritten(lic', lic, s, at)
    BY <2>1, <2>2
  <2> QED
    BY <1>2, <1>3, <2>1, <2>3 DEF s, IsWritten
<1>4. CASE ~Lands(lic, to, at)
  <2>1. /\ UNCHANGED <<said, repeated>>
        /\ lic' = IF lic.linked /\ NotStale(lic, at) /\ to \in Usable
                  THEN [lic EXCEPT !.synced = at] ELSE lic
    BY <1>4 DEF WriteRead
  <2>2. CASE lic.linked /\ NotStale(lic, at) /\ to \in Usable
    <3>1. /\ [lic EXCEPT !.synced = at] \in LicType
          /\ [lic EXCEPT !.synced = at].status = lic.status /\ [lic EXCEPT !.synced = at].by = lic.by
          /\ [lic EXCEPT !.synced = at].linked = lic.linked /\ [lic EXCEPT !.synced = at].synced = at
          /\ [lic EXCEPT !.synced = at].until = lic.until /\ [lic EXCEPT !.synced = at].ending = lic.ending
          /\ [lic EXCEPT !.synced = at].endingAt = lic.endingAt
      BY <1>1 DEF LicType
    <3> QED
      BY <1>4, <2>1, <2>2, <3>1
  <2>3. CASE ~(lic.linked /\ NotStale(lic, at) /\ to \in Usable)
    BY <1>1, <1>4, <2>1, <2>3
  <2> QED
    BY <2>2, <2>3
<1> QED
  BY <1>3, <1>4

\* A read is written: one made since the last change settles the status, and an
\* older one never lands on what is settled.
LEMMA WriteReadKeeps ==
  ASSUME TypeOK, NEW c \in Int, Since(c), NEW w \in Workers, WriteRead(w)
  PROVE  TypeOK' /\ Since(c)'
<1>p. PICK at \in Nat, to \in Usable \cup {"suspended", "canceled"} :
        at = workers[w].stamp /\ to = StatusFor(workers[w].sub.status)
  <2>1. workers[w].stamp \in Nat /\ workers[w].sub \in ReadType
    BY Typed
  <2>2. StatusFor(workers[w].sub.status) \in Usable \cup {"suspended", "canceled"}
    BY <2>1 DEF ReadType, StripeStatuses, Usable, StatusFor
  <2> QED
    BY <2>1, <2>2
<1>1. /\ UNCHANGED <<readable, faults, stripe, changes, events, now, clock, ended, restores,
                     astray>>
      /\ readable /\ workers[w].pc = "write" /\ Done(w)
  BY DEF WriteRead
<1>2. /\ lic' \in LicType /\ lic'.linked = lic.linked
      /\ lic'.ending = lic.ending /\ lic'.endingAt = lic.endingAt
      /\ Lands(lic, to, at) =>
           /\ lic'.status = to /\ lic'.synced = at
           /\ to \in Usable => lic'.by = "" /\ lic'.until = workers[w].sub.period
           /\ to = "suspended" => lic'.by = "stripe"
           /\ to = "canceled" => lic'.by = IF Paused(lic) THEN "" ELSE lic.by
           /\ Tell(News(lic, to))
      /\ ~Lands(lic, to, at) =>
           /\ lic'.status = lic.status /\ lic'.by = lic.by /\ lic'.until = lic.until
           /\ lic'.synced = (IF lic.linked /\ NotStale(lic, at) /\ to \in Usable THEN at ELSE lic.synced)
           /\ UNCHANGED <<said, repeated>>
  BY <1>p, WriteReadRow
<1>3. /\ workers' \in [Workers -> WorkerType] /\ workers'[w] = Idle
      /\ \A v \in Workers : v # w => workers'[v] = workers[v]
  BY <1>1, Rests
<1>3a. /\ lic.status \in Statuses /\ lic.by \in {"", "admin", "stripe"} /\ lic.linked \in BOOLEAN
       /\ workers[w].sub \in ReadType /\ stripe.status \in StripeStatuses
  BY Typed
<1>4. /\ clock \in Nat /\ now \in Nat /\ lic.synced \in Nat /\ at <= clock /\ at # NoStamp
  <2>1. Knows(w, c)
    BY DEF Since
  <2>2. at <= clock
    BY <1>p, <2>1 DEF Knows
  <2>3. at # NoStamp
    BY DEF NoStamp
  <2> QED
    BY <2>2, <2>3, Typed
<1>5. to \in Usable \cup {"suspended", "canceled"}
  BY <1>p
<1>6. /\ at > c => Current(w)
      /\ Early => workers[w].sub.status \notin {"unpaid", "canceled"}
  BY <1>1, <1>p DEF Since, Knows, Reads
<1>7. Early => to # "canceled"
  BY <1>p, <1>4, <1>6 DEF StatusFor, ReadType, StripeStatuses, Usable
<1>8. NotStale(lic, at) = (lic.synced <= at)
  BY <1>4 DEF NotStale
<1>9. Lands(lic, to, at) => lic.linked /\ lic.synced <= at /\ Unrestricted(lic, to, TRUE)
  BY <1>4, <1>8 DEF Lands
<1>10. Row(c) /\ Said
  BY DEF Since
<1>11. lic'.synced \in Nat /\ lic'.synced <= clock /\ lic.synced <= lic'.synced
       /\ (lic'.synced = lic.synced \/ lic'.synced = at)
  <2>1. lic.synced <= clock
    BY <1>10 DEF Row
  <2>2. lic'.synced = lic.synced \/ (lic'.synced = at /\ lic.synced <= at)
    BY <1>2, <1>8, <1>9
  <2> QED
    BY <1>4, <2>1, <2>2
<1>12. Said'
  <2>1. CASE Lands(lic, to, at)
    BY <1>1, <1>2, <1>5, <1>9, <2>1, Tells
  <2>2. CASE ~Lands(lic, to, at)
    BY <1>1, <1>2, <1>10, <2>2 DEF Said
  <2> QED
    BY <2>1, <2>2
<1>13. TypeOK'
  <2>1. /\ said' \in {"", "suspended", "reinstated", "canceled", "expired", "revoked"}
        /\ repeated' \in BOOLEAN
    <3>1. CASE Lands(lic, to, at)
      BY <1>2, <3>1, NewsTypes, TellTypes
    <3>2. CASE ~Lands(lic, to, at)
      BY <1>2, <3>2, Typed
    <3> QED
      BY <3>1, <3>2
  <2>2. ended' \in BOOLEAN
    BY <1>1, Typed
  <2> QED
    BY <1>1, <1>2, <1>3, <2>1, <2>2, WroteTypes
<1>14. Row(c)'
  <2>1. ended => lic'.status \in {"canceled", "revoked"} /\ stripe.status = "canceled" /\ lic'.synced > c
    <3> SUFFICES ASSUME ended PROVE lic'.status \in {"canceled", "revoked"} 
                                  /\ stripe.status = "canceled" /\ lic'.synced > c
      OBVIOUS
    <3>1. lic.status \in {"canceled", "revoked"} /\ stripe.status = "canceled" /\ lic.synced > c
      BY <1>10 DEF Row
    <3>2. lic'.synced > c
      BY <1>4, <1>11, <3>1
    <3>3. CASE Lands(lic, to, at)
      <4>1. Current(w)
        BY <1>4, <1>6, <1>9, <3>1, <3>3
      <4>2. to = "canceled"
        BY <1>p, <3>1, <4>1 DEF Current, StatusFor
      <4> QED
        BY <1>2, <3>1, <3>2, <3>3, <4>2
    <3>4. CASE ~Lands(lic, to, at)
      BY <1>2, <3>1, <3>2, <3>4
    <3> QED
      BY <3>3, <3>4
  <2>2. /\ lic'.by = "admin" => lic'.status \in {"suspended", "canceled", "revoked"}
        /\ lic'.status = "suspended" => lic'.by \in {"admin", "stripe"}
        /\ Early => lic'.status # "canceled"
    <3>1. CASE Lands(lic, to, at)
      BY <1>2, <1>5, <1>7, <3>1 DEF Usable
    <3>2. CASE ~Lands(lic, to, at)
      BY <1>2, <1>10, <3>2 DEF Row
    <3> QED
      BY <3>1, <3>2
  <2>3. Early' = Early
    BY <1>1 DEF Early
  <2> QED
    BY <1>1, <1>2, <1>10, <1>11, <2>1, <2>2, <2>3 DEF Row
<1>15. StatusComes(c)'
  <2>1. Billed' => Billed
    <3>1. CASE Lands(lic, to, at)
      <4>1. lic.linked /\ lic.status # "revoked"
        BY <1>9, <3>1 DEF Unrestricted
      <4>2. OperatorHolds(lic) => to = "canceled"
        BY <1>5, <1>9, <3>1 DEF Unrestricted
      <4>3. OperatorHolds(lic) => OperatorHolds(lic')
        BY <1>2, <3>1, <4>2 DEF OperatorHolds, Paused
      <4> QED
        BY <1>1, <4>1, <4>3 DEF Billed
    <3>2. CASE ~Lands(lic, to, at)
      BY <1>1, <1>2, <3>2 DEF Billed, OperatorHolds
    <3> QED
      BY <3>1, <3>2
  <2>2. CASE at > c /\ Lands(lic, to, at)
    <3>1. /\ lic'.synced > c /\ lic'.status = to /\ to = StatusFor(stripe.status)
          /\ stripe.status \notin {"paused", "canceled"} => workers[w].sub.period = now
      BY <1>p, <1>2, <1>6, <2>2 DEF Current
    <3>2. to \in {"active", "trialing"} => lic'.until = now
      <4>1. to \in {"active", "trialing"} => stripe.status \notin {"paused", "canceled"} /\ to \in Usable
        BY <3>1 DEF StatusFor, Usable
      <4> QED
        BY <1>2, <2>2, <3>1, <4>1
    <3>3. to \in Shows(stripe.status)
      BY <3>1 DEF Shows, StatusFor
    <3>4. Settled(c)'
      BY <1>1, <1>4, <3>1, <3>2, <3>3 DEF Settled
    <3> QED
      BY <3>4 DEF StatusComes
  <2>3. CASE at > c /\ ~Lands(lic, to, at)
    <3> SUFFICES ASSUME Billed' PROVE StatusComes(c)'
      BY DEF StatusComes
    <3>1. Billed /\ lic.linked /\ lic.status # "revoked" /\ ~OperatorHolds(lic) 
      BY <2>1 DEF Billed
    <3>2. CASE ~(lic.synced <= at)
      <4>1. lic'.synced = lic.synced
        BY <1>2, <1>8, <2>3, <3>2
      <4>2. ~Carries(w, c)
        BY <1>p, <1>1, <1>4, <3>2 DEF Carries
      <4>3. Settled(c) => Settled(c)'
        BY <1>1, <1>2, <2>3, <4>1 DEF Settled
      <4> QED
        BY <1>1, <1>3, <1>11, <2>1, <4>1, <4>2, <4>3, StatusKept
    <3>3. CASE lic.synced <= at
      <4>1. ~Unrestricted(lic, to, TRUE)
        BY <1>4, <1>8, <2>3, <3>1, <3>3 DEF Lands
      <4>2. to = StatusFor(stripe.status)
        BY <1>p, <1>6, <2>3 DEF Current
      <4>3. ~(to = "suspended" /\ lic.status = "canceled")
        <5>1. to = "suspended" => stripe.status = "paused"
          BY <1>3a, <4>2 DEF StatusFor, StripeStatuses, Usable
        <5> QED
          BY <1>1, <1>10, <5>1 DEF Row, Early
      <4>4. to = "past_due" /\ lic.status = "expired"
        BY <1>5, <3>1, <4>1, <4>3 DEF Unrestricted, Usable
      <4>5. lic'.synced = at /\ lic'.status = "expired"
        BY <1>2, <1>8, <2>3, <3>1, <3>3, <4>4 DEF Usable
      <4>6. stripe.status = "past_due"
        BY <1>4, <4>2, <4>4 DEF StatusFor, StripeStatuses, Usable
      <4>7. Settled(c)'
        BY <1>1, <2>3, <4>5, <4>6 DEF Settled, Shows
      <4> QED
        BY <4>7 DEF StatusComes
    <3> QED
      BY <3>2, <3>3
  <2>4. CASE ~(at > c)
    <3>1. lic'.synced = lic.synced \/ lic'.synced <= c
      BY <1>4, <1>11, <2>4
    <3>2. ~Carries(w, c)
      BY <1>p, <1>1, <2>4 DEF Carries
    <3>3. Settled(c) => Settled(c)'
      <4> SUFFICES ASSUME Settled(c) PROVE Settled(c)'
        OBVIOUS
      <4>1. ~(lic.synced <= at)
        BY <1>4, <2>4 DEF Settled
      <4>2. ~Lands(lic, to, at) /\ ~NotStale(lic, at)
        BY <1>8, <4>1 DEF Lands
      <4> QED
        BY <1>1, <1>2, <4>2 DEF Settled
    <3> QED
      BY <1>1, <1>3, <1>11, <2>1, <3>1, <3>2, <3>3, StatusKept
  <2> QED
    BY <2>2, <2>3, <2>4
<1>16. EndingComes(c)'
  <2>1. ~Brings(w, c)
    BY <1>1 DEF Brings
  <2> QED
    BY <1>1, <1>2, <1>3, <2>1, EndingKept
<1>17. Knows(w, c)'
  <2>1. clock' \in Nat
    BY <1>1, <1>4
  <2> QED
    BY <1>3, <2>1, RestKnows
<1>18. Since(c)'
  BY <1>1, <1>3, <1>12, <1>14, <1>15, <1>16, <1>17, Wrote
<1> QED
  BY <1>13, <1>18

\* What a payload may write: the end, a licence given back, or a pause.
LEMMA PayloadKeeps ==
  ASSUME TypeOK, NEW c \in Int, Since(c), NEW w \in Workers, ~readable, Done(w),
         UNCHANGED <<readable, faults, stripe, changes, events, now, clock, ended, restores,
                     astray>>,
         lic' \in LicType, repeated' \in BOOLEAN,
         said' \in {"", "suspended", "reinstated", "canceled", "expired", "revoked"},
         lic'.synced = lic.synced, lic'.endingAt = lic.endingAt,
         \/ lic'.status = lic.status /\ lic'.by = lic.by
         \/ lic'.status = "canceled" /\ lic.status # "revoked"
         \/ lic'.status \in Usable /\ lic'.by # "admin" /\ lic.status \notin {"canceled", "revoked"}
         \/ lic'.status = "suspended" /\ lic'.by = "stripe" /\ lic.status \notin {"canceled", "revoked"}
  PROVE  TypeOK' /\ Since(c)'
<1>1. /\ workers' \in [Workers -> WorkerType] /\ workers'[w] = Idle
      /\ \A v \in Workers : v # w => workers'[v] = workers[v]
  BY Rests
<1>2. ended' \in BOOLEAN /\ ended' = ended /\ clock' \in Nat
  BY Typed
<1>3. TypeOK'
  BY <1>1, <1>2, WroteTypes
<1>4. Said' /\ StatusComes(c)' /\ EndingComes(c)'
  BY DEF Said, StatusComes, EndingComes
<1>5. Row(c)'
  <2>1. Row(c)
    BY DEF Since
  <2>2. ended => lic'.status \in {"canceled", "revoked"}
    BY <2>1 DEF Row
  <2>3. lic'.by = "admin" => lic'.status \in {"suspended", "canceled", "revoked"}
    BY <2>1 DEF Row
  <2>4. lic'.status = "suspended" => lic'.by \in {"admin", "stripe"}
    BY <2>1 DEF Row, Usable
  <2> QED
    BY <2>1, <2>2, <2>3, <2>4 DEF Row, Early
<1>6. Knows(w, c)'
  BY <1>1, <1>2, RestKnows
<1>7. Since(c)'
  BY <1>1, <1>4, <1>5, <1>6, Wrote
<1> QED
  BY <1>3, <1>7

\* What a payload is allowed.
LEMMA Allowed ==
  ASSUME TypeOK, NEW c \in Int, Since(c), NEW to, Lands(lic, to, NoStamp)
  PROVE  /\ lic.status # "revoked"
         /\ to \in Usable => lic.status # "canceled" /\ lic.by # "admin"
         /\ to = "suspended" => lic.status # "canceled"
BY DEF Lands, Unrestricted, Since, Row, OperatorHolds

\* An update's payload is written.
LEMMA WritePayloadKeeps ==
  ASSUME TypeOK, NEW c \in Int, Since(c), NEW w \in Workers, WritePayload(w)
  PROVE  TypeOK' /\ Since(c)'
<1> DEFINE s == workers[w].sub  to == StatusFor(s.status)  copy == workers[w].copy
<1>1. /\ UNCHANGED <<readable, faults, stripe, changes, events, now, clock, ended, restores,
                     astray>>
      /\ ~readable /\ Done(w)
      /\ IF Lands(lic, to, NoStamp)
         THEN lic' = Written(lic, copy, s, NoStamp, now) /\ Tell(News(lic, to))
         ELSE UNCHANGED <<lic, said, repeated>>
  BY DEF WritePayload, NewsFromRow
<1>2. lic \in LicType /\ s \in ReadType /\ copy \in CopyType /\ now \in Periods \ {0}
  BY Typed DEF TypeOK
<1>3. CASE Lands(lic, to, NoStamp)
  <2>1. IsWritten(Written(lic, copy, s, NoStamp, now), lic, s, NoStamp)
    BY <1>2, WrittenType
  <2>2. IsWritten(lic', lic, s, NoStamp) /\ Tell(News(lic, to))
    BY <1>1, <1>3, <2>1
  <2>3. /\ lic' \in LicType /\ lic'.synced = lic.synced /\ lic'.endingAt = lic.endingAt
        /\ lic'.status = to /\ to \in Usable \cup {"suspended", "canceled"}
        /\ to \in Usable => lic'.by = ""
        /\ to = "suspended" => lic'.by = "stripe"
    BY <2>2 DEF IsWritten
  <2>4. /\ lic.status # "revoked"
        /\ to \in Usable => lic.status # "canceled"
        /\ to = "suspended" => lic.status # "canceled"
    BY <1>3, Allowed
  <2>5. /\ said' \in {"", "suspended", "reinstated", "canceled", "expired", "revoked"}
        /\ repeated' \in BOOLEAN
    BY <2>2, NewsTypes, TellTypes
  <2> QED
    BY <1>1, <2>3, <2>4, <2>5, PayloadKeeps
<1>4. CASE ~Lands(lic, to, NoStamp)
  <2>1. lic' = lic /\ said' = said /\ repeated' = repeated
    BY <1>1, <1>4
  <2> QED
    BY <1>1, <1>2, <2>1, Typed, PayloadKeeps
<1> QED
  BY <1>3, <1>4

\* A paid invoice's payload is written.
LEMMA WritePaidKeeps ==
  ASSUME TypeOK, NEW c \in Int, Since(c), NEW w \in Workers, WritePaid(w)
  PROVE  TypeOK' /\ Since(c)'
<1> DEFINE copy == workers[w].copy
           until == IF workers[w].sub.period > copy.until THEN workers[w].sub.period ELSE copy.until
<1>1. /\ UNCHANGED <<readable, faults, stripe, changes, events, now, clock, ended, restores,
                     astray>>
      /\ ~readable /\ Done(w)
  BY DEF WritePaid
<1>2. lic \in LicType /\ until \in Periods
  BY Typed DEF TypeOK, ReadType, CopyType
<1>3. \/ UNCHANGED <<lic, said, repeated>>
      \/ /\ Lands(lic, "active", NoStamp)
         /\ lic' = [lic EXCEPT !.status = "active", !.by = "", !.pastDue = FALSE, !.until = until]
         /\ Tell(News(lic, "active"))
      \/ lic' = [lic EXCEPT !.until = until] /\ UNCHANGED <<said, repeated>>
  BY DEF WritePaid, NewsFromRow
<1> HIDE DEF until
<1>4. CASE UNCHANGED <<lic, said, repeated>>
  BY <1>1, <1>2, <1>4, Typed, PayloadKeeps
<1>5. CASE /\ Lands(lic, "active", NoStamp)
           /\ lic' = [lic EXCEPT !.status = "active", !.by = "", !.pastDue = FALSE, !.until = until]
           /\ Tell(News(lic, "active"))
  <2>1. /\ lic' \in LicType /\ lic'.status = "active" /\ lic'.by = ""
        /\ lic'.synced = lic.synced /\ lic'.endingAt = lic.endingAt
    BY <1>2, <1>5 DEF LicType, Statuses, Usable
  <2>2. "active" \in Usable
    BY DEF Usable
  <2>3. lic.status \notin {"revoked", "canceled"}
    BY <1>5, <2>2, Allowed
  <2>4. /\ said' \in {"", "suspended", "reinstated", "canceled", "expired", "revoked"}
        /\ repeated' \in BOOLEAN
    BY <1>5, NewsTypes, TellTypes
  <2> QED
    BY <1>1, <2>1, <2>2, <2>3, <2>4, PayloadKeeps
<1>6. CASE lic' = [lic EXCEPT !.until = until] /\ UNCHANGED <<said, repeated>>
  <2>1. /\ lic' \in LicType /\ lic'.status = lic.status /\ lic'.by = lic.by
        /\ lic'.synced = lic.synced /\ lic'.endingAt = lic.endingAt
    BY <1>2, <1>6 DEF LicType
  <2> QED
    BY <1>1, <1>6, <2>1, Typed, PayloadKeeps
<1> QED
  BY <1>3, <1>4, <1>5, <1>6

\* A failed invoice's payload is written.
LEMMA WriteFailedKeeps ==
  ASSUME TypeOK, NEW c \in Int, Since(c), NEW w \in Workers, WriteFailed(w)
  PROVE  TypeOK' /\ Since(c)'
<1>1. /\ UNCHANGED <<readable, faults, stripe, changes, events, now, clock, ended, restores,
                     astray, said, repeated>>
      /\ ~readable /\ Done(w)
      /\ \/ UNCHANGED lic
         \/ Lands(lic, "past_due", NoStamp) /\ lic' = [lic EXCEPT !.status = "past_due", !.pastDue = TRUE]
  BY DEF WriteFailed
<1>2. lic \in LicType
  BY DEF TypeOK
<1>3. CASE UNCHANGED lic
  BY <1>1, <1>2, <1>3, Typed, PayloadKeeps
<1>4. CASE Lands(lic, "past_due", NoStamp) /\ lic' = [lic EXCEPT !.status = "past_due", !.pastDue = TRUE]
  <2>1. /\ lic' \in LicType /\ lic'.status = "past_due" /\ lic'.by = lic.by
        /\ lic'.synced = lic.synced /\ lic'.endingAt = lic.endingAt
    BY <1>2, <1>4 DEF LicType, Statuses, Usable
  <2>2. "past_due" \in Usable
    BY DEF Usable
  <2>3. lic.status \notin {"revoked", "canceled"} /\ lic.by # "admin"
    BY <1>4, <2>2, Allowed
  <2> QED
    BY <1>1, <2>1, <2>2, <2>3, Typed, PayloadKeeps
<1> QED
  BY <1>1, <1>3, <1>4

\* The end of the subscription is written: canceled, with a stamp of its own.
LEMMA WriteEndKeeps ==
  ASSUME TypeOK, NEW c \in Int, Since(c), NEW w \in Workers, WriteEnd(w)
  PROVE  TypeOK' /\ Since(c)'
<1>1. /\ UNCHANGED <<readable, faults, stripe, changes, events, now, clock, restores, astray>>
      /\ workers[w].pc = "end" /\ Done(w)
  BY DEF WriteEnd
<1>2. /\ workers' \in [Workers -> WorkerType] /\ workers'[w] = Idle
      /\ \A v \in Workers : v # w => workers'[v] = workers[v]
  BY <1>1, Rests
<1>3. Knows(w, c) /\ stripe.status = "canceled" /\ workers[w].stamp > c /\ workers[w].stamp <= clock
      /\ Row(c) /\ Said
  BY <1>1 DEF Since, Knows
<1>4. clock' \in Nat /\ clock \in Nat /\ workers[w].stamp \in Nat /\ lic.synced \in Nat /\ lic.synced <= clock
  BY <1>1, <1>3, Typed DEF Row
<1>5. Knows(w, c)'
  BY <1>2, <1>4, RestKnows
<1>6. EndingComes(c)'
  <2>1. stripe'.status = "canceled"
    BY <1>1, <1>3
  <2> QED
    BY <2>1 DEF EndingComes
<1>7. CASE ~(lic.linked /\ lic.status # "revoked")
  <2>1. UNCHANGED <<lic, said, repeated, ended>>
    BY <1>7 DEF WriteEnd
  <2>2. TypeOK'
    <3>1. lic' \in LicType /\ ended' \in BOOLEAN /\ repeated' \in BOOLEAN
          /\ said' \in {"", "suspended", "reinstated", "canceled", "expired", "revoked"}
      BY <2>1 DEF TypeOK
    <3> QED
      BY <1>1, <1>2, <3>1, WroteTypes
  <2>3. Row(c)' /\ Said'
    BY <1>1, <1>3, <2>1 DEF Row, Said, Early
  <2>4. StatusComes(c)'
    BY <1>7, <2>1 DEF StatusComes, Billed
  <2>5. Since(c)'
    BY <1>1, <1>2, <1>5, <1>6, <2>3, <2>4, Wrote
  <2> QED
    BY <2>2, <2>5
<1>8. CASE lic.linked /\ lic.status # "revoked"
  <2> DEFINE u == EndAccess(lic, workers[w].copy, now)
             t == EndedStamp(lic, workers[w].stamp)
             b == IF Paused(lic) THEN "" ELSE lic.by
             r == [lic EXCEPT !.status = "canceled", !.by = b, !.pastDue = FALSE, !.until = u, !.synced = t]
  <2>1. lic' = r /\ Tell(News(lic, "canceled")) /\ ended' = TRUE
    BY <1>8 DEF WriteEnd, NewsFromRow
  <2>2. u \in Periods
    <3>1. lic \in LicType /\ workers[w].copy \in CopyType /\ NoRead \in ReadType /\ now \in Periods \ {0}
          /\ 0 \in Stamps \cup {NoStamp}
      BY Typed, Constants DEF TypeOK, Stamps
    <3> QED
      BY <3>1, WrittenType
  <2>3. t \in Nat /\ t > c /\ t <= clock
    BY <1>3, <1>4 DEF EndedStamp
  <2> HIDE DEF u, t
  <2>4. lic \in LicType /\ b \in {"", "admin", "stripe"} /\ b \in {"", lic.by}
    BY Typed DEF TypeOK
  <2> HIDE DEF b
  <2>5. /\ r \in LicType /\ r.status = "canceled" /\ r.by = b /\ r.synced = t
        /\ r.endingAt = lic.endingAt /\ r.ending = lic.ending
    BY <2>2, <2>3, <2>4 DEF LicType, Statuses, Usable, Stamps
  <2> HIDE DEF r
  <2>6. TypeOK'
    <3>1. /\ said' \in {"", "suspended", "reinstated", "canceled", "expired", "revoked"}
          /\ repeated' \in BOOLEAN
      BY <2>1, NewsTypes, TellTypes
    <3>2. ended' \in BOOLEAN /\ lic' \in LicType
      BY <2>1, <2>5
    <3> QED
      BY <1>1, <1>2, <3>1, <3>2, WroteTypes
  <2>7. Row(c)'
    <3>1. lic'.synced > c /\ lic'.synced <= clock' 
      BY <1>1, <2>1, <2>3, <2>5
    <3>2. stripe'.status = "canceled" /\ lic'.status = "canceled" /\ ~Early'
      BY <1>1, <1>3, <2>1, <2>5 DEF Early
    <3>3. lic'.endingAt <= clock' /\ (readable' /\ lic'.endingAt > c => lic'.ending = stripe'.ending)
      BY <1>1, <1>3, <2>1, <2>5 DEF Row
    <3> QED
      BY <3>1, <3>2, <3>3 DEF Row
  <2>8. Said'
    <3>1. Unrestricted(lic, "canceled", TRUE)
      BY <1>8 DEF Unrestricted, Usable
    <3> QED
      BY <1>1, <2>1, <2>5, <3>1, Tells
  <2>9. StatusComes(c)'
    <3>1. lic'.synced > c /\ lic'.status = "canceled" /\ stripe'.status = "canceled"
      BY <1>1, <1>3, <2>1, <2>3, <2>5
    <3>2. "canceled" \in Shows("canceled")
      BY DEF Shows, StatusFor
    <3>3. Settled(c)'
      BY <3>1, <3>2 DEF Settled
    <3> QED
      BY <3>3 DEF StatusComes
  <2>10. Since(c)'
    BY <1>1, <1>2, <1>5, <1>6, <2>7, <2>8, <2>9, Wrote
  <2> QED
    BY <2>6, <2>10
<1> QED
  BY <1>7, <1>8

\* Whether the subscription renews is noted: the newest read wins.
LEMMA SyncEndingKeeps ==
  ASSUME TypeOK, NEW c \in Int, Since(c), NEW w \in Workers, SyncEnding(w)
  PROVE  TypeOK' /\ Since(c)'
<1> DEFINE e == workers[w].sub.ending  t == workers[w].stamp
           r == [lic EXCEPT !.ending = e, !.endingAt = t]
<1>1. /\ UNCHANGED <<readable, faults, stripe, changes, events, now, clock, ended, restores,
                     astray, said, repeated>>
      /\ workers[w].pc = "sync"
      /\ lic' = IF lic.endingAt < t THEN r ELSE lic
      /\ IF workers[w].job = "cancelEnd" THEN Done(w) ELSE Step(w, "write")
  BY DEF SyncEnding, NoteEnding
<1>2. /\ clock \in Nat /\ t \in Nat /\ lic.endingAt \in Nat /\ lic.synced \in Nat 
  BY Typed
<1>3. Knows(w, c) /\ Row(c) /\ Said
  BY DEF Since
<1>4. /\ workers' \in [Workers -> WorkerType]
      /\ workers[w].job = "cancelEnd" => workers'[w] = Idle
      /\ workers[w].job # "cancelEnd" =>
           /\ workers'[w].pc = "write" /\ workers'[w].job = workers[w].job
           /\ workers'[w].event = workers[w].event
           /\ workers'[w].stamp = workers[w].stamp /\ workers'[w].sub = workers[w].sub
      /\ \A v \in Workers : v # w => workers'[v] = workers[v]
  BY <1>1, Rests, Steps
<1>5. lic \in LicType /\ e \in BOOLEAN /\ t \in Stamps
  BY <1>2, Typed DEF TypeOK, ReadType, Stamps
<1> HIDE DEF e, t
<1>6. /\ r \in LicType /\ r.status = lic.status /\ r.by = lic.by /\ r.linked = lic.linked
      /\ r.synced = lic.synced /\ r.until = lic.until /\ r.ending = e /\ r.endingAt = t
  BY <1>5 DEF LicType
<1> HIDE DEF r
<1>7. /\ lic' \in LicType /\ lic'.status = lic.status /\ lic'.by = lic.by /\ lic'.linked = lic.linked
      /\ lic'.synced = lic.synced /\ lic'.until = lic.until
      /\ \/ lic.endingAt < t /\ lic'.ending = e /\ lic'.endingAt = t
         \/ ~(lic.endingAt < t) /\ lic'.ending = lic.ending /\ lic'.endingAt = lic.endingAt
  BY <1>1, <1>5, <1>6
<1>8. TypeOK'
  <2>1. ended' \in BOOLEAN /\ repeated' \in BOOLEAN
        /\ said' \in {"", "suspended", "reinstated", "canceled", "expired", "revoked"}
    BY <1>1 DEF TypeOK
  <2> QED
    BY <1>1, <1>4, <1>7, <2>1, WroteTypes
<1>9. Knows(w, c)'
  <2>1. clock' \in Nat
    BY <1>1, <1>2
  <2>2. CASE workers[w].job = "cancelEnd"
    BY <1>4, <2>1, <2>2, RestKnows
  <2>3. CASE workers[w].job # "cancelEnd"
    BY <1>1, <1>3, <1>4, <2>3 DEF Knows, Reads, Dating, Current, Early
  <2> QED
    BY <2>2, <2>3
<1>10. t <= clock /\ (t > c => workers[w].job # "cancelEnd")
       /\ (readable /\ t > c => e = stripe.ending)
  <2>1. t <= clock
    BY <1>3 DEF Knows, t
  <2>2. t > c => workers[w].job # "cancelEnd"
    <3>1. workers[w].job = "cancelEnd" => t <= c
      BY <1>1, <1>3 DEF Knows, Dating, t
    <3> QED
      BY <1>2, <3>1
  <2>3. readable /\ t > c => e = stripe.ending
    BY <1>1, <1>3, <2>2 DEF Knows, Reads, Current, t, e
  <2> QED
    BY <2>1, <2>2, <2>3
<1>11. Row(c)'
  <2>1. lic'.endingAt <= clock
    <3>1. lic.endingAt <= clock
      BY <1>3 DEF Row
    <3> QED
      BY <1>7, <1>10, <3>1
  <2>2. readable /\ lic'.endingAt > c => lic'.ending = stripe.ending
    BY <1>3, <1>7, <1>10 DEF Row
  <2>3. Early' = Early
    BY <1>1 DEF Early
  <2> QED
    BY <1>1, <1>3, <1>7, <2>1, <2>2, <2>3 DEF Row
<1>12. Said'
  BY <1>1, <1>3, <1>7 DEF Said
<1>13. StatusComes(c)'
  <2>1. (Billed' => Billed) /\ (Settled(c) => Settled(c)')
    BY <1>1, <1>7 DEF Billed, OperatorHolds, Settled
  <2>2. Carries(w, c) => Carries(w, c)'
    <3>1. Carries(w, c) => workers[w].job # "cancelEnd"
      BY DEF Carries
    <3> QED
      BY <1>1, <1>4, <1>7, <3>1 DEF Carries
  <2>3. lic'.synced \in Nat
    BY <1>2, <1>7
  <2> QED
    BY <1>1, <1>4, <1>7, <2>1, <2>2, <2>3, StatusKept
<1>14. EndingComes(c)'
  <2> SUFFICES ASSUME readable, lic.linked, ~astray, ~(lic'.endingAt > c), events = {}, 
                      stripe.status # "canceled"
               PROVE  \E v \in Workers : Brings(v, c)'
    BY <1>1, <1>7 DEF EndingComes
  <2>1. ~(lic.endingAt > c) /\ ~(t > c)
    BY <1>2, <1>7
  <2>2. PICK v \in Workers : Brings(v, c)
    BY <2>1 DEF Since, EndingComes
  <2>3. v # w
    BY <1>1, <2>1, <2>2 DEF Brings, t
  <2> QED
    BY <1>4, <2>2, <2>3 DEF Brings
<1>15. Since(c)'
  BY <1>1, <1>4, <1>9, <1>11, <1>12, <1>13, <1>14, Wrote
<1> QED
  BY <1>8, <1>15

\* The date of an end at the period's end is written: its stamp is from before
\* Stripe was asked, so it never lands on what was settled since.
LEMMA WriteDateKeeps ==
  ASSUME TypeOK, NEW c \in Int, Since(c), NEW w \in Workers, WriteDate(w)
  PROVE  TypeOK' /\ Since(c)'
<1> DEFINE at == workers[w].stamp
           row == [lic EXCEPT !.until = now, !.synced = at]
           x == [workers[w].sub EXCEPT !.ending = TRUE]
           r == [workers[w] EXCEPT !.pc = "sync", !.sub = x]
<1>1. /\ UNCHANGED <<readable, faults, stripe, changes, events, now, clock, ended, restores,
                     astray, said, repeated>>
      /\ workers[w].pc = "date"
      /\ lic' = IF /\ Lands(lic, workers[w].copy.status, at)
                   /\ lic.status \notin {"canceled", "expired"}
                THEN row ELSE lic
  BY DEF WriteDate
<1>2. workers[w] \in WorkerType /\ workers[w].sub \in ReadType
  BY Typed
<1>3. x \in ReadType
  BY <1>2 DEF ReadType
<1>4. workers' = [workers EXCEPT ![w] = r]
  BY <1>2 DEF WriteDate, TypeOK, WorkerType
<1> HIDE DEF x
<1>5. /\ r \in WorkerType /\ r.pc = "sync" /\ r.job = workers[w].job
      /\ r.stamp = workers[w].stamp /\ r.event = workers[w].event
  BY <1>2, <1>3 DEF WorkerType
<1> HIDE DEF r
<1>6. /\ workers' \in [Workers -> WorkerType] /\ workers'[w] = r
      /\ \A v \in Workers : v # w => workers'[v] = workers[v]
  BY <1>4, <1>5, Moves
<1>7. /\ clock \in Nat /\ at \in Nat /\ lic.synced \in Nat /\ at # NoStamp
  <2>1. clock \in Nat /\ at \in Nat /\ lic.synced \in Nat
    BY Typed
  <2> QED
    BY <2>1 DEF NoStamp
<1>8. Knows(w, c) /\ workers[w].job = "cancelEnd" /\ at <= c /\ at <= clock /\ Row(c) /\ Said
  BY <1>1 DEF Since, Knows, Dating
<1>9. lic \in LicType /\ now \in Periods /\ at \in Stamps
  BY <1>7 DEF TypeOK, Stamps
<1> HIDE DEF at
<1>10. /\ row \in LicType /\ row.status = lic.status /\ row.by = lic.by /\ row.linked = lic.linked
       /\ row.synced = at /\ row.ending = lic.ending /\ row.endingAt = lic.endingAt
  BY <1>9 DEF LicType
<1> HIDE DEF row
<1>11. /\ lic' \in LicType /\ lic'.status = lic.status /\ lic'.by = lic.by /\ lic'.linked = lic.linked
       /\ lic'.ending = lic.ending /\ lic'.endingAt = lic.endingAt
       /\ lic' = lic \/ (lic'.synced = at /\ lic.synced <= at)
  BY <1>1, <1>7, <1>9, <1>10 DEF Lands, NotStale
<1>12. TypeOK'
  <2>1. ended' \in BOOLEAN /\ repeated' \in BOOLEAN
        /\ said' \in {"", "suspended", "reinstated", "canceled", "expired", "revoked"}
    BY <1>1 DEF TypeOK
  <2> QED
    BY <1>1, <1>6, <1>11, <2>1, WroteTypes
<1>13. Knows(w, c)'
  BY <1>1, <1>5, <1>6, <1>8 DEF Knows, Reads, Dating, at
<1>14. lic'.synced > c => lic' = lic
  BY <1>7, <1>8, <1>11
<1>15. lic.synced > c => lic' = lic
  BY <1>7, <1>8, <1>11
<1>16. Row(c)'
  <2>1. ended => lic'.status \in {"canceled", "revoked"} /\ stripe.status = "canceled" /\ lic'.synced > c
    BY <1>8, <1>15 DEF Row
  <2>2. lic'.synced <= clock
    BY <1>8, <1>11 DEF Row
  <2>3. Early' = Early
    BY <1>1 DEF Early
  <2> QED
    BY <1>1, <1>8, <1>11, <2>1, <2>2, <2>3 DEF Row
<1>17. Said'
  BY <1>1, <1>8, <1>11 DEF Said
<1>18. StatusComes(c)'
  <2>1. Billed' => Billed
    BY <1>1, <1>11 DEF Billed, OperatorHolds
  <2>2. Settled(c) => Settled(c)'
    BY <1>1, <1>15 DEF Settled
  <2>3. ~Carries(w, c)
    BY <1>8 DEF Carries
  <2>4. lic'.synced \in Nat /\ (lic'.synced = lic.synced \/ lic'.synced <= c)
    BY <1>7, <1>8, <1>11
  <2> QED
    BY <1>1, <1>6, <2>1, <2>2, <2>3, <2>4, StatusKept
<1>19. EndingComes(c)'
  <2>1. ~Brings(w, c)
    BY <1>8 DEF Brings
  <2> QED
    BY <1>1, <1>6, <1>11, <2>1, EndingKept
<1>20. Since(c)'
  BY <1>1, <1>6, <1>13, <1>16, <1>17, <1>18, <1>19, Wrote
<1> QED
  BY <1>12, <1>20

\* A revocation that was asked for is written.
LEMMA WriteRevokedKeeps ==
  ASSUME TypeOK, NEW c \in Int, Since(c), NEW w \in Workers, WriteRevoked(w)
  PROVE  TypeOK' /\ Since(c)'
<1> DEFINE r == [lic EXCEPT !.status = "revoked"]
           news == IF lic.status = "revoked" THEN "" ELSE "revoked"
<1>1. /\ UNCHANGED <<readable, faults, stripe, changes, events, now, clock, ended, restores,
                     astray>>
      /\ workers[w].pc = "revoke" /\ Done(w)
      /\ \/ lic' = r /\ Tell(news)
         \/ UNCHANGED <<lic, said, repeated>>
  BY DEF WriteRevoked
<1>2. /\ workers' \in [Workers -> WorkerType] /\ workers'[w] = Idle
      /\ \A v \in Workers : v # w => workers'[v] = workers[v]
  BY <1>1, Rests
<1>3. Row(c) /\ Said
  BY DEF Since
<1>4. clock \in Nat /\ clock' \in Nat /\ lic.synced \in Nat
  BY <1>1, Typed
<1>5. lic \in LicType /\ said \in {"", "suspended", "reinstated", "canceled", "expired", "revoked"}
      /\ repeated \in BOOLEAN /\ ended' \in BOOLEAN
  BY <1>1 DEF TypeOK
<1>6. /\ r \in LicType /\ r.status = "revoked" /\ r.by = lic.by /\ r.linked = lic.linked
      /\ r.synced = lic.synced /\ r.until = lic.until /\ r.ending = lic.ending /\ r.endingAt = lic.endingAt
  BY <1>5 DEF LicType, Statuses
<1> HIDE DEF r
<1>7. ~Carries(w, c) /\ ~Brings(w, c)
  BY <1>1 DEF Carries, Brings
<1>8. Knows(w, c)'
  BY <1>2, <1>4, RestKnows
<1>9. lic'.linked = lic.linked /\ lic'.endingAt = lic.endingAt /\ lic'.synced = lic.synced /\ lic' \in LicType
  BY <1>1, <1>5, <1>6
<1>10. EndingComes(c)'
  BY <1>1, <1>2, <1>7, <1>9, EndingKept
<1>11. TypeOK'
  <2>1. /\ said' \in {"", "suspended", "reinstated", "canceled", "expired", "revoked"}
        /\ repeated' \in BOOLEAN
    <3>1. CASE Tell(news)
      BY <3>1, TellTypes
    <3>2. CASE UNCHANGED <<lic, said, repeated>>
      BY <1>5, <3>2
    <3> QED
      BY <1>1, <3>1, <3>2
  <2> QED
    BY <1>1, <1>2, <1>5, <1>9, <2>1, WroteTypes
<1>12. Row(c)' /\ Said' /\ StatusComes(c)'
  <2>1. CASE lic' = r /\ Tell(news)
    <3>1. Row(c)'
      BY <1>1, <1>3, <1>6, <2>1 DEF Row, Early
    <3>2. Said'
      BY <1>1, <1>3, <1>5, <1>6, <2>1 DEF Said, Tell, Usable
    <3>3. StatusComes(c)'
      BY <1>6, <2>1 DEF StatusComes, Billed
    <3> QED
      BY <3>1, <3>2, <3>3
  <2>2. CASE UNCHANGED <<lic, said, repeated>>
    <3>1. Row(c)' /\ Said'
      BY <1>1, <1>3, <2>2 DEF Row, Early, Said
    <3>2. (Billed' => Billed) /\ (Settled(c) => Settled(c)') /\ lic'.synced \in Nat
      BY <1>1, <1>4, <2>2 DEF Billed, OperatorHolds, Settled
    <3>3. StatusComes(c)'
      BY <1>1, <1>2, <1>7, <1>9, <3>2, StatusKept
    <3> QED
      BY <3>1, <3>3
  <2> QED
    BY <1>1, <2>1, <2>2
<1>13. Since(c)'
  BY <1>1, <1>2, <1>8, <1>10, <1>12, Wrote
<1> QED
  BY <1>11, <1>13

\* An operator gives the licence back; the read that follows is still to come.
LEMMA LiftKeeps ==
  ASSUME TypeOK, NEW c \in Int, Since(c), NEW w \in Workers, Lift(w)
  PROVE  TypeOK' /\ Since(c)'
<1> DEFINE r == [lic EXCEPT !.status = "active", !.by = ""]
<1>1. /\ UNCHANGED <<readable, faults, stripe, changes, events, now, clock, astray>>
      /\ workers[w].pc = "lift"
      /\ restores' = restores \/ restores' = restores + 1
      /\ \/ lic' = r /\ ended' = FALSE /\ said' = "reinstated" /\ repeated' = repeated /\ Step(w, "again")
         \/ Done(w) /\ UNCHANGED <<lic, ended, restores, said, repeated>>
  BY DEF Lift, TellAlways
<1>2. clock \in Nat /\ clock' \in Nat /\ lic.synced \in Nat
  BY <1>1, Typed
<1>3. Knows(w, c) /\ workers[w].job = "reinstate" /\ Row(c) /\ Said
  BY <1>1 DEF Since, Knows
<1>4. lic \in LicType /\ said \in {"", "suspended", "reinstated", "canceled", "expired", "revoked"}
      /\ repeated \in BOOLEAN /\ ended \in BOOLEAN
  BY DEF TypeOK
<1>5. CASE /\ lic' = r /\ ended' = FALSE /\ said' = "reinstated" /\ repeated' = repeated
           /\ Step(w, "again")
  <2>1. /\ workers' \in [Workers -> WorkerType]
        /\ workers'[w].pc = "again" /\ workers'[w].job = workers[w].job
        /\ workers'[w].event = workers[w].event
        /\ workers'[w].stamp = workers[w].stamp /\ workers'[w].sub = workers[w].sub
        /\ \A v \in Workers : v # w => workers'[v] = workers[v]
    BY <1>5, Steps
  <2>2. /\ r \in LicType /\ r.status = "active" /\ r.by = "" /\ r.synced = lic.synced
        /\ r.ending = lic.ending /\ r.endingAt = lic.endingAt
    BY <1>4 DEF LicType, Statuses, Usable
  <2> HIDE DEF r
  <2>3. TypeOK'
    BY <1>1, <1>4, <1>5, <2>1, <2>2, WroteTypes
  <2>4. Knows(w, c)'
    BY <1>1, <1>3, <2>1 DEF Knows, Reads, Dating, Current, Early
  <2>5. Row(c)' /\ Said'
    BY <1>1, <1>3, <1>5, <2>2 DEF Row, Said, Usable, Early
  <2>6. StatusComes(c)' /\ EndingComes(c)'
    BY <1>3, <2>1 DEF StatusComes, EndingComes, Carries, Brings
  <2>7. Since(c)'
    BY <1>1, <2>1, <2>4, <2>5, <2>6, Wrote
  <2> QED
    BY <2>3, <2>7
<1>6. CASE Done(w) /\ UNCHANGED <<lic, ended, restores, said, repeated>>
  <2>1. /\ workers' \in [Workers -> WorkerType] /\ workers'[w] = Idle
        /\ \A v \in Workers : v # w => workers'[v] = workers[v]
    BY <1>6, Rests
  <2>2. lic' \in LicType /\ repeated' \in BOOLEAN /\ ended' \in BOOLEAN
        /\ said' \in {"", "suspended", "reinstated", "canceled", "expired", "revoked"}
    BY <1>4, <1>6
  <2>3. TypeOK'
    BY <1>1, <2>1, <2>2, WroteTypes
  <2>4. Knows(w, c)'
    BY <1>2, <2>1, RestKnows
  <2>5. ~Carries(w, c) /\ ~Brings(w, c)
    BY <1>1 DEF Carries, Brings
  <2>6. clock <= clock' /\ (astray => astray')
    BY <1>1, <1>2
  <2>7. /\ \A e \in events' : e.kind = "deleted" => stripe.status = "canceled"
        /\ events' = events
    BY <1>1 DEF Since
  <2>8. Since(c)'
    BY <1>1, <1>2, <1>6, <2>1, <2>4, <2>5, <2>6, <2>7, Unwritten
  <2> QED
    BY <2>3, <2>8
<1> QED
  BY <1>1, <1>5, <1>6

\* The link is cleared.
LEMMA ClearKeeps ==
  ASSUME TypeOK, NEW c \in Int, Since(c), NEW w \in Workers, ClearStripeSubscription(w)
  PROVE  TypeOK' /\ Since(c)'
<1> DEFINE r == [lic EXCEPT !.linked = FALSE]
<1>1. /\ UNCHANGED <<readable, faults, stripe, changes, events, now, clock, ended, restores,
                     astray, said, repeated>>
      /\ lic' = r /\ Done(w)
  BY DEF ClearStripeSubscription
<1>2. /\ workers' \in [Workers -> WorkerType] /\ workers'[w] = Idle
      /\ \A v \in Workers : v # w => workers'[v] = workers[v]
  BY <1>1, Rests
<1>3. lic \in LicType
  BY DEF TypeOK
<1>4. /\ r \in LicType /\ r.status = lic.status /\ r.by = lic.by /\ r.linked = FALSE
      /\ r.synced = lic.synced /\ r.ending = lic.ending /\ r.endingAt = lic.endingAt
  BY <1>3 DEF LicType
<1> HIDE DEF r
<1>5. TypeOK'
  <2>1. ended' \in BOOLEAN /\ repeated' \in BOOLEAN
        /\ said' \in {"", "suspended", "reinstated", "canceled", "expired", "revoked"}
    BY <1>1 DEF TypeOK
  <2> QED
    BY <1>1, <1>2, <1>4, <2>1, WroteTypes
<1>6. Row(c)' /\ Said'
  <2>1. Row(c) /\ Said
    BY DEF Since
  <2> QED
    BY <1>1, <1>4, <2>1 DEF Row, Said, Early
<1>7. StatusComes(c)' /\ EndingComes(c)'
  BY <1>1, <1>4 DEF StatusComes, EndingComes, Billed
<1>8. Knows(w, c)'
  <2>1. clock' \in Nat
    BY <1>1, Typed
  <2> QED
    BY <1>2, <2>1, RestKnows
<1>9. Since(c)'
  BY <1>1, <1>2, <1>6, <1>7, <1>8, Wrote
<1> QED
  BY <1>5, <1>9

\* A decision of an operator or a sweep, that moves no worker.
LEMMA Decided ==
  ASSUME TypeOK, NEW c \in Int, Since(c),
         UNCHANGED <<readable, faults, stripe, changes, events, now, clock, workers, astray>>,
         lic' \in LicType, ended' \in BOOLEAN, repeated' \in BOOLEAN,
         restores' = restores \/ restores' = restores + 1,
         said' \in {"", "suspended", "reinstated", "canceled", "expired", "revoked"},
         lic'.linked = lic.linked, lic'.endingAt = lic.endingAt,
         Row(c)', Said', StatusComes(c)'
  PROVE  TypeOK' /\ Since(c)'
<1>1. TypeOK'
  <2>1. restores' \in Nat
    BY Counts
  <2> QED
    BY <2>1 DEF TypeOK
<1>2. ASSUME NEW w \in Workers PROVE Knows(w, c)'
  <2>1. Knows(w, c)
    BY DEF Since
  <2> QED
    BY <2>1 DEF Knows, Reads, Dating, Current, Early
<1>3. EndingComes(c)'
  <2>1. \A v \in Workers : Brings(v, c) => Brings(v, c)'
    BY DEF Brings
  <2> QED
    BY <2>1 DEF Since, EndingComes
<1>4. Since(c)'
  BY <1>2, <1>3 DEF Since
<1> QED
  BY <1>1, <1>4

\* An operator suspends.
LEMMA SuspendKeeps ==
  ASSUME TypeOK, NEW c \in Int, Since(c), SuspendLicense
  PROVE  TypeOK' /\ Since(c)'
<1> DEFINE r == [lic EXCEPT !.status = "suspended", !.by = "admin"]
<1>1. /\ UNCHANGED <<readable, faults, stripe, changes, events, now, clock, workers, ended,
                     restores, astray>>
      /\ lic.status \in Usable /\ lic' = r /\ said' = "suspended" /\ repeated' = repeated
  BY DEF SuspendLicense, TellAlways
<1>2. lic \in LicType /\ ended' \in BOOLEAN /\ repeated' \in BOOLEAN
  BY <1>1 DEF TypeOK
<1>3. /\ r \in LicType /\ r.status = "suspended" /\ r.by = "admin" /\ r.linked = lic.linked
      /\ r.synced = lic.synced /\ r.ending = lic.ending /\ r.endingAt = lic.endingAt
  BY <1>2 DEF LicType, Statuses
<1> HIDE DEF r
<1>4. Row(c)' /\ Said'
  <2>1. Row(c) /\ Said
    BY DEF Since
  <2> QED
    BY <1>1, <1>3, <2>1 DEF Row, Said, Usable, Early
<1>5. StatusComes(c)'
  BY <1>1, <1>3 DEF StatusComes, Billed, OperatorHolds
<1> QED
  BY <1>1, <1>2, <1>3, <1>4, <1>5, Decided

\* An operator revokes.
LEMMA RevokeKeeps ==
  ASSUME TypeOK, NEW c \in Int, Since(c), RevokeLicense
  PROVE  TypeOK' /\ Since(c)'
<1> DEFINE r == [lic EXCEPT !.status = "revoked"]
<1>1. /\ UNCHANGED <<readable, faults, stripe, changes, events, now, clock, workers, ended,
                     restores, astray>>
      /\ lic' = r /\ said' = "revoked" /\ repeated' = repeated
  BY DEF RevokeLicense, TellAlways
<1>2. lic \in LicType /\ ended' \in BOOLEAN /\ repeated' \in BOOLEAN
  BY <1>1 DEF TypeOK
<1>3. /\ r \in LicType /\ r.status = "revoked" /\ r.by = lic.by /\ r.linked = lic.linked
      /\ r.synced = lic.synced /\ r.ending = lic.ending /\ r.endingAt = lic.endingAt
  BY <1>2 DEF LicType, Statuses
<1> HIDE DEF r
<1>4. Row(c)' /\ Said'
  <2>1. Row(c) /\ Said
    BY DEF Since
  <2> QED
    BY <1>1, <1>3, <2>1 DEF Row, Said, Early
<1>5. StatusComes(c)'
  BY <1>1, <1>3 DEF StatusComes, Billed
<1> QED
  BY <1>1, <1>2, <1>3, <1>4, <1>5, Decided

\* An operator sets the date of a licence no subscription bills.
LEMMA SetLicenseValidUntilKeeps ==
  ASSUME TypeOK, NEW c \in Int, Since(c), SetLicenseValidUntil
  PROVE  TypeOK' /\ Since(c)'
<1> DEFINE st == IF lic.status = "expired" THEN "active" ELSE lic.status
           r == [lic EXCEPT !.until = MaxPeriods, !.status = st]
<1>1. /\ UNCHANGED <<readable, faults, stripe, changes, events, now, clock, workers, astray>>
      /\ ~lic.linked /\ lic' = r /\ ended' = (ended /\ lic.status # "expired")
      /\ repeated' = repeated
      /\ restores' = restores \/ restores' = restores + 1
      /\ said' = IF lic.status = "expired" THEN "reinstated" ELSE said
  BY DEF SetLicenseValidUntil, TellAlways
<1>2. lic \in LicType /\ ended' \in BOOLEAN /\ repeated' \in BOOLEAN /\ MaxPeriods \in Periods
      /\ said \in {"", "suspended", "reinstated", "canceled", "expired", "revoked"}
  <2>1. MaxPeriods \in Periods
    BY Constants DEF Periods
  <2> QED
    BY <1>1, <2>1 DEF TypeOK
<1>3. st \in Statuses
  BY <1>2 DEF LicType, Statuses, Usable
<1> HIDE DEF st
<1>4. /\ r \in LicType /\ r.status = st /\ r.by = lic.by /\ r.linked = lic.linked
      /\ r.synced = lic.synced /\ r.ending = lic.ending /\ r.endingAt = lic.endingAt
  BY <1>2, <1>3 DEF LicType
<1> HIDE DEF r
<1>5. Row(c)' /\ Said'
  <2>1. Row(c) /\ Said
    BY DEF Since
  <2>2. CASE lic.status = "expired"
    BY <1>1, <1>4, <2>1, <2>2 DEF Row, Said, Usable, Early, st
  <2>3. CASE lic.status # "expired"
    BY <1>1, <1>4, <2>1, <2>3 DEF Row, Said, Early, st
  <2> QED
    BY <2>2, <2>3
<1>6. StatusComes(c)'
  BY <1>1, <1>4 DEF StatusComes, Billed
<1>7. said' \in {"", "suspended", "reinstated", "canceled", "expired", "revoked"}
  BY <1>1, <1>2
<1> QED
  BY <1>1, <1>2, <1>4, <1>5, <1>6, <1>7, Decided

\* A sweep expires the licence: one settled as paid is not due, and one settled as
\* failing shows it.
LEMMA ExpireKeeps ==
  ASSUME TypeOK, NEW c \in Int, Since(c), ExpireAfterGrace \/ ExpireTrial \/ ExpirePastDue
  PROVE  TypeOK' /\ Since(c)'
<1> DEFINE r == [lic EXCEPT !.status = "expired"]
<1>1. /\ UNCHANGED <<readable, faults, stripe, changes, events, now, clock, workers, ended,
                     restores, astray>>
      /\ lic' = r /\ Tell("expired") /\ lic.status \in Usable
      /\ lic.until < now \/ lic.status = "past_due"
  BY DEF ExpireAfterGrace, ExpireTrial, ExpirePastDue, Expire, Usable
<1>2. lic \in LicType /\ ended' \in BOOLEAN
  BY <1>1 DEF TypeOK
<1>3. /\ r \in LicType /\ r.status = "expired" /\ r.by = lic.by /\ r.linked = lic.linked
      /\ r.synced = lic.synced /\ r.ending = lic.ending /\ r.endingAt = lic.endingAt
  BY <1>2 DEF LicType, Statuses
<1> HIDE DEF r
<1>4. Row(c) /\ Said /\ StatusComes(c)
  BY DEF Since
<1>5. Row(c)' /\ Said'
  BY <1>1, <1>3, <1>4 DEF Row, Said, Tell, Usable, Early
<1>6. StatusComes(c)'
  <2>1. Billed' => Billed
    BY <1>1, <1>3 DEF Billed, OperatorHolds, Usable
  <2>2. Settled(c) => Settled(c)'
    <3> SUFFICES ASSUME Settled(c) PROVE Settled(c)'
      OBVIOUS
    <3>1. lic.until \in Nat /\ now \in Nat
      BY Typed
    <3>2. lic.status \notin {"active", "trialing"}
      BY <1>1, <3>1 DEF Settled
    <3>3. lic.status = "past_due"
      BY <1>1, <3>2 DEF Usable
    <3>4. stripe.status = "past_due"
      <4>1. stripe.status \in StripeStatuses /\ "past_due" \in Shows(stripe.status)
        BY <3>3, Typed DEF Settled
      <4> QED
        BY <4>1 DEF Shows, StatusFor, StripeStatuses, Usable
    <3> QED
      BY <1>1, <1>3, <3>4 DEF Settled, Shows
  <2>3. \A v \in Workers : Carries(v, c) => Carries(v, c)'
    BY <1>1, <1>3 DEF Carries
  <2> QED
    BY <1>1, <1>4, <2>1, <2>2, <2>3 DEF StatusComes
<1>7. /\ said' \in {"", "suspended", "reinstated", "canceled", "expired", "revoked"}
      /\ repeated' \in BOOLEAN
  BY <1>1, TellTypes
<1> QED
  BY <1>1, <1>2, <1>3, <1>5, <1>6, <1>7, Decided

-----------------------------------------------------------------------------
(* The theorems. *)

\* It holds at the start, as of a change before the first stamp.
LEMMA InvInit == Init => SubscriptionInv
<1> SUFFICES ASSUME Init PROVE SubscriptionInv
  OBVIOUS
<1>1. TypeOK
  <2>1. 1 \in Periods \ {0} /\ 0 \in 0..MaxChanges /\ 0 \in 0..MaxFaults
    BY Constants
  <2>2. [status |-> "trialing", ending |-> FALSE] \in [status : StripeStatuses, ending : BOOLEAN]
    BY DEF StripeStatuses, Usable
  <2> QED
    BY <2>1, <2>2, Constants DEF Init, TypeOK, Stamps
<1>2. PICK c \in Int : c < 0
  <2>1. 0 - 1 \in Int /\ 0 - 1 < 0
    OBVIOUS
  <2> QED
    BY <2>1
<1>3. /\ \A w \in Workers : workers[w] = Idle
      /\ events = {} /\ ~ended /\ said = "" /\ ~repeated
      /\ stripe.status = "trialing" /\ lic.status = "trialing" /\ lic.by = ""
  BY DEF Init, Fresh
<1>4. clock = 0 /\ now = 1 /\ lic.synced = 0 /\ lic.until = 1 /\ lic.endingAt = 0
  BY DEF Init, Fresh
<1>5. lic.ending = stripe.ending
  BY DEF Init, Fresh
<1>6. c <= clock /\ lic.synced > c /\ lic.synced <= clock /\ lic.endingAt > c /\ lic.endingAt <= clock
      /\ lic.until >= now
  BY <1>2, <1>4
<1>7. ASSUME NEW w \in Workers PROVE Knows(w, c)
  <2>1. workers[w].stamp <= clock
    <3>1. workers[w].stamp = 0
      BY <1>3, AtRest
    <3> QED
      BY <1>4, <3>1
  <2>2. workers[w].pc = "idle" /\ workers[w].event.kind = "updated"
    BY <1>3, AtRest
  <2> QED
    BY <2>1, <2>2 DEF Knows, Reads, Dating
<1>8. Row(c) /\ Said
  BY <1>3, <1>5, <1>6 DEF Row, Said, Early, Usable
<1>9. Settled(c)
  <2>1. "trialing" \in Shows("trialing")
    BY DEF Shows, StatusFor
  <2> QED
    BY <1>3, <1>6, <2>1 DEF Settled
<1>10. Since(c)
  BY <1>3, <1>6, <1>7, <1>8, <1>9 DEF Since, StatusComes, EndingComes
<1> QED
  BY <1>1, <1>10 DEF SubscriptionInv

\* Every step keeps it, as of the same change or as of the one it makes.
LEMMA InvStep == SubscriptionInv /\ [Next]_vars => SubscriptionInv'
<1> SUFFICES ASSUME SubscriptionInv, [Next]_vars PROVE SubscriptionInv'
  OBVIOUS
<1>1. PICK c \in Int : Since(c)
  BY DEF SubscriptionInv
<1>2. TypeOK
  BY DEF SubscriptionInv
<1>3. SUFFICES TypeOK' /\ \E d \in Int : Since(d)'
  BY DEF SubscriptionInv
<1>4. CASE UNCHANGED vars
  <2>1. TypeOK'
    BY <1>2, <1>4 DEF vars, TypeOK
  <2>2. \A w \in Workers : Knows(w, c)'
    BY <1>1, <1>4 DEF vars, Since, Knows, Reads, Dating, Current, Early
  <2>3. Row(c)' /\ Said'
    BY <1>1, <1>4 DEF vars, Since, Row, Said, Early
  <2>4. StatusComes(c)' /\ EndingComes(c)'
    <3>1. \A w \in Workers : Carries(w, c)' = Carries(w, c) /\ Brings(w, c)' = Brings(w, c)
      BY <1>4 DEF vars, Carries, Brings
    <3>2. Billed' = Billed /\ Settled(c)' = Settled(c)
      BY <1>4 DEF vars, Billed, Settled, OperatorHolds
    <3> QED
      BY <1>1, <1>4, <3>1, <3>2 DEF vars, Since, StatusComes, EndingComes
  <2> QED
    BY <1>1, <1>4, <2>1, <2>2, <2>3, <2>4 DEF vars, Since
<1>5. CASE StripeMove \/ StripeEnding \/ PeriodPasses
  BY <1>1, <1>2, <1>5, StripeMoveKeeps, StripeEndingKeeps, PeriodPassesKeeps
<1>6. CASE SuspendLicense \/ RevokeLicense \/ SetLicenseValidUntil
  BY <1>1, <1>2, <1>6, SuspendKeeps, RevokeKeeps, SetLicenseValidUntilKeeps
<1>7. CASE ExpireAfterGrace \/ ExpireTrial \/ ExpirePastDue
  BY <1>1, <1>2, <1>7, ExpireKeeps
<1>8. ASSUME NEW w \in Workers, Handler(w)
      PROVE  TypeOK' /\ \E d \in Int : Since(d)'
  <2>1. CASE TakeEvent(w) \/ ReadStripe(w) \/ SyncEnding(w) \/ WriteRead(w) \/ WritePayload(w)
    BY <1>1, <1>2, <2>1, TakeEventKeeps, ReadStripeKeeps, SyncEndingKeeps, WriteReadKeeps, WritePayloadKeeps
  <2>2. CASE WritePaid(w) \/ WriteFailed(w) \/ StampEnd(w) \/ WriteEnd(w) \/ Fail(w)
    BY <1>1, <1>2, <2>2, WritePaidKeeps, WriteFailedKeeps, StampEndKeeps, WriteEndKeeps, FailKeeps
  <2> QED
    BY <1>8, <2>1, <2>2 DEF Handler
<1>9. ASSUME NEW w \in Workers, Portal(w)
      PROVE  TypeOK' /\ \E d \in Int : Since(d)'
  BY <1>1, <1>2, <1>9, CancelNowKeeps, CancelAtPeriodEndKeeps, WriteDateKeeps DEF Portal
<1>10. ASSUME NEW w \in Workers, Operator(w)
      PROVE  TypeOK' /\ \E d \in Int : Since(d)'
  <2>1. CASE RefundLicense(w) \/ WriteRevoked(w) \/ ReinstateLicense(w) \/ ReadFirst(w) \/ Lift(w)
    BY <1>1, <1>2, <2>1, RefundLicenseKeeps, WriteRevokedKeeps, ReinstateKeeps, ReadFirstKeeps, LiftKeeps
  <2>2. CASE FollowAgain(w) \/ ReadAgain(w) \/ AskEnded(w) \/ ClearStripeSubscription(w)
    BY <1>1, <1>2, <2>2, FollowAgainKeeps, ReadAgainKeeps, AskEndedKeeps, ClearKeeps
  <2> QED
    BY <1>10, <2>1, <2>2 DEF Operator
<1> QED
  BY <1>3, <1>4, <1>5, <1>6, <1>7, <1>8, <1>9, <1>10 DEF Next

\* However reads, writes, events, failures, operators and sweeps overlap, there is a
\* stamp since which the subscription has not changed, and every worker, the row and
\* what was told stand to it as SubscriptionInv says (stripe.go, currentSubscription).
THEOREM SubscriptionInvHolds == Spec => []SubscriptionInv
<1>1. Init => SubscriptionInv
  BY InvInit
<1>2. SubscriptionInv /\ [Next]_vars => SubscriptionInv'
  BY InvStep
<1> QED
  BY <1>1, <1>2, PTL DEF Spec

\* Each turn of a licence is told once (store.go, License.WasCanceled and the
\* others read under the row lock).
THEOREM TellsOnceHolds == Spec => []TellsOnce
<1>1. SubscriptionInv => TellsOnce
  BY DEF SubscriptionInv, Since, Said, TellsOnce
<1> QED
  BY <1>1, SubscriptionInvHolds, PTL

\* Once every event is answered, the licence is as Stripe has the subscription, for
\* any number of handlers (store.go, UpdateLicenseFromSubscriptionRead).
THEOREM FollowsStripeHolds == Spec => []FollowsStripe
<1>1. SubscriptionInv => FollowsStripe
  <2> SUFFICES ASSUME SubscriptionInv, readable, Quiet, lic.linked, ~astray, lic.status # "revoked",
                      ~OperatorHolds(lic)
               PROVE  /\ lic.status \in Shows(stripe.status)
                      /\ lic.status \in Usable => lic.ending = stripe.ending
    BY DEF FollowsStripe
  <2>1. PICK c \in Int : Since(c)
    BY DEF SubscriptionInv
  <2>2. events = {} /\ \A w \in Workers : ~Carries(w, c) /\ ~Brings(w, c)
    BY DEF Quiet, Carries, Brings
  <2>3. Settled(c)
    BY <2>1, <2>2 DEF Since, StatusComes, Billed
  <2>4. lic.endingAt > c \/ stripe.status = "canceled"
    BY <2>1, <2>2 DEF Since, EndingComes
  <2>5. lic.endingAt > c => lic.ending = stripe.ending
    BY <2>1 DEF Since, Row
  <2>6. stripe.status = "canceled" => lic.status = "canceled"
    BY <2>3 DEF Settled, Shows, StatusFor
  <2> QED
    BY <2>3, <2>4, <2>5, <2>6 DEF Settled, Usable
<1> QED
  BY <1>1, SubscriptionInvHolds, PTL

-----------------------------------------------------------------------------
(* The refinement of Standing. *)

\* Where a row stands.
LEMMA Stands ==
  ASSUME NEW row, row.status \in Statuses
  PROVE  /\ OperatorHolds(row) => StandingOf(row) = "held"
         /\ row.status = "revoked" => StandingOf(row) = "revoked"
         /\ ~OperatorHolds(row) =>
              /\ row.status = "suspended" => StandingOf(row) = "paused"
              /\ row.status = "canceled" => StandingOf(row) = "ended"
         /\ row.status = "expired" => StandingOf(row) = "lapsed"
         /\ row.status \in Usable => StandingOf(row) = "working"
BY DEF StandingOf, OperatorHolds, Statuses, Usable

\* A write that leaves the status and who set it moves the licence nowhere.
LEMMA Stays ==
  ASSUME lic'.status = lic.status, lic'.by = lic.by, UNCHANGED <<ended, restores>>
  PROVE  UNCHANGED Abstract!vars
BY DEF Abstract!vars, StandingOf, OperatorHolds

\* A write of billing that the licence's own state allowed.
LEMMA Bills ==
  ASSUME TypeOK, TypeOK', NEW c \in Int, Row(c), NEW d \in Int, Row(d)', UNCHANGED <<ended,
                                                                                     restores>>,
         lic.status # "revoked",
         \/ lic'.status \in Usable /\ ~OperatorHolds(lic)
         \/ lic'.status = "suspended" /\ lic'.by = "stripe" /\ ~OperatorHolds(lic)
         \/ lic'.status = "canceled" /\ lic'.by = IF Paused(lic) THEN "" ELSE lic.by
  PROVE  Abstract!Next \/ UNCHANGED Abstract!vars
<1>1. lic.status \in Statuses /\ lic'.status \in Statuses
  BY DEF TypeOK, LicType
<1>2. CASE OperatorHolds(lic)
  <2>1. lic'.status = "canceled" /\ lic'.by = lic.by
    BY <1>2 DEF OperatorHolds, Paused
  <2>2. OperatorHolds(lic')
    BY <1>2, <2>1 DEF OperatorHolds
  <2>3. StandingOf(lic') = StandingOf(lic)
    BY <1>1, <1>2, <2>2, Stands
  <2> QED
    BY <2>3 DEF Abstract!vars
<1>3. CASE ~OperatorHolds(lic)
  <2>1. StandingOf(lic) \in {"paused", "ended", "lapsed", "working"}
    BY <1>1, <1>3, Stands DEF Statuses
  <2>2. ~OperatorHolds(lic')
    <3>1. lic.by # "admin"
      BY <1>3 DEF Row, OperatorHolds
    <3> QED
      BY <3>1 DEF OperatorHolds, Usable
  <2>3. /\ lic'.status \in Usable => StandingOf(lic') = "working"
        /\ lic'.status = "suspended" => StandingOf(lic') = "paused"
        /\ lic'.status = "canceled" => StandingOf(lic') = "ended"
    BY <1>1, <2>2, Stands
  <2>4. ended => lic'.status = "canceled"
    BY DEF Row, Usable
  <2>5. Abstract!Bill
    BY <2>1, <2>3, <2>4 DEF Abstract!Bill, Abstract!Held
  <2> QED
    BY <2>5 DEF Abstract!Next
<1> QED
  BY <1>2, <1>3

\* The writes of handlers.
LEMMA HandlerStands ==
  ASSUME TypeOK, TypeOK', NEW c \in Int, Since(c), NEW d \in Int, Since(d)', NEW w \in Workers, Handler(w)
  PROVE  Abstract!Next \/ UNCHANGED Abstract!vars
<1>1. lic \in LicType /\ lic.status \in Statuses /\ Row(c) /\ Row(d)'
  BY DEF TypeOK, LicType, Since
<1>2. CASE TakeEvent(w) \/ ReadStripe(w) \/ StampEnd(w) \/ Fail(w)
  <2>1. lic' = lic /\ ended' = ended /\ restores' = restores
    BY <1>2 DEF TakeEvent, ReadStripe, StampEnd, Fail
  <2> QED
    BY <2>1, Stays
<1>3. CASE SyncEnding(w)
  <2>1. lic'.status = lic.status /\ lic'.by = lic.by /\ ended' = ended /\ restores' = restores
    BY <1>1, <1>3 DEF SyncEnding, NoteEnding, LicType
  <2> QED
    BY <2>1, Stays
<1>4. CASE WriteRead(w)
  <2> DEFINE at == workers[w].stamp  to == StatusFor(workers[w].sub.status)
  <2>1. /\ Lands(lic, to, at) =>
           /\ lic'.status = to
           /\ to = "suspended" => lic'.by = "stripe"
           /\ to = "canceled" => lic'.by = IF Paused(lic) THEN "" ELSE lic.by
        /\ ~Lands(lic, to, at) => lic'.status = lic.status /\ lic'.by = lic.by
    BY <1>4, WriteReadRow
  <2>2. ended' = ended /\ restores' = restores /\ to \in Usable \cup {"suspended", "canceled"}
    <3>1. workers[w].sub \in ReadType
      BY Typed
    <3> QED
      BY <1>4, <3>1 DEF WriteRead, ReadType, StripeStatuses, Usable, StatusFor
  <2> HIDE DEF at, to
  <2>3. CASE ~Lands(lic, to, at)
    BY <2>1, <2>2, <2>3, Stays
  <2>4. CASE Lands(lic, to, at)
    <3>1. lic.status # "revoked" /\ (to \in Usable \cup {"suspended"} => ~OperatorHolds(lic))
      BY <2>4 DEF Lands, Unrestricted
    <3> QED
      BY <1>1, <2>1, <2>2, <2>4, <3>1, Bills
  <2> QED
    BY <2>3, <2>4
<1>5. CASE WritePayload(w)
  <2> DEFINE s == workers[w].sub  to == StatusFor(s.status)  copy == workers[w].copy
  <2>1. /\ ended' = ended /\ restores' = restores
        /\ \/ lic' = lic
           \/ Lands(lic, to, NoStamp) /\ lic' = Written(lic, copy, s, NoStamp, now)
    BY <1>5 DEF WritePayload
  <2>2. CASE lic' = lic
    BY <2>1, <2>2, Stays
  <2>3. CASE Lands(lic, to, NoStamp) /\ lic' = Written(lic, copy, s, NoStamp, now)
    <3>1. s \in ReadType /\ copy \in CopyType /\ now \in Periods \ {0}
      BY Typed DEF TypeOK
    <3>2. IsWritten(Written(lic, copy, s, NoStamp, now), lic, s, NoStamp)
      BY <1>1, <3>1, WrittenType
    <3>3. IsWritten(lic', lic, s, NoStamp)
      BY <2>3, <3>2
    <3>4. /\ lic'.status = to /\ to \in Usable \cup {"suspended", "canceled"}
          /\ to = "suspended" => lic'.by = "stripe"
          /\ to = "canceled" => lic'.by = IF Paused(lic) THEN "" ELSE lic.by
      BY <3>3 DEF IsWritten
    <3>5. lic.status # "revoked" /\ (to \in Usable \cup {"suspended"} => ~OperatorHolds(lic))
      BY <2>3 DEF Lands, Unrestricted
    <3> QED
      BY <1>1, <2>1, <3>4, <3>5, Bills
  <2> QED
    BY <2>1, <2>2, <2>3
<1>6. CASE WritePaid(w) \/ WriteFailed(w)
  <2>1. /\ ended' = ended /\ restores' = restores
        /\ \/ lic'.status = lic.status /\ lic'.by = lic.by
           \/ lic'.status \in Usable /\ \E to \in Usable : Lands(lic, to, NoStamp)
    BY <1>1, <1>6 DEF WritePaid, WriteFailed, LicType, Usable
  <2>2. CASE lic'.status = lic.status /\ lic'.by = lic.by
    BY <2>1, <2>2, Stays
  <2>3. CASE lic'.status \in Usable /\ \E to \in Usable : Lands(lic, to, NoStamp)
    <3>1. lic.status # "revoked" /\ ~OperatorHolds(lic)
      BY <2>3 DEF Lands, Unrestricted
    <3> QED
      BY <1>1, <2>1, <2>3, <3>1, Bills
  <2> QED
    BY <2>1, <2>2, <2>3
<1>7. CASE WriteEnd(w)
  <2>1. CASE ~(lic.linked /\ lic.status # "revoked")
    <3>1. lic' = lic /\ ended' = ended /\ restores' = restores
      BY <1>7, <2>1 DEF WriteEnd
    <3> QED
      BY <3>1, Stays
  <2>2. CASE lic.linked /\ lic.status # "revoked"
    <3>1. /\ lic'.status = "canceled" /\ lic'.by = (IF Paused(lic) THEN "" ELSE lic.by)
          /\ ended' = TRUE /\ restores' = restores
      BY <1>1, <1>7, <2>2 DEF WriteEnd, LicType
    <3>2. lic'.status \in Statuses
      BY <3>1 DEF Statuses
    <3>3. CASE OperatorHolds(lic)
      <4>1. OperatorHolds(lic')
        BY <3>1, <3>3 DEF OperatorHolds, Paused
      <4>2. StandingOf(lic) = "held" /\ StandingOf(lic') = "held"
        BY <1>1, <3>2, <3>3, <4>1, Stands
      <4> QED
        BY <3>1, <4>2 DEF Abstract!Next, Abstract!End, Abstract!Held
    <3>4. CASE ~OperatorHolds(lic)
      <4>1. lic.by # "admin"
        BY <1>1, <2>2, <3>4 DEF Row, OperatorHolds
      <4>2. ~OperatorHolds(lic')
        BY <3>1, <4>1 DEF OperatorHolds
      <4>3. StandingOf(lic') = "ended"
        BY <3>1, <3>2, <4>2, Stands
      <4>4. StandingOf(lic) \in {"paused", "ended", "lapsed", "working"}
        BY <1>1, <2>2, <3>4, Stands DEF Statuses
      <4> QED
        BY <3>1, <4>3, <4>4 DEF Abstract!Next, Abstract!End, Abstract!Held
    <3> QED
      BY <3>3, <3>4
  <2> QED
    BY <2>1, <2>2
<1> QED
  BY <1>2, <1>3, <1>4, <1>5, <1>6, <1>7 DEF Handler

\* A revocation that is written.
LEMMA Revokes ==
  ASSUME TypeOK, lic'.status = "revoked", UNCHANGED <<ended, restores>>
  PROVE  Abstract!Next
<1>1. lic'.status \in Statuses
  BY DEF Statuses
<1>2. StandingOf(lic') = "revoked"
  BY <1>1, Stands
<1> QED
  BY <1>2 DEF Abstract!Next, Abstract!Revoke

\* An operator's giving back, of a licence not revoked.
LEMMA Restores ==
  ASSUME TypeOK, lic.status # "revoked", lic'.status = "active", ended' = FALSE,
         lic.status \notin Usable, restores' = restores + 1
  PROVE  Abstract!Next
<1>1. lic.status \in Statuses /\ lic'.status \in Statuses /\ lic'.status \in Usable
  BY DEF TypeOK, LicType, Statuses, Usable
<1>2. StandingOf(lic') = "working"
  BY <1>1, Stands
<1>3. StandingOf(lic) \notin {"working", "revoked"}
  <2>1. CASE OperatorHolds(lic)
    BY <1>1, <2>1, Stands
  <2>2. CASE ~OperatorHolds(lic)
    BY <1>1, <2>2, Stands DEF Statuses
  <2> QED
    BY <2>1, <2>2
<1> QED
  BY <1>2, <1>3 DEF Abstract!Next, Abstract!Restore

\* The portal, the operators' requests, and what they lead to.
LEMMA RequestStands ==
  ASSUME TypeOK, NEW w \in Workers, Portal(w) \/ Operator(w)
  PROVE  Abstract!Next \/ UNCHANGED Abstract!vars
<1>1. lic \in LicType
  BY DEF TypeOK
<1>2. CASE \/ CancelNow(w) \/ CancelAtPeriodEnd(w) \/ RefundLicense(w) \/ ReinstateLicense(w)
           \/ ReadFirst(w) \/ FollowAgain(w) \/ ReadAgain(w) \/ AskEnded(w)
  <2>1. lic' = lic /\ ended' = ended /\ restores' = restores
    BY <1>2 DEF CancelNow, CancelAtPeriodEnd, RefundLicense, ReinstateLicense, ReadFirst, FollowAgain,
                ReadAgain, AskEnded
  <2> QED
    BY <2>1, Stays
<1>3. CASE WriteDate(w) \/ ClearStripeSubscription(w)
  <2>1. lic'.status = lic.status /\ lic'.by = lic.by /\ ended' = ended /\ restores' = restores
    BY <1>1, <1>3 DEF WriteDate, ClearStripeSubscription, LicType
  <2> QED
    BY <2>1, Stays
<1>4. CASE WriteRevoked(w)
  <2>1. ended' = ended /\ restores' = restores /\ (lic' = lic \/ lic'.status = "revoked")
    BY <1>1, <1>4 DEF WriteRevoked, LicType
  <2> QED
    BY <2>1, Stays, Revokes
<1>5. CASE Lift(w)
  <2>1. CASE ~Reinstatable(lic)
    <3>1. lic' = lic /\ ended' = ended /\ restores' = restores
      BY <1>5, <2>1 DEF Lift
    <3> QED
      BY <3>1, Stays
  <2>2. CASE Reinstatable(lic)
    <3>1. /\ lic.status \notin Usable \cup {"revoked"} /\ lic'.status = "active" /\ ended' = FALSE
          /\ restores' = restores + 1
      BY <1>1, <1>5, <2>2 DEF Lift, Reinstatable, Usable, LicType
    <3> QED
      BY <3>1, Restores
  <2> QED
    BY <2>1, <2>2
<1> QED
  BY <1>2, <1>3, <1>4, <1>5 DEF Portal, Operator

\* Stripe, operators' decisions and the sweeps.
LEMMA DecisionStands ==
  ASSUME TypeOK, NEW c \in Int, Since(c),
         \/ StripeMove \/ StripeEnding \/ PeriodPasses
         \/ SuspendLicense \/ RevokeLicense \/ SetLicenseValidUntil
         \/ ExpireAfterGrace \/ ExpireTrial \/ ExpirePastDue
  PROVE  Abstract!Next \/ UNCHANGED Abstract!vars
<1>1. lic \in LicType /\ lic.status \in Statuses /\ Row(c) /\ ended \in BOOLEAN
  BY DEF TypeOK, LicType, Since
<1>2. CASE StripeMove \/ StripeEnding \/ PeriodPasses
  <2>1. lic' = lic /\ ended' = ended /\ restores' = restores
    BY <1>2 DEF StripeMove, StripeEnding, PeriodPasses
  <2> QED
    BY <2>1, Stays
<1>3. CASE SuspendLicense
  <2>1. lic.status \in Usable /\ lic'.status = "suspended" /\ lic'.by = "admin" /\ ended' = ended /\ restores' = restores
    BY <1>1, <1>3 DEF SuspendLicense, LicType
  <2>2. lic'.status \in Statuses /\ OperatorHolds(lic')
    BY <2>1 DEF Statuses, OperatorHolds
  <2>3. StandingOf(lic) = "working" /\ StandingOf(lic') = "held"
    BY <1>1, <2>1, <2>2, Stands
  <2> QED
    BY <2>1, <2>3 DEF Abstract!Next, Abstract!Hold
<1>4. CASE RevokeLicense
  <2>1. lic'.status = "revoked" /\ ended' = ended /\ restores' = restores
    BY <1>1, <1>4 DEF RevokeLicense, LicType
  <2> QED
    BY <2>1, Revokes
<1>5. CASE SetLicenseValidUntil
  <2>1. CASE lic.status = "expired"
    <3>1. /\ lic'.status = "active" /\ ended' = FALSE /\ restores' = restores + 1
          /\ lic.status \notin Usable
      BY <1>1, <1>5, <2>1 DEF SetLicenseValidUntil, Usable, LicType
    <3> QED
      BY <2>1, <3>1, Restores
  <2>2. CASE lic.status # "expired"
    <3>1. lic'.status = lic.status /\ lic'.by = lic.by /\ ended' = ended /\ restores' = restores
      BY <1>1, <1>5, <2>2 DEF SetLicenseValidUntil, LicType
    <3> QED
      BY <3>1, Stays
  <2> QED
    BY <2>1, <2>2
<1>6. CASE ExpireAfterGrace \/ ExpireTrial \/ ExpirePastDue
  <2>1. lic.status \in Usable /\ lic'.status = "expired" /\ ended' = ended /\ restores' = restores
    BY <1>1, <1>6 DEF ExpireAfterGrace, ExpireTrial, ExpirePastDue, Expire, LicType, Usable
  <2>2. lic'.status \in Statuses
    BY <2>1 DEF Statuses
  <2>3. StandingOf(lic) = "working" /\ StandingOf(lic') = "lapsed"
    BY <1>1, <2>1, <2>2, Stands
  <2> QED
    BY <2>1, <2>3 DEF Abstract!Next, Abstract!Lapse
<1> QED
  BY <1>2, <1>3, <1>4, <1>5, <1>6

\* Every step of the licence is a step of Standing or moves the licence nowhere.
LEMMA StandingStep ==
  SubscriptionInv /\ SubscriptionInv' /\ [Next]_vars => [Abstract!Next]_(Abstract!vars)
<1> SUFFICES ASSUME SubscriptionInv, SubscriptionInv', [Next]_vars
             PROVE  Abstract!Next \/ UNCHANGED Abstract!vars
  OBVIOUS
<1>1. TypeOK /\ TypeOK' /\ (\E c \in Int : Since(c)) /\ \E d \in Int : Since(d)'
  BY DEF SubscriptionInv
<1>2. CASE UNCHANGED vars
  <2>1. lic' = lic /\ ended' = ended /\ restores' = restores
    BY <1>2 DEF vars
  <2> QED
    BY <2>1, Stays
<1>3. ASSUME NEW w \in Workers, Handler(w) \/ Portal(w) \/ Operator(w)
      PROVE  Abstract!Next \/ UNCHANGED Abstract!vars
  BY <1>1, <1>3, HandlerStands, RequestStands
<1> QED
  BY <1>1, <1>2, <1>3, DecisionStands DEF Next

\* The licence keeps what Standing promises: an event handled while an operator
\* suspends or revokes never undoes it, and nothing but an operator's own
\* reinstatement gives back a licence an operator held or one whose subscription is
\* known to be over (store.go, updateLicenseAndSubscriptionIn).
THEOREM KeepsStandingHolds == Spec => KeepsStanding
<1>1. Init => Abstract!Init
  <2> SUFFICES ASSUME Init PROVE Abstract!Init
    OBVIOUS
  <2>1. lic.status = "trialing" /\ lic.by = "" /\ ended = FALSE /\ restores = 0
    BY DEF Init, Fresh
  <2>2. lic.status \in Usable /\ lic.status \in Statuses
    BY <2>1 DEF Usable, Statuses
  <2>3. StandingOf(lic) = "working"
    BY <2>2, Stands
  <2> QED
    BY <2>1, <2>3 DEF Abstract!Init
<1>2. SubscriptionInv /\ SubscriptionInv' /\ [Next]_vars => [Abstract!Next]_(Abstract!vars)
  BY StandingStep
<1> QED
  BY <1>1, <1>2, SubscriptionInvHolds, PTL DEF Spec, KeepsStanding, Abstract!Spec
=============================================================================
