------------------------------- MODULE Terms -------------------------------
(***************************************************************************)
(* How many seats a licence has, and how many its subscription bills       *)
(* (internal/payment/subscription_change.go, stripe.go, seats.go and       *)
(* internal/store/store.go).  A plan stands for its seats: what lowers a   *)
(* limit is a downgrade, what does not is charged first.                   *)
(*                                                                         *)
(* A downgrade lowers the licence before Stripe is asked, and holds the    *)
(* lower terms against reads that still show the old ones, until the       *)
(* outcome is known or the hold lapses.  Workers are webhook handlers,     *)
(* portal requests and the hourly sweep.  A read of the subscription is    *)
(* stamped with the database clock before it is taken, and applies only    *)
(* if no newer stamp was written to the row; order holds the workers whose *)
(* stamp is still good, oldest first.                                      *)
(***************************************************************************)
EXTENDS Integers, FiniteSets, Sequences, SequencesExt

CONSTANTS
  Workers,      \* handlers, requests and sweeps at once
  MaxSeats,     \* most seats the plan is sold in
  MaxRequests,  \* bound: portal requests
  MaxEdits,     \* bound: edits in the Stripe dashboard
  MaxFaults     \* bound: crashes, lost answers and failed reads

Nobody == "nobody"

ASSUME TermsAssumption ==
  /\ IsFiniteSet(Workers)
  /\ Nobody \notin Workers
  /\ MaxSeats \in Nat \ {0}
  /\ {MaxRequests, MaxEdits, MaxFaults} \subseteq Nat

VARIABLES
  stripe,       \* the subscription: seats billed, and a change held for payment
  flying,       \* changes asked of Stripe that it has not made
  events,       \* events not answered 2xx yet
  lic,          \* the licence row: seats, and the hold on them
  used,         \* seats taken
  lock,         \* who has the licence's change lock
  order,        \* workers whose read stamp is not out of date, oldest first
  workers,      \* what each worker is doing
  requests,     \* portal requests so far
  edits,        \* edits so far
  faults,       \* faults so far
  edited,       \* history: the dashboard changed the seats billed under a change under way,
                \* or only lowered them, as a change can that was no downgrade of the
                \* subscription it was judged on
  crossed       \* history: of two reads, the one stamped first was taken
                \* last, with a downgrade made between them; or Stripe made a
                \* change out of its turn; or the read stamp could not be
                \* moved after a downgrade while a read from before it stood

vars == <<stripe, flying, events, lic, used, lock, order, workers, requests, edits, faults, edited,
          crossed>>
bounds == <<requests, edits, faults, edited, crossed>>

Seats == 1..MaxSeats
NoSeats == 0
MaxEvents == 2      \* bound: more unanswered events are as good as two

SubType == [seats : Seats, pending : Seats \cup {NoSeats}]
LicType == [seats : Seats, hold : {"none", "held", "lapsed"}]
WorkerType ==
  [pc : {"idle", "lock", "resolve", "lower", "ask", "wait", "result", "restore", "mark", "release",
         "stamp", "get", "apply", "settle"},
   job : {"event", "look", "change", "sweep"},
   to : Seats, prev : Seats, down : BOOLEAN, sub : SubType,
   made : BOOLEAN,     \* Stripe made this request's change
   known : BOOLEAN,    \* how the change went is known
   same : BOOLEAN,     \* the hold it found is still in place
   old : BOOLEAN]      \* Stripe made a downgrade since it read

NoSub == [seats |-> 1, pending |-> NoSeats]
Idle == [pc |-> "idle", job |-> "event", to |-> 1, prev |-> 1, down |-> FALSE, sub |-> NoSub,
         made |-> FALSE, known |-> FALSE, same |-> FALSE, old |-> FALSE]

TypeOK ==
  /\ stripe \in SubType
  /\ flying \subseteq [to : Seats, down : BOOLEAN]
  /\ events \in 0..MaxEvents
  /\ lic \in LicType
  /\ used \in 0..MaxSeats
  /\ lock \in Workers \cup {Nobody}
  /\ order \in Seq(Workers) /\ IsInjective(order)
  /\ workers \in [Workers -> WorkerType]
  /\ requests \in 0..MaxRequests /\ edits \in 0..MaxEdits /\ faults \in 0..MaxFaults
  /\ edited \in {"no", "lowered", "under"} /\ crossed \in BOOLEAN

Init ==
  /\ \E s \in Seats : stripe = [seats |-> s, pending |-> NoSeats]
                      /\ lic = [seats |-> s, hold |-> "none"]
  /\ flying = {}
  /\ events = 0
  /\ used = 0
  /\ lock = Nobody
  /\ order = <<>>
  /\ workers = [w \in Workers |-> Idle]
  /\ requests = 0 /\ edits = 0 /\ faults = 0
  /\ edited = "no" /\ crossed = FALSE

-----------------------------------------------------------------------------
(* Stripe. *)

\* Each change of the subscription sends an event.
StripeHas(s) ==
  /\ stripe' = s
  /\ events' = IF events < MaxEvents THEN events + 1 ELSE events

\* A change charged now waits for its payment; any update replaces a
\* change still waiting.
Outcomes(r) ==
  {[seats |-> r.to, pending |-> NoSeats]} \cup
    (IF r.down \/ r.to <= stripe.seats THEN {} ELSE {[stripe EXCEPT !.pending = r.to]})

\* The worker, if any, that waits for the answer.
Asking(w) == [to |-> workers[w].to, down |-> workers[w].down]
\* What is noted of seats that come down other than by a downgrade.
Lowered(s) == IF s < stripe.seats /\ edited = "no" THEN "lowered" ELSE edited

Awaiting(r) == {w \in Workers : workers[w].pc = "wait" /\ Asking(w) = r}

\* The reads taken before a downgrade was made.
Aged(r) ==
  [w \in Workers |-> [workers[w] EXCEPT !.old = @ \/ (r.down /\ workers[w].pc \in {"apply", "result"})]]

\* Not the change that is under way: a downgrade under no hold of its
\* own, another change under one, or a request nobody waits for, made while
\* somebody has the lock.
OutOfTurn(r) ==
  \/ r.down /\ lic # [seats |-> r.to, hold |-> "held"]
  \/ ~r.down /\ lic.hold = "held"
  \/ Awaiting(r) = {} /\ lock # Nobody

\* Stripe makes a change, and answers, or the answer is lost.
StripeMakes ==
  \E r \in flying : \E s \in Outcomes(r) :
    /\ flying' = flying \ {r}
    /\ StripeHas(s)
    /\ \/ /\ workers' = [w \in Workers |->
               IF w \in Awaiting(r)
               THEN [Aged(r)[w] EXCEPT !.pc = "result", !.sub = s, !.known = TRUE]
               ELSE Aged(r)[w]]
          /\ UNCHANGED faults
       \/ /\ Awaiting(r) # {}
          /\ faults < MaxFaults /\ faults' = faults + 1
          /\ workers' = [w \in Workers |->
               [Aged(r)[w] EXCEPT !.made = @ \/ w \in Awaiting(r)]]
    /\ edited' = IF r.down THEN edited ELSE Lowered(s.seats)
    /\ crossed' = (crossed \/ OutOfTurn(r))
    /\ UNCHANGED <<lic, used, lock, order, requests, edits>>

\* A request nobody waits for any more never arrives.
StripeNeverSees ==
  /\ \E r \in flying :
       /\ Awaiting(r) = {}
       /\ flying' = flying \ {r}
  /\ UNCHANGED <<stripe, events, lic, used, lock, order, workers, bounds>>

\* A change waiting for payment is paid, or expires.
PendingEnds ==
  /\ stripe.pending # NoSeats
  /\ \E s \in {stripe.seats, stripe.pending} : StripeHas([seats |-> s, pending |-> NoSeats])
  /\ UNCHANGED <<flying, lic, used, lock, order, workers, bounds>>

\* A change is with the server or with Stripe.
UnderWay == lic.hold = "held" \/ flying # {} \/ \E w \in Workers : workers[w].job = "change"

\* The seller edits the subscription in the Stripe dashboard.
DashboardEdit ==
  /\ edits < MaxEdits /\ edits' = edits + 1
  /\ \E s \in Seats \ {stripe.seats} :
       /\ StripeHas([seats |-> s, pending |-> NoSeats])
       /\ edited' = IF UnderWay THEN "under" ELSE Lowered(s)
  /\ UNCHANGED <<flying, lic, used, lock, order, workers, requests, faults, crossed>>

-----------------------------------------------------------------------------
(* Seats taken and given back, under the licence row's lock. *)

TakeSeat ==
  /\ used < lic.seats
  /\ used' = used + 1
  /\ UNCHANGED <<stripe, flying, events, lic, lock, order, workers, bounds>>

FreeSeat ==
  /\ used > 0
  /\ used' = used - 1
  /\ UNCHANGED <<stripe, flying, events, lic, lock, order, workers, bounds>>

-----------------------------------------------------------------------------
(* Reading the subscription and applying it. *)

Held == lic.hold = "held"
Goto(w, pc) == workers' = [workers EXCEPT ![w].pc = pc]
Done(w) == workers' = [workers EXCEPT ![w] = Idle]
\* A change whose outcome is known ends with a read of the subscription.
ReadsBack(w) == workers' = [workers EXCEPT ![w] = [Idle EXCEPT !.pc = "stamp", !.job = "change", !.known = TRUE]]
Unlock(w) == lock' = IF lock = w THEN Nobody ELSE lock

Current(w) == w \in ToSet(order)
Place(w) == CHOOSE i \in DOMAIN order : order[i] = w

\* A worker has one stamp: asked again, it takes a newer one.
Without(w) == IF Current(w) THEN RemoveAt(order, Place(w)) ELSE order
Stamped(w) == Append(Without(w), w)

\* w's stamp is written to the row: it and every older one are used up.
Newer(w) == SubSeq(order, Place(w) + 1, Len(order))

TakeEvent(w) ==
  /\ workers[w].pc = "idle" /\ events > 0
  /\ events' = events - 1
  /\ workers' = [workers EXCEPT ![w] = [Idle EXCEPT !.pc = "stamp"]]
  /\ UNCHANGED <<stripe, flying, lic, used, lock, order, bounds>>

\* A preview, or a look at a pending change, applies what it reads.
Look(w) ==
  /\ workers[w].pc = "idle"
  /\ requests < MaxRequests /\ requests' = requests + 1
  /\ workers' = [workers EXCEPT ![w] = [Idle EXCEPT !.pc = "stamp", !.job = "look"]]
  /\ UNCHANGED <<stripe, flying, events, lic, used, lock, order, edits, faults, edited, crossed>>

StripeReadStamp(w) ==
  /\ workers[w].pc = "stamp"
  /\ order' = Stamped(w)
  /\ Goto(w, "get")
  /\ UNCHANGED <<stripe, flying, events, lic, used, lock, bounds>>

Get(w) ==
  /\ workers[w].pc = "get"
  /\ workers' = [workers EXCEPT ![w].pc = IF workers[w].job = "change" /\ ~workers[w].known
                                          THEN "result" ELSE "apply",
                                ![w].sub = stripe]
  /\ crossed' = (crossed \/ (Current(w) /\ \E x \in ToSet(Newer(w)) : workers[x].old))
  /\ UNCHANGED <<stripe, flying, events, lic, used, lock, order, requests, edits, faults, edited>>

\* A downgrade holds the terms, and this read does not show them.
KeepsTerms(sub) == Held /\ sub.seats # lic.seats

\* UpdateLicenseFromSubscriptionReadTerms.
Applied(w, sub) ==
  IF ~Current(w) THEN UNCHANGED <<lic, order>>
  ELSE /\ lic' = IF KeepsTerms(sub) THEN lic ELSE [seats |-> sub.seats, hold |-> "none"]
       /\ order' = Newer(w)

\* An event whose terms were kept is asked for again; the sweep then ends
\* the hold it found, or leaves one placed since; a change is over.
Apply(w) ==
  LET kept == Current(w) /\ KeepsTerms(workers[w].sub) IN
  /\ workers[w].pc = "apply"
  /\ Applied(w, workers[w].sub)
  /\ events' = IF workers[w].job = "event" /\ kept /\ events < MaxEvents THEN events + 1 ELSE events
  /\ IF workers[w].job = "sweep" /\ ~kept
     THEN Goto(w, "settle") /\ UNCHANGED lock
     ELSE Done(w) /\ Unlock(w)
  /\ UNCHANGED <<stripe, flying, used, bounds>>

\* A read or a write fails: an event is asked for again, a change is left
\* to the events to come, a check of a lapsed hold to the next.
ReadFails(w) ==
  /\ faults < MaxFaults /\ faults' = faults + 1
  /\ workers[w].pc \in {"stamp", "get", "apply", "settle"}
  /\ events' = IF workers[w].job = "event" /\ events < MaxEvents THEN events + 1 ELSE events
  /\ order' = Without(w)
  /\ Done(w) /\ Unlock(w)
  /\ UNCHANGED <<stripe, flying, lic, used, requests, edits, edited, crossed>>

-----------------------------------------------------------------------------
(* A change (changeSubscription). *)

\* countInUse: more is in use than the terms leave.
InUseOver(to) == used > to

\* What resolveChange refuses: any other change while a downgrade's
\* outcome is not known, and one below what is in use.
Refused(to) == (Held /\ to # lic.seats) \/ (to < stripe.seats /\ InUseOver(to))

\* Asked with a preview's token, which also fixes what the change starts
\* from, or by change-plan, which does not.
Request(w) ==
  /\ workers[w].pc = "idle"
  /\ requests < MaxRequests /\ requests' = requests + 1
  /\ \E to \in Seats :
       /\ ~Refused(to)
       /\ workers' = [workers EXCEPT ![w] = [Idle EXCEPT !.pc = "lock", !.job = "change", !.to = to]]
  /\ UNCHANGED <<stripe, flying, events, lic, used, lock, order, edits, faults, edited, crossed>>

\* LockLicenseChange: taken, or another change is in progress.
LockLicenseChange(w) ==
  /\ workers[w].pc = "lock"
  /\ IF lock = Nobody THEN lock' = w /\ Goto(w, "resolve")
                      ELSE Done(w) /\ UNCHANGED lock
  /\ UNCHANGED <<stripe, flying, events, lic, used, order, bounds>>

\* Checked again under the lock.  A change already made is only read back.
Resolve(w) ==
  LET to == workers[w].to IN
  /\ workers[w].pc = "resolve"
  /\ IF Refused(to) THEN Done(w) /\ Unlock(w)
     ELSE /\ workers' = [workers EXCEPT
               ![w].pc = IF to = stripe.seats /\ stripe.pending = NoSeats THEN "stamp" ELSE "lower",
               ![w].known = (to = stripe.seats /\ stripe.pending = NoSeats),
               ![w].down = (to < stripe.seats)]
          /\ UNCHANGED lock
  /\ UNCHANGED <<stripe, flying, events, lic, used, order, bounds>>

\* A downgrade that would be invoiced now, or costs more, is not made.
DowngradeRefused(w) ==
  /\ workers[w].pc = "lower" /\ workers[w].down
  /\ Done(w) /\ Unlock(w)
  /\ UNCHANGED <<stripe, flying, events, lic, used, order, bounds>>

\* The stamp Stripe's answer is newer than, and for a downgrade
\* LowerLicenseTerms: counted, lowered and held, the stamp moved to now.
\* Refused for what is in use: the lock is given back, and Stripe read.
LowerLicenseTerms(w) ==
  LET to == workers[w].to IN
  /\ workers[w].pc = "lower"
  /\ IF ~workers[w].down
     THEN /\ order' = Stamped(w)
          /\ Goto(w, "ask")
          /\ UNCHANGED <<lic, lock>>
     ELSE IF InUseOver(to)
     THEN /\ ReadsBack(w)
          /\ Unlock(w)
          /\ UNCHANGED <<lic, order>>
     ELSE /\ lic' = [seats |-> to, hold |-> "held"]
          /\ order' = <<>>
          /\ workers' = [x \in Workers |->
               IF x = w THEN [workers[w] EXCEPT !.pc = "ask", !.prev = lic.seats]
                        ELSE [workers[x] EXCEPT !.same = FALSE]]
          /\ UNCHANGED lock
  /\ UNCHANGED <<stripe, flying, events, used, bounds>>

\* subscription.Update, by a key of the change: the same change asked
\* again is the same request.
Ask(w) ==
  /\ workers[w].pc = "ask"
  /\ flying' = flying \cup {Asking(w)}
  /\ Goto(w, "wait")
  /\ UNCHANGED <<stripe, events, lic, used, lock, order, bounds>>

\* Stripe looked at the change and said no.
StripeRefuses(w) ==
  /\ workers[w].pc = "wait" /\ Asking(w) \in flying
  /\ flying' = flying \ {Asking(w)}
  /\ Goto(w, "restore")
  /\ UNCHANGED <<stripe, events, lic, used, lock, order, bounds>>

\* A retry is answered with the change made before: it is read again.
Replayed(w) ==
  /\ workers[w].pc = "wait" /\ workers[w].made
  /\ Goto(w, "stamp")
  /\ UNCHANGED <<stripe, flying, events, lic, used, lock, order, bounds>>

\* MUTANT: the stamp is left alone, and a read from before the change counts.
MarkedRead_Not(w) == order

\* markRead: every read that began before is out of date.
MarkedRead(w) == IF workers[w].down THEN <<>> ELSE order

\* No answer to any try: the read stamp moves to now, unless that write
\* fails with the rest, and one look tells.
OutcomeUnknown(w) ==
  /\ workers[w].pc = "wait"
  /\ faults < MaxFaults /\ faults' = faults + 1
  /\ order' \in {MarkedRead(w), order}
  /\ Goto(w, "stamp")
  /\ UNCHANGED <<stripe, flying, events, lic, used, lock, requests, edits, edited, crossed>>

\* A read has the change, made or held for payment.
ShowsChange(w, sub) ==
  IF sub.pending # NoSeats THEN sub.pending = workers[w].to ELSE sub.seats = workers[w].to

Concludes(w, pc) == workers' = [workers EXCEPT ![w].pc = pc, ![w].sub = NoSub, ![w].made = FALSE]

\* The answer, or the look, is applied.  Not shown: an answer for sure (a
\* change made before, and moved on since) puts back what it replaced;
\* a look does not tell, and the terms stay held.
Result(w) ==
  LET sub == workers[w].sub  shows == ShowsChange(w, sub) IN
  /\ workers[w].pc = "result"
  /\ IF shows \/ ~(workers[w].known \/ workers[w].made) THEN Applied(w, sub)
                                                        ELSE UNCHANGED <<lic, order>>
  /\ CASE shows                                          -> Concludes(w, "mark") /\ UNCHANGED lock
       [] ~shows /\ (workers[w].known \/ workers[w].made) -> Concludes(w, "restore") /\ UNCHANGED lock
       [] OTHER                                          -> Done(w) /\ Unlock(w)
  /\ UNCHANGED <<stripe, flying, events, used, bounds>>

\* The answer shows the change, but applying it fails: the next read will.
ApplyFails(w) ==
  /\ workers[w].pc = "result" /\ ShowsChange(w, workers[w].sub)
  /\ faults < MaxFaults /\ faults' = faults + 1
  /\ order' = Without(w)
  /\ Concludes(w, "mark")
  /\ UNCHANGED <<stripe, flying, events, lic, used, lock, requests, edits, edited, crossed>>

MarkLicenseRead(w) ==
  /\ workers[w].pc = "mark"
  /\ order' = MarkedRead(w)
  /\ Goto(w, "release")
  /\ UNCHANGED <<stripe, flying, events, lic, used, lock, bounds>>

\* Its write fails: that is logged, and the hold let go all the same.
MarkFails(w) ==
  /\ workers[w].pc = "mark" /\ workers[w].down
  /\ faults < MaxFaults /\ faults' = faults + 1
  /\ crossed' = (crossed \/ \E x \in ToSet(order) : workers[x].old)
  /\ Goto(w, "release")
  /\ UNCHANGED <<stripe, flying, events, lic, used, lock, order, requests, edits, edited>>

\* ReleaseLicenseTerms, then the lock is given back and Stripe read again.
ReleaseLicenseTerms(w) ==
  /\ workers[w].pc = "release"
  /\ lic' = IF workers[w].down THEN [lic EXCEPT !.hold = "none"] ELSE lic
  /\ ReadsBack(w)
  /\ Unlock(w)
  /\ UNCHANGED <<stripe, flying, events, used, order, bounds>>

\* MUTANT: what an earlier try lowered is taken for the terms to go back to.
Restores_Always(w) == workers[w].down /\ lic.seats = workers[w].to

\* RestoreLicenseTerms: only what this try lowered, and nothing moved since.
Restores(w) ==
  workers[w].down /\ workers[w].prev # workers[w].to /\ lic.seats = workers[w].to

RestoreLicenseTerms(w) ==
  /\ workers[w].pc = "restore"
  /\ IF Restores(w)
     THEN lic' = [seats |-> workers[w].prev, hold |-> "none"] /\ order' = <<>>
     ELSE UNCHANGED <<lic, order>>
  /\ ReadsBack(w)
  /\ Unlock(w)
  /\ UNCHANGED <<stripe, flying, events, used, bounds>>

\* A write of a downgrade's terms fails: they stay as they were, held or
\* not, and Stripe is read again.
TermsWriteFails(w) ==
  /\ workers[w].pc \in {"lower", "release", "restore"} /\ workers[w].down
  /\ faults < MaxFaults /\ faults' = faults + 1
  /\ ReadsBack(w)
  /\ Unlock(w)
  /\ UNCHANGED <<stripe, flying, events, lic, used, order, requests, edits, edited, crossed>>

\* The process stops; the database gives the lock back.
Crash(w) ==
  /\ workers[w].pc # "idle" /\ workers[w].job = "change"
  /\ faults < MaxFaults /\ faults' = faults + 1
  /\ order' = Without(w)
  /\ Done(w) /\ Unlock(w)
  /\ UNCHANGED <<stripe, flying, events, lic, used, requests, edits, edited, crossed>>

-----------------------------------------------------------------------------
(* Holds that lapse. *)

\* downgradeHoldTTL outlasts any request that may still make the change,
\* and any read taken before it was made.
HoldLapses ==
  /\ Held
  /\ \A r \in flying : ~r.down
  /\ \A w \in Workers : ~workers[w].old /\ ~(workers[w].job = "change" /\ workers[w].down)
  /\ lic' = [lic EXCEPT !.hold = "lapsed"]
  /\ UNCHANGED <<stripe, flying, events, used, lock, order, workers, bounds>>

\* SyncLapsedTermHolds finds the hold, then takes the change lock.
FindLapsedTermHolds(w) ==
  /\ workers[w].pc = "idle" /\ lic.hold = "lapsed"
  /\ workers' = [workers EXCEPT ![w] = [Idle EXCEPT !.pc = "lock", !.job = "sweep", !.same = TRUE]]
  /\ UNCHANGED <<stripe, flying, events, lic, used, lock, order, bounds>>

SweepLocks(w) ==
  /\ workers[w].pc = "lock" /\ workers[w].job = "sweep"
  /\ IF lock = Nobody THEN lock' = w /\ Goto(w, "stamp")
                      ELSE Done(w) /\ UNCHANGED lock
  /\ UNCHANGED <<stripe, flying, events, lic, used, order, bounds>>

SettleLapsedHold(w) ==
  /\ workers[w].pc = "settle"
  /\ lic' = IF workers[w].same THEN [lic EXCEPT !.hold = "none"] ELSE lic
  /\ Done(w) /\ Unlock(w)
  /\ UNCHANGED <<stripe, flying, events, used, order, bounds>>

-----------------------------------------------------------------------------
ChangeLocks(w) == workers[w].job = "change" /\ LockLicenseChange(w)

\* What a worker goes on to do by itself.
Goes(w) ==
  \/ StripeReadStamp(w) \/ Get(w) \/ Apply(w)
  \/ ChangeLocks(w) \/ Resolve(w) \/ LowerLicenseTerms(w) \/ Ask(w) \/ Replayed(w) \/ Result(w)
  \/ MarkLicenseRead(w) \/ ReleaseLicenseTerms(w) \/ RestoreLicenseTerms(w)
  \/ SweepLocks(w) \/ SettleLapsedHold(w)

Next ==
  \/ StripeMakes \/ StripeNeverSees \/ PendingEnds \/ DashboardEdit
  \/ TakeSeat \/ FreeSeat \/ HoldLapses
  \/ \E w \in Workers :
       \/ Goes(w) \/ TakeEvent(w) \/ Look(w) \/ Request(w) \/ FindLapsedTermHolds(w)
       \/ DowngradeRefused(w) \/ StripeRefuses(w) \/ OutcomeUnknown(w)
       \/ ReadFails(w) \/ ApplyFails(w) \/ MarkFails(w) \/ TermsWriteFails(w) \/ Crash(w)

\* Stripe answers or drops what it is asked and asks again for an event it
\* got no 2xx for; a worker goes on; the sweep runs every hour.
Fairness ==
  /\ WF_vars(StripeMakes \/ StripeNeverSees)
  /\ WF_vars(HoldLapses)
  /\ WF_vars(\E w \in Workers : TakeEvent(w))
  /\ WF_vars(\E w \in Workers : FindLapsedTermHolds(w))
  /\ \A w \in Workers : WF_vars(Goes(w))

Spec == Init /\ [][Next]_vars /\ Fairness

-----------------------------------------------------------------------------
\* The licence never offers a seat that is not paid for, however its
\* changes, their lost answers and the reads of other handlers overlap:
\* only the seller lowering the subscription in Stripe, two reads that
\* cross, a read stamp that could not be moved while a read from before the
\* downgrade stood (a failed MarkLicenseRead is logged, and the hold let go
\* all the same), and a change that reaches Stripe during another, get ahead
\* of it (subscription_change.go, changeSubscription; store.go,
\* LowerLicenseTerms).
SeatsArePaid == lic.seats <= stripe.seats \/ edited # "no" \/ crossed

\* A downgrade leaves nobody on a seat no longer billed: what is in use is
\* counted under the lock every seat is taken under, and "no read from
\* before the change can put the old terms back" (store.go, MarkLicenseRead).
UseIsPaid == used <= stripe.seats \/ edited # "no"

\* Once Stripe rests, the licence comes to have the seats it bills, and no
\* hold, whatever answer was lost and worker died (stripe.go,
\* settleLapsedHold).  Not so where reads crossed and more than one thing
\* failed: MarkLicenseRead also puts out of date the read an event has
\* begun, which may be the last there is if its own request then dies.
TermsSettle ==
  <>[](lic = [seats |-> stripe.seats, hold |-> "none"]) \/ <>(edited = "under" \/ (crossed /\ faults > 1))
=============================================================================
