----------------------------- MODULE Fulfilment -----------------------------
(***************************************************************************)
(* One checkout session, from the buyer's payment at Stripe to the licence *)
(* (internal/payment/stripe.go, internal/store/store.go).  Stripe sends    *)
(* an event when the checkout completes and, for a delayed payment, one    *)
(* when that succeeds or fails; the success page and the sync of every     *)
(* replica look at the session as well.  Each statement is a step.         *)
(*                                                                         *)
(* Events and the session are claimed in the same way, with two rows of    *)
(* processed_events: a reservation, which stays, and an in-flight marker,  *)
(* which goes when the work is done.  A marker older than staleClaimAge is *)
(* taken over: a request's work takes at most a fifth of that              *)
(* (webhookWorkTimeout) and the sync's few statements under a claim are    *)
(* taken to, so a marker is stale only when nobody works under it.         *)
(***************************************************************************)
EXTENDS Integers, FiniteSets

CONSTANTS
  Requests,     \* webhook and success-page requests in flight at once
  Syncs,        \* sync loops, one per replica
  MaxFaults     \* bound: crashes, failed statements, spoilt plans

ASSUME FulfilmentAssumption ==
  /\ IsFiniteSet(Requests \cup Syncs)
  /\ Requests \cap Syncs = {}
  /\ MaxFaults \in Nat

VARIABLES
  session,      \* at Stripe: "open", "unpaid", "paid" or "failed"
  events,       \* payment status in each event's payload; "none": not sent yet
  plan,         \* what is bought: "good", "unresolved" or "held"
  rows,         \* processed_events of the events and the session
  pending,      \* the pending-session marker
  licence,      \* the licence row with the session's id
  workers,      \* what each request and sync is doing
  acked,        \* events answered 2xx, which Stripe does not send again
  handled,      \* history: events whose handler succeeded
  torn,         \* history: a claim was read, or lost, half-way through a change
  misread,      \* history: the session was read as fulfilled half-way through one
  faults        \* faults so far

vars == <<session, events, plan, rows, pending, licence, workers, acked, handled,
          torn, misread, faults>>

Workers == Requests \cup Syncs
Events == {"completed", "outcome"}
Things == Events \cup {"session"}

RowsType == [reserved : BOOLEAN, marker : {"none", "fresh", "stale"}]
NoRows == [reserved |-> FALSE, marker |-> "none"]
Claimed == [reserved |-> TRUE, marker |-> "fresh"]

\* on is what a claim is about; why, the event or page or sync it is for;
\* result, what fulfillCheckout returned: fulfilled, not, or an error; last,
\* that this is the look at the session after its claim was not to be had.
ClaimSteps == {"reserve", "inflight", "stale", "again"}
WorkerType == [pc : ClaimSteps \cup {"idle", "handle", "check", "check2", "create", "release",
                                     "complete", "returned", "finish", "backlog"},
               on : Things, why : Events \cup {"verify", "recent", "pending"},
               result : {"ok", "no", "err"}, last : BOOLEAN]
Idle == [pc |-> "idle", on |-> "session", why |-> "verify", result |-> "ok", last |-> FALSE]

TypeOK ==
  /\ session \in {"open", "unpaid", "paid", "failed"}
  /\ events \in [Events -> {"none", "unpaid", "paid", "failed"}]
  /\ plan \in {"good", "unresolved", "held"}
  /\ rows \in [Things -> RowsType]
  /\ pending \in BOOLEAN
  /\ licence \in BOOLEAN
  /\ workers \in [Workers -> WorkerType]
  /\ acked \subseteq Events
  /\ handled \subseteq Events
  /\ torn \in BOOLEAN
  /\ misread \in BOOLEAN
  /\ faults \in 0 .. MaxFaults

Init ==
  /\ session = "open"
  /\ events = [e \in Events |-> "none"]
  /\ plan = "good"
  /\ rows = [t \in Things |-> NoRows]
  /\ pending = FALSE
  /\ licence = FALSE
  /\ workers = [w \in Workers |-> Idle]
  /\ acked = {}
  /\ handled = {}
  /\ torn = FALSE
  /\ misread = FALSE
  /\ faults = 0

At(w, pc) == workers[w].pc = pc
Becomes(w, r) == workers' = [workers EXCEPT ![w] = r]
Goes(w, pc) == Becomes(w, [workers[w] EXCEPT !.pc = pc])

\* A request ends; the sync goes on to the backlog.
Left(w) == IF workers[w].why = "recent" THEN [Idle EXCEPT !.pc = "backlog"] ELSE Idle
Ends(w) == Becomes(w, Left(w))

\* fulfillCheckout returns; its caller may have something to write down (Return).
Returns(w, result) ==
  IF result = "ok" /\ workers[w].why # "pending"
  THEN IF workers[w].why \in Events
       THEN Becomes(w, [Idle EXCEPT !.pc = "finish", !.why = workers[w].why])
       ELSE Ends(w)
  ELSE Becomes(w, [Idle EXCEPT !.pc = "returned", !.why = workers[w].why, !.result = result])

Fault ==
  /\ faults < MaxFaults
  /\ faults' = faults + 1

-----------------------------------------------------------------------------
(***************************************************************************)
(* The buyer, Stripe and the merchant                                      *)
(***************************************************************************)

\* The checkout completes, paid or with a payment that takes days.
Buy ==
  /\ session = "open"
  /\ session' \in {"paid", "unpaid"}
  /\ events' = [events EXCEPT !["completed"] = session']
  /\ UNCHANGED <<plan, rows, pending, licence, workers, acked, handled, torn, misread, faults>>

\* The delayed payment succeeds or fails.
Settle ==
  /\ session = "unpaid"
  /\ session' \in {"paid", "failed"}
  /\ events' = [events EXCEPT !["outcome"] = session']
  /\ UNCHANGED <<plan, rows, pending, licence, workers, acked, handled, torn, misread, faults>>

\* The plan is deleted or remapped, or may not be issued for now: retyped, or
\* its updates not enforceable.
SpoilPlan ==
  /\ plan = "good"
  /\ Fault
  /\ plan' \in {"unresolved", "held"}
  /\ UNCHANGED <<session, events, rows, pending, licence, workers, acked, handled, torn, misread>>

\* The merchant puts it right.
RepairPlan ==
  /\ plan # "good"
  /\ plan' = "good"
  /\ UNCHANGED <<session, events, rows, pending, licence, workers, acked, handled, torn, misread, faults>>

-----------------------------------------------------------------------------
(***************************************************************************)
(* The claim of an event or a session                                      *)
(***************************************************************************)

\* What follows a claim: an event's handler, the session's licence.
AfterClaim(w) ==
  IF workers[w].on = "session" THEN "create"
  ELSE IF events[workers[w].on] = "paid" THEN "check"
  ELSE "handle"

\* What follows a claim that is not to be had: another look at the session; for
\* an event, a 503.
NotClaimed(w) ==
  IF workers[w].on = "session"
  THEN [workers[w] EXCEPT !.pc = "check", !.last = TRUE]
  ELSE Idle

\* reserve's transaction: both rows or, with a reservation there, none.  Two of
\* them do not overlap, so errClaimTaken does not arise.
Reserve(w) ==
  /\ At(w, "reserve")
  /\ LET t == workers[w].on
     IN  IF rows[t].reserved
         THEN Goes(w, "inflight") /\ UNCHANGED rows
         ELSE Goes(w, AfterClaim(w)) /\ rows' = [rows EXCEPT ![t] = Claimed]
  /\ UNCHANGED <<session, events, plan, pending, licence, acked, handled, torn, misread, faults>>

\* There is no marker because the claim is being taken over or was given back,
\* not because it is done.
HalfWay(t) ==
  /\ rows[t].marker = "none"
  /\ ~rows[t].reserved \/ \E x \in Workers : At(x, "again") /\ workers[x].on = t

\* HasProcessedEvent of the marker: reserved without one reads as done.  A
\* session that has its licence is not taken over either.
ReadMarker(w) ==
  /\ At(w, "inflight")
  /\ LET t == workers[w].on
     IN  /\ torn' = (torn \/ HalfWay(t))
         /\ IF rows[t].marker = "none" /\ t \in Events
            THEN Ends(w) /\ acked' = acked \cup {t}
            ELSE /\ UNCHANGED acked
                 /\ IF rows[t].marker = "none" \/ (t = "session" /\ licence)
                    THEN Becomes(w, NotClaimed(w))
                    ELSE Goes(w, "stale")
  /\ UNCHANGED <<session, events, plan, rows, pending, licence, handled, misread, faults>>

\* MUTANT: a marker is taken over however fresh it is.
IsStale_AnyAge(t) == rows[t].marker # "none"

IsStale(t) == rows[t].marker = "stale"

\* ReleaseStaleProcessedEvent deletes the marker, a statement of its own.
ReleaseStale(w) ==
  /\ At(w, "stale")
  /\ LET t == workers[w].on
     IN  IF IsStale(t)
         THEN Goes(w, "again") /\ rows' = [rows EXCEPT ![t].marker = "none"]
         ELSE Becomes(w, NotClaimed(w)) /\ UNCHANGED rows
  /\ UNCHANGED <<session, events, plan, pending, licence, acked, handled, torn, misread, faults>>

\* ClaimProcessedEvent then puts its own in its place.
ClaimAgain(w) ==
  /\ At(w, "again")
  /\ LET t == workers[w].on
     IN  IF rows[t].marker = "none"
         THEN Goes(w, AfterClaim(w)) /\ rows' = [rows EXCEPT ![t].marker = "fresh"]
         ELSE Becomes(w, NotClaimed(w)) /\ UNCHANGED rows
  /\ UNCHANGED <<session, events, plan, pending, licence, acked, handled, torn, misread, faults>>

-----------------------------------------------------------------------------
(***************************************************************************)
(* Fulfilling the session (fulfillCheckout)                                *)
(***************************************************************************)

\* The session is not fulfilled yet: the plan, the customer's address and a key
\* are looked up before it is claimed.
Unfulfilled(w) ==
  IF workers[w].last \/ plan = "unresolved"
  THEN Returns(w, "no")
  ELSE Becomes(w, [workers[w] EXCEPT !.pc = "reserve", !.on = "session"])

\* sessionFulfilled: the licence, and then the reservation.
CheckSession(w) ==
  /\ At(w, "check")
  /\ IF licence THEN Returns(w, "ok")
     ELSE IF rows["session"].reserved THEN Goes(w, "check2")
     ELSE Unfulfilled(w)
  /\ UNCHANGED <<session, events, plan, rows, pending, licence, acked, handled, torn, misread, faults>>

\* And then the marker: reserved without one reads as fulfilled.
CheckMarker(w) ==
  /\ At(w, "check2")
  /\ misread' = (misread \/ (HalfWay("session") /\ ~licence))
  /\ IF rows["session"].marker = "none" THEN Returns(w, "ok") ELSE Unfulfilled(w)
  /\ UNCHANGED <<session, events, plan, rows, pending, licence, acked, handled, torn, faults>>

\* The licence is written, if the plan allows it; the unique index on its
\* session id refuses a second one.
CreateLicence(w) ==
  /\ At(w, "create")
  /\ IF plan # "good" THEN Goes(w, "release") /\ UNCHANGED licence
     ELSE IF licence THEN Returns(w, "ok") /\ UNCHANGED licence
     ELSE Goes(w, "complete") /\ licence' = TRUE
  /\ UNCHANGED <<session, events, plan, rows, pending, acked, handled, torn, misread, faults>>

\* MUTANT: only the marker is given back; what is left looks done.
Released_MarkerOnly(r) == [r EXCEPT !.marker = "none"]

\* release: both rows in one transaction.
Released(r) == NoRows

\* CompleteProcessedEvent: the reservation stays as the done marker.
Completed(r) == [r EXCEPT !.marker = "none"]

ReleaseSession(w) ==
  /\ At(w, "release")
  /\ rows' = [rows EXCEPT !["session"] = Released(@)]
  /\ Returns(w, "err")
  /\ UNCHANGED <<session, events, plan, pending, licence, acked, handled, torn, misread, faults>>

\* The marker goes, and a pending marker of an earlier look with it.
CompleteSession(w) ==
  /\ At(w, "complete")
  /\ rows' = [rows EXCEPT !["session"] = Completed(@)]
  /\ pending' = FALSE
  /\ Returns(w, "ok")
  /\ UNCHANGED <<session, events, plan, licence, acked, handled, torn, misread, faults>>

\* Failing to write that is not fatal: the licence answers every retry.
CompleteFails(w) ==
  /\ At(w, "complete")
  /\ Fault
  /\ pending' \in {pending, FALSE}
  /\ Returns(w, "ok")
  /\ UNCHANGED <<session, events, plan, rows, licence, acked, handled, torn, misread>>

-----------------------------------------------------------------------------
(***************************************************************************)
(* The webhook, the success page and the sync                              *)
(***************************************************************************)

Deliver(r, e) ==
  /\ At(r, "idle")
  /\ events[e] # "none"
  /\ e \notin acked
  /\ Becomes(r, [Idle EXCEPT !.pc = "reserve", !.on = e, !.why = e])
  /\ UNCHANGED <<session, events, plan, rows, pending, licence, acked, handled, torn, misread, faults>>

\* onCheckoutCompleted and onAsyncPaymentFailed, of a session that is not paid:
\* it is remembered, or forgotten.
Handle(h) ==
  /\ At(h, "handle")
  /\ pending' = (events[workers[h].why] = "unpaid")
  /\ Becomes(h, [Idle EXCEPT !.pc = "finish", !.why = workers[h].why])
  /\ UNCHANGED <<session, events, plan, rows, licence, acked, handled, torn, misread, faults>>

\* VerifyCheckoutSession.  (With the licence there and nothing pending it, and
\* the sync, change nothing.)
Verify(r) ==
  /\ At(r, "idle")
  /\ session = "paid"
  /\ ~licence \/ pending
  /\ Becomes(r, [Idle EXCEPT !.pc = "check", !.why = "verify"])
  /\ UNCHANGED <<session, events, plan, rows, pending, licence, acked, handled, torn, misread, faults>>

\* SyncRecentCheckouts, which does not see a session created more than ten
\* minutes ago; that one is left to the backlog.
StartSync(s) ==
  /\ At(s, "idle")
  /\ session # "open"
  /\ ~licence \/ pending
  /\ \/ /\ session = "paid"
        /\ Becomes(s, [Idle EXCEPT !.pc = "check", !.why = "recent"])
        /\ UNCHANGED pending
     \/ /\ pending' \in IF session = "paid" THEN {pending} ELSE {pending, TRUE}
        /\ Becomes(s, [Idle EXCEPT !.pc = "backlog"])
  /\ UNCHANGED <<session, events, plan, rows, licence, acked, handled, torn, misread, faults>>

\* MUTANT: markers of sessions that were fulfilled meanwhile are not swept.
Swept_Never == pending

\* DeleteFulfilledPendingSessions
Swept == pending /\ ~licence

\* SyncPendingCheckouts, for this session.
SyncPending(s) ==
  /\ At(s, "backlog")
  /\ pending' = Swept
  /\ IF pending /\ ~licence /\ session = "paid"
     THEN Becomes(s, [Idle EXCEPT !.pc = "check", !.why = "pending"])
     ELSE Becomes(s, Idle)
  /\ UNCHANGED <<session, events, plan, rows, licence, acked, handled, torn, misread, faults>>

\* MUTANT: an unfulfilled session is left to whoever holds its claim.
Remembered_OnErrorOnly(result) == result = "err"

\* Not fulfilled: the pending marker keeps the session in the backlog.
Remembered(result) == result # "ok"

\* The caller of fulfillCheckout writes down what it returned.
Return(w) ==
  /\ At(w, "returned")
  /\ LET why == workers[w].why
         result == workers[w].result
     IN  /\ pending' = IF why = "pending" THEN pending /\ result # "ok" ELSE pending \/ Remembered(result)
         /\ IF why \in Events THEN Goes(w, "finish") ELSE Ends(w)
  /\ UNCHANGED <<session, events, plan, rows, licence, acked, handled, torn, misread, faults>>

\* The event is released and Stripe asked to retry, or completed and answered;
\* the answer may not arrive.
Finish(h) ==
  /\ At(h, "finish")
  /\ LET e == workers[h].why
     IN  IF workers[h].result = "err"
         THEN /\ rows' = [rows EXCEPT ![e] = Released(@)]
              /\ UNCHANGED <<acked, handled>>
         ELSE /\ rows' = [rows EXCEPT ![e] = Completed(@)]
              /\ acked' \in {acked, acked \cup {e}}
              /\ handled' = handled \cup {e}
  /\ Ends(h)
  /\ UNCHANGED <<session, events, plan, pending, licence, torn, misread, faults>>

-----------------------------------------------------------------------------
(***************************************************************************)
(* Faults and time                                                         *)
(***************************************************************************)

\* What a worker may do when its statement or call fails.  Some reads between
\* the session's claim and its licence return without a release.
OnError(w) ==
  LET r == workers[w]
      returned == [Idle EXCEPT !.pc = "returned", !.why = r.why, !.result = "err"]
      finish == [Idle EXCEPT !.pc = "finish", !.why = r.why, !.result = "err"]
  IN  CASE r.pc = "create" -> {[r EXCEPT !.pc = "release"], returned}
        [] r.pc = "handle" \/ (r.pc = "returned" /\ r.why \in Events) -> {finish}
        [] r.pc \in {"check", "check2", "release"} \/ (r.pc \in ClaimSteps /\ r.on = "session") -> {returned}
        [] OTHER -> {Left(w)}

\* The transaction that writes the licence may have committed all the same.
Fail(w) ==
  /\ workers[w].pc \notin {"idle", "complete"}
  /\ Fault
  /\ torn' = (torn \/ At(w, "again"))
  /\ \E r \in OnError(w) : Becomes(w, r)
  /\ licence' \in {licence, licence \/ (At(w, "create") /\ plan = "good")}
  /\ UNCHANGED <<session, events, plan, rows, pending, acked, handled, misread>>

\* The server stops.
Crash(w) ==
  /\ workers[w].pc # "idle"
  /\ Fault
  /\ torn' = (torn \/ At(w, "again"))
  /\ Becomes(w, Idle)
  /\ UNCHANGED <<session, events, plan, rows, pending, licence, acked, handled, misread>>

\* The worker is between the claim of t and its end.
Works(w, t) ==
  IF t = "session" THEN workers[w].pc \in {"create", "release", "complete"}
  ELSE /\ workers[w].pc # "idle"
       /\ workers[w].why = t
       /\ ~(workers[w].pc \in ClaimSteps /\ workers[w].on = t)

GoStale(t) ==
  /\ rows[t].marker = "fresh"
  /\ \A w \in Workers : ~Works(w, t)
  /\ rows' = [rows EXCEPT ![t].marker = "stale"]
  /\ UNCHANGED <<session, events, plan, pending, licence, workers, acked, handled, torn, misread, faults>>

\* What a worker does next when nothing fails.
Step(w) ==
  \/ Reserve(w) \/ ReadMarker(w) \/ ReleaseStale(w) \/ ClaimAgain(w)
  \/ CheckSession(w) \/ CheckMarker(w)
  \/ CreateLicence(w) \/ ReleaseSession(w) \/ CompleteSession(w)
  \/ Handle(w) \/ SyncPending(w) \/ Return(w) \/ Finish(w)

Next ==
  \/ Buy \/ Settle \/ SpoilPlan \/ RepairPlan
  \/ \E t \in Things : GoStale(t)
  \/ \E r \in Requests, e \in Events : Deliver(r, e)
  \/ \E r \in Requests : Verify(r)
  \/ \E s \in Syncs : StartSync(s)
  \/ \E w \in Workers : Step(w) \/ CompleteFails(w) \/ Fail(w) \/ Crash(w)

\* Stripe retries an event until it is acknowledged, and every request gets a
\* goroutine; a sync comes round every five minutes; work once begun goes on.
Fairness ==
  /\ \A t \in Things : WF_vars(GoStale(t))
  /\ \A e \in Events : SF_vars(\E r \in Requests : Deliver(r, e))
  /\ \A s \in Syncs : WF_vars(StartSync(s))
  /\ \A w \in Workers : WF_vars(Step(w))

Spec == Init /\ [][Next]_vars /\ Fairness

-----------------------------------------------------------------------------
(***************************************************************************)
(* Properties                                                              *)
(***************************************************************************)

\* An event is handled, and a session fulfilled, by one worker at a time: not
\* when a claim is taken over, nor while another gives it back.
OneWorks == \A t \in Things : \A w, x \in Workers : Works(w, t) /\ Works(x, t) => w = x

\* An event answered 2xx has been handled: what reserve and release write both
\* rows in one transaction for.
AckedIsHandled == acked \subseteq handled

\* It has, unless the claim of an event or a session was read between two
\* statements of a takeover, or a release fell between the reader's own two, or
\* a worker was lost between the two of its takeover (fulfilment_torn).
AckedIsHandledUntorn == ~torn => AckedIsHandled

\* The session reads as fulfilled to everybody from now on, and is not: the
\* worker that took its claim over stopped, or failed, between
\* ReleaseStaleProcessedEvent and ClaimProcessedEvent.  The comment on
\* staleClaimAge says this does not happen; it takes two losses.
Stranded ==
  /\ rows["session"] = Completed(Claimed)
  /\ ~licence
  /\ \A w \in Workers : ~(At(w, "again") /\ workers[w].on = "session")

\* A paid session gets its licence in the end, whatever worker stops or fails,
\* and with a plan that is put right only later.  Three things lose it: its
\* claim left stranded; an event of it acknowledged unhandled
\* (fulfilment_torn); and sessionFulfilled, which reads the reservation and the
\* marker in two statements, reading it as fulfilled half-way through a release
\* or a takeover whose worker then stops.
PaidGetsLicence ==
  <>[](plan = "good") =>
    (session = "paid" ~> (licence \/ Stranded \/ ~AckedIsHandled \/ misread))

\* The backlog forgets a session that has its licence, also when the marker was
\* written after the licence was.
BacklogDrains == licence ~> ~pending
=============================================================================
