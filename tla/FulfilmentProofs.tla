-------------------------- MODULE FulfilmentProofs --------------------------
(***************************************************************************)
(* Proofs about Fulfilment, for any number of requests in flight, of sync  *)
(* loops and of faults.                                                    *)
(***************************************************************************)
EXTENDS Fulfilment, TLAPS

-----------------------------------------------------------------------------
(***************************************************************************)
(* The inductive invariant                                                 *)
(***************************************************************************)

\* Works, of what a worker is about to be.
RecordWorks(r, t) ==
  IF t = "session" THEN r.pc \in {"create", "release", "complete"}
  ELSE r.pc # "idle" /\ r.why = t /\ ~(r.pc \in ClaimSteps /\ r.on = t)

\* Only the webhook handles and finishes, and it claims the event it is for.
Apt(r) ==
  /\ r.pc \in {"finish", "handle"} => r.why \in Events
  /\ r.pc \in ClaimSteps /\ r.on \in Events => r.why = r.on

AllApt == \A w \in Workers : Apt(workers[w])

\* Who works holds both rows, alone.
ClaimsHeld ==
  \A t \in Things : \A w \in Workers :
    Works(w, t) => /\ rows[t] = Claimed
                   /\ \A x \in Workers : Works(x, t) => x = w

\* The worker has taken a stale marker away and is to put its own.
TakesOver(w, t) == At(w, "again") /\ workers[w].on = t

\* A marker is never without its reservation, and who takes one over is alone.
TakeoversHeld ==
  \A t \in Things :
    /\ rows[t].marker # "none" => rows[t].reserved
    /\ \A w \in Workers :
         TakesOver(w, t) => /\ rows[t].reserved /\ rows[t].marker = "none"
                            /\ \A x \in Workers : TakesOver(x, t) => x = w

ClaimInv == TypeOK /\ AllApt /\ ClaimsHeld /\ TakeoversHeld

\* What looks done was handled, or is being taken over.
DoneIsHandled ==
  ~torn => \A e \in Events :
    rows[e].reserved /\ rows[e].marker = "none" =>
      \/ e \in handled
      \/ \E x \in Workers : TakesOver(x, e)

\* r is a next state of w that begins neither work nor a takeover.
Quiet(w, r) ==
  /\ r \in WorkerType
  /\ r.pc # "again"
  /\ Apt(r)
  /\ \A t \in Things : RecordWorks(r, t) => Works(w, t)

-----------------------------------------------------------------------------
(***************************************************************************)
(* What the helpers give                                                   *)
(***************************************************************************)

\* Works is RecordWorks of what the worker is.
LEMMA WorksRecord ==
  ASSUME NEW w, NEW t PROVE Works(w, t) <=> RecordWorks(workers[w], t)
  BY DEF Works, RecordWorks

\* Ending, or going on to the backlog, begins no work.
LEMMA Rests ==
  ASSUME NEW w \in Workers, TypeOK
  PROVE  Quiet(w, Idle) /\ Quiet(w, Left(w)) /\ Quiet(w, [Idle EXCEPT !.pc = "backlog"])
<1>1. Idle \in WorkerType /\ Idle.pc = "idle" /\ Idle.why = "verify"
  BY DEF Idle, WorkerType, ClaimSteps, Things, Events
<1> DEFINE b == [Idle EXCEPT !.pc = "backlog"]
<1>2. b \in WorkerType /\ b.pc = "backlog" /\ b.why = Idle.why
  BY <1>1 DEF WorkerType
<1> HIDE DEF b
<1>4. Quiet(w, Idle)
  BY <1>1 DEF Quiet, Apt, RecordWorks, ClaimSteps, Things, Events
<1>5. Quiet(w, b)
  BY <1>1, <1>2 DEF Quiet, Apt, RecordWorks, ClaimSteps, Things, Events
<1> QED
  BY <1>4, <1>5 DEF Left, b

\* A worker that goes on to another step of the same work.
LEMMA GoesOn ==
  ASSUME NEW w \in Workers, TypeOK, Apt(workers[w]),
         workers[w].pc # "idle",
         NEW pc \in {"check2", "returned", "finish"},
         workers[w].pc \notin ClaimSteps,
         pc = "finish" => workers[w].why \in Events
  PROVE  Quiet(w, [workers[w] EXCEPT !.pc = pc])
<1> DEFINE r == [workers[w] EXCEPT !.pc = pc]
<1>1. workers[w] \in WorkerType
  BY DEF TypeOK
<1>2. r \in WorkerType /\ r.pc = pc /\ r.why = workers[w].why
  BY <1>1 DEF WorkerType
<1> QED
  BY <1>1, <1>2 DEF Quiet, Apt, RecordWorks, Works, ClaimSteps, Things, Events, WorkerType

\* fulfillCheckout returns: its caller goes on, or is done.
LEMMA ReturnsQuietly ==
  ASSUME NEW w \in Workers, NEW result \in {"ok", "no", "err"}, TypeOK,
         workers[w].pc \notin ClaimSteps \cup {"idle"},
         Returns(w, result)
  PROVE  \E r : Quiet(w, r) /\ Becomes(w, r)
<1> DEFINE why == workers[w].why
           f == [Idle EXCEPT !.pc = "finish", !.why = why]
           g == [Idle EXCEPT !.pc = "returned", !.why = why, !.result = result]
<1>1. workers[w] \in WorkerType
  BY DEF TypeOK
<1>2. Idle \in WorkerType
  BY DEF Idle, WorkerType, ClaimSteps, Things, Events
<1>3. f \in WorkerType /\ f.pc = "finish" /\ f.why = why
  BY <1>1, <1>2 DEF WorkerType
<1>4. g \in WorkerType /\ g.pc = "returned" /\ g.why = why
  BY <1>1, <1>2 DEF WorkerType
<1>5. (Becomes(w, f) /\ why \in Events) \/ Becomes(w, Left(w)) \/ Becomes(w, g)
  BY DEF Returns, Ends
<1> HIDE DEF f, g
<1>6. why \in Events => Quiet(w, f)
  BY <1>1, <1>3 DEF Quiet, Apt, RecordWorks, Works, ClaimSteps, Things, Events
<1>7. Quiet(w, g)
  BY <1>1, <1>4 DEF Quiet, Apt, RecordWorks, Works, ClaimSteps, Things, Events
<1> QED
  BY <1>5, <1>6, <1>7, Rests

\* The session is claimed next, or fulfillCheckout returns.
LEMMA UnfulfilledQuietly ==
  ASSUME NEW w \in Workers, TypeOK,
         workers[w].pc \notin ClaimSteps \cup {"idle"},
         Unfulfilled(w)
  PROVE  \E r : Quiet(w, r) /\ Becomes(w, r)
<1> DEFINE r == [workers[w] EXCEPT !.pc = "reserve", !.on = "session"]
<1>1. workers[w] \in WorkerType
  BY DEF TypeOK
<1>2. r \in WorkerType /\ r.pc = "reserve" /\ r.on = "session" /\ r.why = workers[w].why
  BY <1>1 DEF WorkerType, ClaimSteps, Things
<1>3. Becomes(w, r) \/ Returns(w, "no")
  BY DEF Unfulfilled
<1> HIDE DEF r
<1>4. Quiet(w, r)
  BY <1>1, <1>2 DEF Quiet, Apt, RecordWorks, Works, ClaimSteps, Things, Events
<1> QED
  BY <1>3, <1>4, ReturnsQuietly

\* A claim that is not to be had begins no work.
LEMMA NotClaimedQuietly ==
  ASSUME NEW w \in Workers, TypeOK, workers[w].pc \in ClaimSteps
  PROVE  Quiet(w, NotClaimed(w))
<1> DEFINE r == [workers[w] EXCEPT !.pc = "check", !.last = TRUE]
<1>1. workers[w] \in WorkerType
  BY DEF TypeOK
<1>2. r \in WorkerType /\ r.pc = "check" /\ r.why = workers[w].why
  BY <1>1 DEF WorkerType
<1> HIDE DEF r
<1>3. workers[w].on = "session" => Quiet(w, r)
  BY <1>1, <1>2 DEF Quiet, Apt, RecordWorks, Works, ClaimSteps, Things, Events
<1> QED
  BY <1>3, Rests DEF NotClaimed, r

\* Nor does the next step towards a claim.
LEMMA ClaimingQuietly ==
  ASSUME NEW w \in Workers, TypeOK, Apt(workers[w]),
         workers[w].pc \in ClaimSteps, NEW pc \in ClaimSteps \ {"again"}
  PROVE  Quiet(w, [workers[w] EXCEPT !.pc = pc])
<1> DEFINE r == [workers[w] EXCEPT !.pc = pc]
<1>1. workers[w] \in WorkerType
  BY DEF TypeOK
<1>2. r \in WorkerType /\ r.pc = pc /\ r.why = workers[w].why /\ r.on = workers[w].on
  BY <1>1 DEF WorkerType
<1> HIDE DEF r
<1>3. Quiet(w, r)
  BY <1>1, <1>2 DEF Quiet, Apt, RecordWorks, Works, ClaimSteps, Things, Events
<1> QED
  BY <1>2, <1>3 DEF r

\* A claim that is had begins the work on what was claimed, and no other.
LEMMA ClaimedStarts ==
  ASSUME NEW w \in Workers, TypeOK, Apt(workers[w]), workers[w].pc \in ClaimSteps
  PROVE  LET r == [workers[w] EXCEPT !.pc = AfterClaim(w)]
         IN  /\ r \in WorkerType
             /\ Apt(r) /\ r.pc # "again"
             /\ \A u \in Things \ {workers[w].on} : RecordWorks(r, u) => Works(w, u)
<1> DEFINE r == [workers[w] EXCEPT !.pc = AfterClaim(w)]
<1>1. workers[w] \in WorkerType
  BY DEF TypeOK
<1>2. /\ AfterClaim(w) \in {"create", "check", "handle"}
      /\ AfterClaim(w) = "create" <=> workers[w].on = "session"
  BY <1>1 DEF AfterClaim, WorkerType, Things
<1>3. r \in WorkerType /\ r.pc = AfterClaim(w) /\ r.why = workers[w].why /\ r.on = workers[w].on
  BY <1>1, <1>2 DEF WorkerType
<1> HIDE DEF r
<1>4. workers[w].on \in Things
  BY <1>1 DEF WorkerType
<1>5. Apt(r)
  BY <1>2, <1>3, <1>4 DEF Apt, ClaimSteps, Things, Events
<1>6. \A u \in Things \ {workers[w].on} : RecordWorks(r, u) => Works(w, u)
  BY <1>2, <1>3, <1>4 DEF Apt, RecordWorks, Works, ClaimSteps, Things, Events
<1>7. r.pc # "again"
  BY <1>2, <1>3
<1> QED
  BY <1>3, <1>5, <1>6, <1>7 DEF r

-----------------------------------------------------------------------------
(***************************************************************************)
(* One worker moves                                                        *)
(***************************************************************************)

\* Beginning no work leaves every claim with who holds it.
LEMMA QuietStep ==
  ASSUME ClaimInv, NEW w \in Workers, NEW r, Quiet(w, r), Becomes(w, r), UNCHANGED rows
  PROVE  workers' \in [Workers -> WorkerType] /\ AllApt' /\ ClaimsHeld' /\ TakeoversHeld'
<1>1. workers \in [Workers -> WorkerType] /\ r \in WorkerType
  BY DEF ClaimInv, TypeOK, Quiet
<1>2. workers' \in [Workers -> WorkerType]
  BY <1>1 DEF Becomes
<1>3. \A x \in Workers : workers'[x] = IF x = w THEN r ELSE workers[x]
  BY <1>1 DEF Becomes
<1>4. AllApt'
  BY <1>3 DEF AllApt, Quiet, ClaimInv
<1>5. \A x \in Workers, t \in Things : Works(x, t)' => Works(x, t)
  <2> TAKE x \in Workers, t \in Things
  <2>1. Works(x, t)' <=> RecordWorks(workers'[x], t)
    BY DEF Works, RecordWorks
  <2> QED
    BY <1>3, <2>1, WorksRecord DEF Quiet
<1>6. ClaimsHeld'
  BY <1>5 DEF ClaimInv, ClaimsHeld
<1>7. \A x \in Workers, t \in Things : TakesOver(x, t)' => TakesOver(x, t)
  BY <1>3 DEF TakesOver, At, Quiet
<1>8. TakeoversHeld'
  BY <1>7 DEF ClaimInv, TakeoversHeld
<1> QED
  BY <1>2, <1>4, <1>6, <1>8

\* Nor does changing the rows of something nobody else works on, as long as who
\* then works on it holds them.
LEMMA RowStep ==
  ASSUME ClaimInv, NEW w \in Workers, NEW t \in Things, NEW r \in WorkerType, NEW v \in RowsType,
         Apt(r), Becomes(w, r), rows' = [rows EXCEPT ![t] = v],
         \A u \in Things \ {t} : RecordWorks(r, u) => Works(w, u),
         \A x \in Workers \ {w} : ~Works(x, t),
         RecordWorks(r, t) => v = Claimed,
         v.marker # "none" => v.reserved,
         \A x \in Workers \ {w} : ~TakesOver(x, t),
         r.pc = "again" => r.on = t /\ v.reserved /\ v.marker = "none"
  PROVE  /\ workers' \in [Workers -> WorkerType] /\ rows' \in [Things -> RowsType]
         /\ AllApt' /\ ClaimsHeld' /\ TakeoversHeld'
<1>1. workers \in [Workers -> WorkerType] /\ rows \in [Things -> RowsType]
  BY DEF ClaimInv, TypeOK
<1>2. workers' \in [Workers -> WorkerType] /\ rows' \in [Things -> RowsType]
  BY <1>1 DEF Becomes
<1>3. \A x \in Workers : workers'[x] = IF x = w THEN r ELSE workers[x]
  BY <1>1 DEF Becomes
<1>4. AllApt'
  BY <1>3 DEF AllApt, ClaimInv
<1>5. \A u \in Things : rows'[u] = IF u = t THEN v ELSE rows[u]
  BY <1>1
<1>6. \A x \in Workers, u \in Things : Works(x, u)' <=> RecordWorks(workers'[x], u)
  BY DEF Works, RecordWorks
<1>7. \A x \in Workers, u \in Things \ {t} : Works(x, u)' => Works(x, u)
  BY <1>3, <1>6, WorksRecord
<1>8. \A x \in Workers : Works(x, t)' => x = w /\ v = Claimed
  BY <1>3, <1>6, WorksRecord
<1>9. Claimed' = Claimed
  BY DEF Claimed
<1>10. ClaimsHeld'
  BY <1>5, <1>7, <1>8, <1>9 DEF ClaimInv, ClaimsHeld
<1>11. \A x \in Workers, u \in Things \ {t} : TakesOver(x, u)' => TakesOver(x, u)
  BY <1>3 DEF TakesOver, At
<1>12. \A x \in Workers : TakesOver(x, t)' => x = w /\ v.reserved /\ v.marker = "none"
  BY <1>3 DEF TakesOver, At
<1>13. TakeoversHeld'
  BY <1>5, <1>11, <1>12 DEF ClaimInv, TakeoversHeld
<1> QED
  BY <1>2, <1>4, <1>10, <1>13

-----------------------------------------------------------------------------
(***************************************************************************)
(* Every step keeps the claims                                             *)
(***************************************************************************)

\* Nobody holds anything at first.
LEMMA ClaimInit == Init => ClaimInv
<1> SUFFICES ASSUME Init PROVE ClaimInv
  OBVIOUS
<1>1. Idle \in WorkerType /\ Idle.pc = "idle"
  BY DEF Idle, WorkerType, ClaimSteps, Things, Events
<1>2. NoRows \in RowsType
  BY DEF NoRows, RowsType
<1>3. TypeOK
  <2>1. faults \in 0 .. MaxFaults
    BY FulfilmentAssumption DEF Init
  <2>2. workers \in [Workers -> WorkerType] /\ rows \in [Things -> RowsType]
    BY <1>1, <1>2 DEF Init
  <2>3. events \in [Events -> {"none", "unpaid", "paid", "failed"}]
    BY DEF Init
  <2> QED
    BY <2>1, <2>2, <2>3 DEF Init, TypeOK
<1>4. \A w \in Workers : workers[w] = Idle
  BY DEF Init
<1>5. AllApt
  BY <1>1, <1>4 DEF AllApt, Apt, ClaimSteps
<1>6. ClaimsHeld
  BY <1>1, <1>4 DEF ClaimsHeld, Works
<1>7. TakeoversHeld
  BY <1>1, <1>4 DEF TakeoversHeld, TakesOver, At, Init, NoRows
<1> QED
  BY <1>3, <1>5, <1>6, <1>7 DEF ClaimInv

\* A marker that is there is not being taken over, nor is what is not reserved.
LEMMA MarkerNoTakeover ==
  ASSUME ClaimInv, NEW t \in Things, rows[t].marker # "none" \/ ~rows[t].reserved, NEW x \in Workers
  PROVE  ~TakesOver(x, t)
  BY DEF ClaimInv, TakeoversHeld

\* Whoever holds no claim does not work.
LEMMA NoClaimNoWork ==
  ASSUME ClaimInv, NEW t \in Things, rows[t] # Claimed, NEW x \in Workers
  PROVE  ~Works(x, t)
  BY DEF ClaimInv, ClaimsHeld

\* The statements of reserve.
LEMMA ReserveKeeps ==
  ASSUME ClaimInv, NEW w \in Workers,
         Reserve(w) \/ ReadMarker(w) \/ ReleaseStale(w) \/ ClaimAgain(w)
  PROVE  ClaimInv'
<1> DEFINE t == workers[w].on
<1>1. /\ TypeOK /\ AllApt /\ ClaimsHeld /\ Apt(workers[w]) /\ workers[w] \in WorkerType
      /\ t \in Things /\ rows[t] \in RowsType /\ rows \in [Things -> RowsType]
  BY DEF ClaimInv, AllApt, TypeOK, WorkerType
<1> DEFINE begun == [workers[w] EXCEPT !.pc = AfterClaim(w)]
           fresh == [rows[t] EXCEPT !.marker = "fresh"]
           none == [rows[t] EXCEPT !.marker = "none"]
<1>2. /\ fresh \in RowsType /\ fresh.marker = "fresh" /\ fresh.reserved = rows[t].reserved
      /\ none \in RowsType /\ none.marker = "none" /\ none.reserved = rows[t].reserved
      /\ Claimed \in RowsType
  BY <1>1 DEF RowsType, Claimed
<1>3. CASE Reserve(w)
  <2>1. workers[w].pc \in ClaimSteps
    BY <1>3 DEF Reserve, At, ClaimSteps
  <2>2. CASE rows[t].reserved
    <3>1. Becomes(w, [workers[w] EXCEPT !.pc = "inflight"]) /\ UNCHANGED rows
      BY <1>3, <2>2 DEF Reserve, Goes
    <3>2. Quiet(w, [workers[w] EXCEPT !.pc = "inflight"])
      BY <1>1, <2>1, ClaimingQuietly DEF ClaimSteps
    <3> QED
      BY <1>1, <1>3, <3>1, <3>2, QuietStep DEF Reserve, ClaimInv, TypeOK
  <2>3. CASE ~rows[t].reserved
    <3>1. Becomes(w, begun) /\ rows' = [rows EXCEPT ![t] = Claimed]
      BY <1>3, <2>3 DEF Reserve, Goes
    <3>2. \A x \in Workers : ~Works(x, t)
      BY <1>1, <2>3, NoClaimNoWork DEF Claimed
    <3>3. begun \in WorkerType /\ Apt(begun) /\ \A u \in Things \ {t} : RecordWorks(begun, u) => Works(w, u)
      BY <1>1, <2>1, ClaimedStarts
    <3>5. begun.pc # "again" /\ \A x \in Workers : ~TakesOver(x, t)
      BY <1>1, <2>1, <2>3, ClaimedStarts, MarkerNoTakeover
    <3>6. Claimed.reserved
      BY DEF Claimed
    <3> HIDE DEF begun, t
    <3>4. workers' \in [Workers -> WorkerType] /\ rows' \in [Things -> RowsType] /\ AllApt' /\ ClaimsHeld' /\ TakeoversHeld'
      BY <1>1, <1>2, <3>1, <3>2, <3>3, <3>5, <3>6, RowStep
    <3> QED
      BY <1>1, <1>3, <3>4 DEF Reserve, ClaimInv, TypeOK
  <2> QED
    BY <2>2, <2>3
<1>4. CASE ReadMarker(w)
  <2>1. workers[w].pc \in ClaimSteps
    BY <1>4 DEF ReadMarker, At, ClaimSteps
  <2>2. \E r : Quiet(w, r) /\ Becomes(w, r)
    <3>1. \/ Becomes(w, Left(w)) \/ Becomes(w, NotClaimed(w))
          \/ Becomes(w, [workers[w] EXCEPT !.pc = "stale"])
      BY <1>4 DEF ReadMarker, Ends, Goes
    <3>2. Quiet(w, [workers[w] EXCEPT !.pc = "stale"])
      BY <1>1, <2>1, ClaimingQuietly DEF ClaimSteps
    <3> QED
      BY <1>1, <2>1, <3>1, <3>2, Rests, NotClaimedQuietly
  <2>3. UNCHANGED rows /\ acked' \subseteq Events /\ torn' \in BOOLEAN
    BY <1>1, <1>4 DEF ReadMarker, HalfWay, TypeOK
  <2>4. workers' \in [Workers -> WorkerType] /\ AllApt' /\ ClaimsHeld' /\ TakeoversHeld'
    BY <2>2, <2>3, QuietStep
  <2> QED
    BY <1>1, <1>4, <2>3, <2>4 DEF ReadMarker, ClaimInv, TypeOK
<1>5. CASE ReleaseStale(w)
  <2>1. workers[w].pc \in ClaimSteps
    BY <1>5 DEF ReleaseStale, At, ClaimSteps
  <2>2. CASE rows[t].marker = "stale"
    <3> DEFINE r == [workers[w] EXCEPT !.pc = "again"]
    <3>1. Becomes(w, r) /\ rows' = [rows EXCEPT ![t] = none]
      BY <1>5, <2>2 DEF ReleaseStale, IsStale, Goes
    <3>2. \A x \in Workers : ~Works(x, t) /\ ~TakesOver(x, t)
      BY <1>1, <2>2, NoClaimNoWork, MarkerNoTakeover DEF Claimed
    <3>3. r \in WorkerType /\ r.pc = "again" /\ r.on = t /\ r.why = workers[w].why
      BY <1>1 DEF WorkerType, ClaimSteps
    <3> HIDE DEF r
    <3>4. Apt(r) /\ ~RecordWorks(r, t) /\ \A u \in Things : RecordWorks(r, u) => Works(w, u)
      BY <1>1, <2>1, <3>3 DEF Apt, RecordWorks, Works, ClaimSteps, Things, Events
    <3>6. none.reserved
      BY <1>1, <1>2, <2>2 DEF ClaimInv, TakeoversHeld
    <3> HIDE DEF t, none
    <3>5. workers' \in [Workers -> WorkerType] /\ rows' \in [Things -> RowsType] /\ AllApt' /\ ClaimsHeld' /\ TakeoversHeld'
      BY <1>1, <1>2, <3>1, <3>2, <3>3, <3>4, <3>6, RowStep
    <3> QED
      BY <1>1, <1>5, <3>5 DEF ReleaseStale, ClaimInv, TypeOK
  <2>3. CASE rows[t].marker # "stale"
    <3>1. Becomes(w, NotClaimed(w)) /\ UNCHANGED rows
      BY <1>5, <2>3 DEF ReleaseStale, IsStale
    <3> QED
      BY <1>1, <1>5, <2>1, <3>1, NotClaimedQuietly, QuietStep DEF ReleaseStale, ClaimInv, TypeOK
  <2> QED
    BY <2>2, <2>3
<1>6. CASE ClaimAgain(w)
  <2>1. workers[w].pc \in ClaimSteps
    BY <1>6 DEF ClaimAgain, At, ClaimSteps
  <2>2. CASE rows[t].marker = "none"
    <3>1. Becomes(w, begun) /\ rows' = [rows EXCEPT ![t] = fresh]
      BY <1>6, <2>2 DEF ClaimAgain, Goes
    <3>2. \A x \in Workers : ~Works(x, t)
      BY <1>1, <2>2, NoClaimNoWork DEF Claimed
    <3>3. begun \in WorkerType /\ Apt(begun) /\ \A u \in Things \ {t} : RecordWorks(begun, u) => Works(w, u)
      BY <1>1, <2>1, ClaimedStarts
    <3>4. begun.pc # "again"
      BY <1>1, <2>1, ClaimedStarts
    <3>5. TakesOver(w, t)
      BY <1>6 DEF ClaimAgain, TakesOver
    <3>6. rows[t].reserved /\ \A x \in Workers \ {w} : ~TakesOver(x, t)
      BY <1>1, <3>5 DEF ClaimInv, TakeoversHeld
    <3>7. fresh = Claimed
      BY <1>1, <1>2, <3>6 DEF Claimed, RowsType
    <3> HIDE DEF begun, t, fresh
    <3>8. workers' \in [Workers -> WorkerType] /\ rows' \in [Things -> RowsType] /\ AllApt' /\ ClaimsHeld' /\ TakeoversHeld'
      BY <1>1, <1>2, <3>1, <3>2, <3>3, <3>4, <3>6, <3>7, RowStep
    <3> QED
      BY <1>1, <1>6, <3>8 DEF ClaimAgain, ClaimInv, TypeOK
  <2>3. CASE rows[t].marker # "none"
    <3>1. Becomes(w, NotClaimed(w)) /\ UNCHANGED rows
      BY <1>6, <2>3 DEF ClaimAgain
    <3> QED
      BY <1>1, <1>6, <2>1, <3>1, NotClaimedQuietly, QuietStep DEF ClaimAgain, ClaimInv, TypeOK
  <2> QED
    BY <2>2, <2>3
<1> QED
  BY <1>3, <1>4, <1>5, <1>6

\* Any other step of a worker that leaves the rows alone.
LEMMA QuietKeeps ==
  ASSUME ClaimInv, NEW w \in Workers, \E r : Quiet(w, r) /\ Becomes(w, r),
         UNCHANGED <<session, events, plan, rows>>,
         pending' \in BOOLEAN, licence' \in BOOLEAN, acked' \subseteq Events,
         handled' \subseteq Events, torn' \in BOOLEAN, misread' \in BOOLEAN, faults' \in 0 .. MaxFaults
  PROVE  ClaimInv'
<1>1. workers' \in [Workers -> WorkerType] /\ AllApt' /\ ClaimsHeld' /\ TakeoversHeld'
  BY QuietStep
<1> QED
  BY <1>1 DEF ClaimInv, TypeOK

\* A worker gives up, or completes, the claim it works under.
LEMMA EndsClaim ==
  ASSUME ClaimInv, NEW w \in Workers, NEW t \in Things, Works(w, t),
         NEW v \in RowsType, v.marker = "none", rows' = [rows EXCEPT ![t] = v],
         NEW r, Quiet(w, r), ~RecordWorks(r, t), Becomes(w, r)
  PROVE  workers' \in [Workers -> WorkerType] /\ rows' \in [Things -> RowsType] /\ AllApt' /\ ClaimsHeld' /\ TakeoversHeld'
<1>1. rows[t] = Claimed /\ \A x \in Workers : Works(x, t) => x = w
  BY DEF ClaimInv, ClaimsHeld
<1>2. \A x \in Workers : ~TakesOver(x, t)
  BY <1>1, MarkerNoTakeover DEF Claimed
<1> QED
  BY <1>1, <1>2, RowStep DEF Quiet

\* Giving a claim back and completing it leave rows without a marker.
LEMMA RowTypes ==
  ASSUME NEW v \in RowsType
  PROVE  /\ Released(v) \in RowsType /\ Released(v).marker = "none"
         /\ Completed(v) \in RowsType /\ Completed(v).marker = "none"
<1>1. NoRows \in RowsType /\ NoRows.marker = "none"
  BY DEF NoRows, RowsType
<1>2. [v EXCEPT !.marker = "none"] \in RowsType /\ [v EXCEPT !.marker = "none"].marker = "none"
  BY DEF RowsType
<1> QED
  BY <1>1, <1>2 DEF Released, Completed

\* Faults are counted within their bound.
LEMMA FaultCounted == ASSUME faults \in 0 .. MaxFaults, Fault PROVE faults' \in 0 .. MaxFaults
  BY FulfilmentAssumption DEF Fault

\* fulfillCheckout leaves the session's claim behind.
LEMMA ReturnsEndsSession ==
  ASSUME NEW w \in Workers, TypeOK, NEW result \in {"ok", "no", "err"},
         workers[w].pc \in {"create", "release", "complete"}, Returns(w, result)
  PROVE  \E r : Quiet(w, r) /\ Becomes(w, r) /\ ~RecordWorks(r, "session")
<1> DEFINE why == workers[w].why
           f == [Idle EXCEPT !.pc = "finish", !.why = why]
           g == [Idle EXCEPT !.pc = "returned", !.why = why, !.result = result]
           b == [Idle EXCEPT !.pc = "backlog"]
<1>1. PICK r : Quiet(w, r) /\ Becomes(w, r)
  BY ReturnsQuietly DEF ClaimSteps
<1>2. Idle \in WorkerType /\ Idle.pc = "idle"
  BY DEF Idle, WorkerType, ClaimSteps, Things, Events
<1>3. f.pc = "finish" /\ g.pc = "returned" /\ b.pc = "backlog"
  BY <1>2 DEF WorkerType
<1>4. Becomes(w, f) \/ Becomes(w, g) \/ Becomes(w, b) \/ Becomes(w, Idle)
  BY DEF Returns, Ends, Left
<1> HIDE DEF f, g, b
<1>5. PICK q : Becomes(w, q) /\ q.pc \in {"finish", "returned", "backlog", "idle"}
  BY <1>2, <1>3, <1>4
<1>6. workers'[w] = r /\ workers'[w] = q
  BY <1>1, <1>5 DEF Becomes, TypeOK
<1>7. ~RecordWorks(r, "session")
  BY <1>5, <1>6 DEF RecordWorks
<1> QED
  BY <1>1, <1>7

\* The steps of fulfillCheckout.
LEMMA FulfilKeeps ==
  ASSUME ClaimInv, NEW w \in Workers,
         \/ CheckSession(w) \/ CheckMarker(w) \/ CreateLicence(w)
         \/ ReleaseSession(w) \/ CompleteSession(w) \/ CompleteFails(w)
  PROVE  ClaimInv'
<1>1. /\ TypeOK /\ AllApt /\ Apt(workers[w]) /\ workers[w] \in WorkerType
      /\ rows["session"] \in RowsType /\ rows \in [Things -> RowsType] /\ "session" \in Things
      /\ pending \in BOOLEAN /\ licence \in BOOLEAN /\ acked \subseteq Events
      /\ handled \subseteq Events /\ torn \in BOOLEAN /\ misread \in BOOLEAN /\ faults \in 0 .. MaxFaults
  BY DEF ClaimInv, AllApt, TypeOK, Things
<1>2. CASE CheckSession(w)
  <2>1. workers[w].pc \notin ClaimSteps \cup {"idle"}
    BY <1>2 DEF CheckSession, At, ClaimSteps
  <2>2. Quiet(w, [workers[w] EXCEPT !.pc = "check2"])
    BY <1>1, <2>1, GoesOn
  <2>3. Returns(w, "ok") \/ Becomes(w, [workers[w] EXCEPT !.pc = "check2"]) \/ Unfulfilled(w)
    BY <1>2 DEF CheckSession, Goes
  <2>4. \E r : Quiet(w, r) /\ Becomes(w, r)
    BY <1>1, <2>1, <2>2, <2>3, ReturnsQuietly, UnfulfilledQuietly
  <2> QED
    BY <1>1, <1>2, <2>4, QuietKeeps DEF CheckSession
<1>3. CASE CheckMarker(w)
  <2>1. workers[w].pc \notin ClaimSteps \cup {"idle"}
    BY <1>3 DEF CheckMarker, At, ClaimSteps
  <2>2. Returns(w, "ok") \/ Unfulfilled(w)
    BY <1>3 DEF CheckMarker
  <2>3. \E r : Quiet(w, r) /\ Becomes(w, r)
    BY <1>1, <2>1, <2>2, ReturnsQuietly, UnfulfilledQuietly
  <2>4. misread' \in BOOLEAN
    BY <1>1, <1>3 DEF CheckMarker, HalfWay
  <2> QED
    BY <1>1, <1>3, <2>3, <2>4, QuietKeeps DEF CheckMarker
<1>4. CASE CreateLicence(w)
  <2>1. workers[w].pc = "create"
    BY <1>4 DEF CreateLicence, At
  <2>2. \A pc \in {"release", "complete"} : Quiet(w, [workers[w] EXCEPT !.pc = pc])
    <3> TAKE pc \in {"release", "complete"}
    <3> DEFINE r == [workers[w] EXCEPT !.pc = pc]
    <3>1. r \in WorkerType /\ r.pc = pc /\ r.why = workers[w].why
      BY <1>1 DEF WorkerType
    <3> HIDE DEF r
    <3>2. Quiet(w, r)
      BY <2>1, <3>1 DEF Quiet, Apt, RecordWorks, Works, ClaimSteps, Things, Events
    <3> QED
      BY <3>2 DEF r
  <2>3. \/ Returns(w, "ok")
        \/ Becomes(w, [workers[w] EXCEPT !.pc = "release"])
        \/ Becomes(w, [workers[w] EXCEPT !.pc = "complete"])
    BY <1>4 DEF CreateLicence, Goes
  <2>4. \E r : Quiet(w, r) /\ Becomes(w, r)
    BY <1>1, <2>1, <2>2, <2>3, ReturnsQuietly DEF ClaimSteps
  <2>5. licence' \in BOOLEAN
    BY <1>1, <1>4 DEF CreateLicence
  <2> QED
    BY <1>1, <1>4, <2>4, <2>5, QuietKeeps DEF CreateLicence
<1>5. CASE ReleaseSession(w)
  <2>1. workers[w].pc = "release" /\ Works(w, "session")
    BY <1>5 DEF ReleaseSession, At, Works
  <2>2. rows' = [rows EXCEPT !["session"] = Released(rows["session"])]
    BY <1>5 DEF ReleaseSession
  <2>3. PICK r : Quiet(w, r) /\ Becomes(w, r) /\ ~RecordWorks(r, "session")
    BY <1>1, <1>5, <2>1, ReturnsEndsSession DEF ReleaseSession
  <2>4. workers' \in [Workers -> WorkerType] /\ rows' \in [Things -> RowsType] /\ AllApt' /\ ClaimsHeld' /\ TakeoversHeld'
    BY <1>1, <2>1, <2>2, <2>3, RowTypes, EndsClaim
  <2> QED
    BY <1>1, <1>5, <2>4 DEF ReleaseSession, ClaimInv, TypeOK
<1>6. CASE CompleteSession(w)
  <2>1. workers[w].pc = "complete" /\ Works(w, "session")
    BY <1>6 DEF CompleteSession, At, Works
  <2>2. rows' = [rows EXCEPT !["session"] = Completed(rows["session"])]
    BY <1>6 DEF CompleteSession
  <2>3. PICK r : Quiet(w, r) /\ Becomes(w, r) /\ ~RecordWorks(r, "session")
    BY <1>1, <1>6, <2>1, ReturnsEndsSession DEF CompleteSession
  <2>4. workers' \in [Workers -> WorkerType] /\ rows' \in [Things -> RowsType] /\ AllApt' /\ ClaimsHeld' /\ TakeoversHeld'
    BY <1>1, <2>1, <2>2, <2>3, RowTypes, EndsClaim
  <2> QED
    BY <1>1, <1>6, <2>4 DEF CompleteSession, ClaimInv, TypeOK
<1>7. CASE CompleteFails(w)
  <2>1. workers[w].pc \notin ClaimSteps \cup {"idle"} /\ Returns(w, "ok")
    BY <1>7 DEF CompleteFails, At, ClaimSteps
  <2>2. \E r : Quiet(w, r) /\ Becomes(w, r)
    BY <1>1, <2>1, ReturnsQuietly
  <2>3. faults' \in 0 .. MaxFaults
    BY <1>1, <1>7, FaultCounted DEF CompleteFails
  <2>4. pending' \in BOOLEAN
    BY <1>1, <1>7 DEF CompleteFails
  <2> QED
    BY <1>1, <1>7, <2>2, <2>3, <2>4, QuietKeeps DEF CompleteFails
<1> QED
  BY <1>2, <1>3, <1>4, <1>5, <1>6, <1>7

\* A worker that takes something up: an event to claim, or a session to look at.
LEMMA StartsQuietly ==
  ASSUME NEW w \in Workers, NEW pc \in {"reserve", "check"}, NEW on \in Things,
         NEW why \in Events \cup {"verify", "recent", "pending"},
         pc = "reserve" => why = on, pc = "check" => why \notin Events
  PROVE  Quiet(w, [Idle EXCEPT !.pc = pc, !.on = on, !.why = why])
<1> DEFINE r == [Idle EXCEPT !.pc = pc, !.on = on, !.why = why]
<1>1. Idle \in WorkerType
  BY DEF Idle, WorkerType, ClaimSteps, Things, Events
<1>2. r \in WorkerType /\ r.pc = pc /\ r.on = on /\ r.why = why
  BY <1>1 DEF WorkerType, ClaimSteps
<1> HIDE DEF r
<1>3. Quiet(w, r)
  BY <1>2 DEF Quiet, Apt, RecordWorks, ClaimSteps, Things, Events
<1> QED
  BY <1>3 DEF r

\* The same, of a session.
LEMMA LooksQuietly ==
  ASSUME NEW w \in Workers, NEW why \in {"verify", "recent", "pending"}
  PROVE  Quiet(w, [Idle EXCEPT !.pc = "check", !.why = why])
<1> DEFINE r == [Idle EXCEPT !.pc = "check", !.why = why]
<1>1. Idle \in WorkerType
  BY DEF Idle, WorkerType, ClaimSteps, Things, Events
<1>2. r \in WorkerType /\ r.pc = "check" /\ r.why = why
  BY <1>1 DEF WorkerType
<1> HIDE DEF r
<1>3. Quiet(w, r)
  BY <1>2 DEF Quiet, Apt, RecordWorks, ClaimSteps, Things, Events
<1> QED
  BY <1>3 DEF r

\* The webhook goes on to answer its event.
LEMMA FinishesQuietly ==
  ASSUME NEW w \in Workers, TypeOK, NEW result \in {"ok", "no", "err"},
         workers[w].pc \notin ClaimSteps \cup {"idle"}
  PROVE  LET f == [Idle EXCEPT !.pc = "finish", !.why = workers[w].why]
             g == [Idle EXCEPT !.pc = "finish", !.why = workers[w].why, !.result = result]
         IN  workers[w].why \in Events => Quiet(w, f) /\ Quiet(w, g)
<1> DEFINE f == [Idle EXCEPT !.pc = "finish", !.why = workers[w].why]
           g == [Idle EXCEPT !.pc = "finish", !.why = workers[w].why, !.result = result]
<1>1. workers[w] \in WorkerType /\ Idle \in WorkerType
  BY DEF TypeOK, Idle, WorkerType, ClaimSteps, Things, Events
<1>2. f \in WorkerType /\ f.pc = "finish" /\ f.why = workers[w].why
  BY <1>1 DEF WorkerType
<1>3. g \in WorkerType /\ g.pc = "finish" /\ g.why = workers[w].why
  BY <1>1 DEF WorkerType
<1> HIDE DEF f, g
<1>4. workers[w].why \in Events => Quiet(w, f) /\ Quiet(w, g)
  BY <1>2, <1>3 DEF Quiet, Apt, RecordWorks, Works, ClaimSteps, Things, Events
<1> QED
  BY <1>4 DEF f, g

\* The webhook, the success page and the sync.
LEMMA CallersKeep ==
  ASSUME ClaimInv, NEW w \in Workers,
         \/ \E e \in Events : Deliver(w, e)
         \/ Handle(w) \/ Verify(w) \/ StartSync(w) \/ SyncPending(w) \/ Return(w) \/ Finish(w)
  PROVE  ClaimInv'
<1>1. /\ TypeOK /\ AllApt /\ Apt(workers[w]) /\ workers[w] \in WorkerType
      /\ rows \in [Things -> RowsType]
      /\ pending \in BOOLEAN /\ licence \in BOOLEAN /\ acked \subseteq Events
      /\ handled \subseteq Events /\ torn \in BOOLEAN /\ misread \in BOOLEAN /\ faults \in 0 .. MaxFaults
  BY DEF ClaimInv, AllApt, TypeOK
<1>2. CASE \E e \in Events : Deliver(w, e)
  <2>1. PICK e \in Events : Deliver(w, e)
    BY <1>2
  <2>2. Becomes(w, [Idle EXCEPT !.pc = "reserve", !.on = e, !.why = e])
    BY <2>1 DEF Deliver
  <2>3. Quiet(w, [Idle EXCEPT !.pc = "reserve", !.on = e, !.why = e])
    BY StartsQuietly DEF Things
  <2> QED
    BY <1>1, <2>1, <2>2, <2>3, QuietKeeps DEF Deliver
<1>3. CASE Handle(w)
  <2>1. workers[w].pc = "handle" /\ workers[w].why \in Events
    BY <1>1, <1>3 DEF Handle, At, Apt
  <2>2. Becomes(w, [Idle EXCEPT !.pc = "finish", !.why = workers[w].why])
    BY <1>3 DEF Handle
  <2>3. Quiet(w, [Idle EXCEPT !.pc = "finish", !.why = workers[w].why])
    BY <1>1, <2>1, FinishesQuietly DEF ClaimSteps
  <2>4. pending' \in BOOLEAN
    BY <1>3 DEF Handle
  <2> QED
    BY <1>1, <1>3, <2>2, <2>3, <2>4, QuietKeeps DEF Handle
<1>4. CASE Verify(w)
  <2>1. Becomes(w, [Idle EXCEPT !.pc = "check", !.why = "verify"])
    BY <1>4 DEF Verify
  <2>2. Quiet(w, [Idle EXCEPT !.pc = "check", !.why = "verify"])
    BY LooksQuietly
  <2> QED
    BY <1>1, <1>4, <2>1, <2>2, QuietKeeps DEF Verify
<1>5. CASE StartSync(w)
  <2>1. \/ Becomes(w, [Idle EXCEPT !.pc = "check", !.why = "recent"])
        \/ Becomes(w, [Idle EXCEPT !.pc = "backlog"])
    BY <1>5 DEF StartSync
  <2>2. \E r : Quiet(w, r) /\ Becomes(w, r)
    BY <1>1, <2>1, LooksQuietly, Rests
  <2>3. pending' \in BOOLEAN
    BY <1>1, <1>5 DEF StartSync
  <2> QED
    BY <1>1, <1>5, <2>2, <2>3, QuietKeeps DEF StartSync
<1>6. CASE SyncPending(w)
  <2>1. Becomes(w, [Idle EXCEPT !.pc = "check", !.why = "pending"]) \/ Becomes(w, Idle)
    BY <1>6 DEF SyncPending
  <2>2. \E r : Quiet(w, r) /\ Becomes(w, r)
    BY <1>1, <2>1, LooksQuietly, Rests
  <2>3. pending' \in BOOLEAN
    BY <1>1, <1>6 DEF SyncPending, Swept
  <2> QED
    BY <1>1, <1>6, <2>2, <2>3, QuietKeeps DEF SyncPending
<1>7. CASE Return(w)
  <2>1. workers[w].pc = "returned"
    BY <1>7 DEF Return, At
  <2>2. \/ workers[w].why \in Events /\ Becomes(w, [workers[w] EXCEPT !.pc = "finish"])
        \/ Becomes(w, Left(w))
    BY <1>7 DEF Return, Goes, Ends
  <2>3. \E r : Quiet(w, r) /\ Becomes(w, r)
    BY <1>1, <2>1, <2>2, GoesOn, Rests DEF ClaimSteps
  <2>4. pending' \in BOOLEAN
    BY <1>1, <1>7 DEF Return, Remembered
  <2> QED
    BY <1>1, <1>7, <2>3, <2>4, QuietKeeps DEF Return
<1>8. CASE Finish(w)
  <2> DEFINE e == workers[w].why
  <2>1. workers[w].pc = "finish" /\ e \in Events
    BY <1>1, <1>8 DEF Finish, At, Apt
  <2>2. Works(w, e) /\ e \in Things
    BY <2>1 DEF Works, ClaimSteps, Things, Events
  <2>3. Left(w) = Idle
    BY <2>1 DEF Left, Events
  <2>4. Becomes(w, Idle)
    BY <1>8, <2>3 DEF Finish, Ends
  <2>5. Quiet(w, Idle) /\ ~RecordWorks(Idle, e)
    BY <1>1, <2>1, Rests DEF RecordWorks, Idle, Events
  <2>6. PICK v \in RowsType : v.marker = "none" /\ rows' = [rows EXCEPT ![e] = v]
    BY <1>1, <1>8, <2>2, RowTypes DEF Finish
  <2>7. acked' \subseteq Events /\ handled' \subseteq Events
    BY <1>1, <1>8, <2>1 DEF Finish
  <2>8. workers' \in [Workers -> WorkerType] /\ rows' \in [Things -> RowsType] /\ AllApt' /\ ClaimsHeld' /\ TakeoversHeld'
    BY <1>1, <2>2, <2>4, <2>5, <2>6, EndsClaim
  <2> QED
    BY <1>1, <1>8, <2>7, <2>8 DEF Finish, ClaimInv, TypeOK
<1> QED
  BY <1>2, <1>3, <1>4, <1>5, <1>6, <1>7, <1>8

\* What a failed statement leaves begins no work.
LEMMA ErrorQuietly ==
  ASSUME ClaimInv, NEW w \in Workers, workers[w].pc # "idle", NEW r \in OnError(w)
  PROVE  Quiet(w, r)
<1> DEFINE q == workers[w]
           a == [q EXCEPT !.pc = "release"]
           b == [Idle EXCEPT !.pc = "returned", !.why = q.why, !.result = "err"]
           c == [Idle EXCEPT !.pc = "finish", !.why = q.why, !.result = "err"]
<1>1. /\ TypeOK /\ Apt(q) /\ q \in WorkerType /\ Idle \in WorkerType
  BY DEF ClaimInv, AllApt, TypeOK, Idle, WorkerType, ClaimSteps, Things, Events
<1>2. a \in WorkerType /\ a.pc = "release" /\ a.why = q.why
  BY <1>1 DEF WorkerType
<1>3. b \in WorkerType /\ b.pc = "returned" /\ b.why = q.why
  BY <1>1 DEF WorkerType
<1>4. \/ r = a /\ q.pc = "create"
      \/ r = b /\ (q.pc \notin ClaimSteps \/ q.on = "session")
      \/ r = c /\ q.why \in Events /\ q.pc \notin ClaimSteps
      \/ r = Left(w)
  BY DEF OnError, ClaimSteps, Apt, ClaimInv, AllApt
<1>5. q.why \in Events /\ q.pc \notin ClaimSteps => Quiet(w, c)
  BY <1>1, FinishesQuietly
<1> HIDE DEF a, b, c
<1>6. q.pc = "create" => Quiet(w, a)
  BY <1>2 DEF Quiet, Apt, RecordWorks, Works, ClaimSteps, Things, Events
<1>7. q.pc \notin ClaimSteps \/ q.on = "session" => Quiet(w, b)
  BY <1>3 DEF Quiet, Apt, RecordWorks, Works, ClaimSteps, Things, Events
<1> QED
  BY <1>1, <1>4, <1>5, <1>6, <1>7, Rests

\* Failures and crashes.
LEMMA FaultsKeep ==
  ASSUME ClaimInv, NEW w \in Workers, Fail(w) \/ Crash(w)
  PROVE  ClaimInv'
<1>1. /\ TypeOK
      /\ pending \in BOOLEAN /\ licence \in BOOLEAN /\ acked \subseteq Events
      /\ handled \subseteq Events /\ torn \in BOOLEAN /\ misread \in BOOLEAN /\ faults \in 0 .. MaxFaults
  BY DEF ClaimInv, TypeOK
<1>2. faults' \in 0 .. MaxFaults
  BY <1>1, FaultCounted DEF Fail, Crash
<1>3. torn' \in BOOLEAN /\ misread' \in BOOLEAN /\ licence' \in BOOLEAN
  BY <1>1 DEF Fail, Crash, At
<1>4. \E r : Quiet(w, r) /\ Becomes(w, r)
  BY <1>1, ErrorQuietly, Rests DEF Fail, Crash
<1> QED
  BY <1>1, <1>2, <1>3, <1>4, QuietKeeps DEF Fail, Crash

\* A marker goes stale under nobody.
LEMMA StaleKeeps ==
  ASSUME ClaimInv, NEW t \in Things, GoStale(t)
  PROVE  ClaimInv'
<1> DEFINE v == [rows[t] EXCEPT !.marker = "stale"]
<1>1. /\ TypeOK /\ AllApt /\ rows \in [Things -> RowsType] /\ rows[t] \in RowsType
      /\ rows[t].marker = "fresh" /\ rows[t].reserved
  BY DEF ClaimInv, TypeOK, GoStale, TakeoversHeld
<1>2. v \in RowsType /\ v.marker = "stale" /\ v.reserved = rows[t].reserved
  BY <1>1 DEF RowsType
<1>3. rows' = [rows EXCEPT ![t] = v] /\ UNCHANGED workers
  BY DEF GoStale
<1> HIDE DEF v
<1>4. rows' \in [Things -> RowsType] /\ \A u \in Things : rows'[u] = IF u = t THEN v ELSE rows[u]
  BY <1>1, <1>2, <1>3
<1>5. \A x \in Workers, u \in Things : (Works(x, u)' <=> Works(x, u)) /\ (TakesOver(x, u)' <=> TakesOver(x, u))
  BY <1>3 DEF Works, TakesOver, At
<1>6. ClaimsHeld'
  <2>1. \A x \in Workers : ~Works(x, t)
    BY DEF GoStale
  <2> QED
    BY <1>4, <1>5, <2>1 DEF ClaimInv, ClaimsHeld, Claimed
<1>7. TakeoversHeld'
  BY <1>1, <1>2, <1>4, <1>5 DEF ClaimInv, TakeoversHeld
<1>8. AllApt'
  BY <1>1, <1>3 DEF AllApt, Apt
<1>9. TypeOK'
  BY <1>1, <1>4 DEF TypeOK, GoStale
<1> QED
  BY <1>6, <1>7, <1>8, <1>9 DEF ClaimInv

\* The buyer, Stripe and the merchant leave the claims alone.
LEMMA OutsideKeeps ==
  ASSUME ClaimInv, Buy \/ Settle \/ SpoilPlan \/ RepairPlan \/ UNCHANGED vars
  PROVE  ClaimInv'
<1>1. UNCHANGED <<rows, workers, pending, licence, acked, handled, torn, misread>>
  BY DEF Buy, Settle, SpoilPlan, RepairPlan, vars
<1>2. AllApt' /\ ClaimsHeld' /\ TakeoversHeld'
  BY <1>1 DEF ClaimInv, AllApt, Apt, ClaimsHeld, Works, TakeoversHeld, TakesOver, At, Claimed
<1>3. faults' \in 0 .. MaxFaults
  BY FaultCounted DEF ClaimInv, TypeOK, Buy, Settle, SpoilPlan, RepairPlan, vars
<1>4. session' \in {"open", "unpaid", "paid", "failed"} /\ plan' \in {"good", "unresolved", "held"}
  BY DEF ClaimInv, TypeOK, Buy, Settle, SpoilPlan, RepairPlan, vars
<1>5. events' \in [Events -> {"none", "unpaid", "paid", "failed"}]
  BY <1>4 DEF ClaimInv, TypeOK, Buy, Settle, SpoilPlan, RepairPlan, vars
<1> QED
  BY <1>1, <1>2, <1>3, <1>4, <1>5 DEF ClaimInv, TypeOK

\* Every step keeps the claims.
LEMMA ClaimNext == ClaimInv /\ [Next]_vars => ClaimInv'
<1> SUFFICES ASSUME ClaimInv, [Next]_vars PROVE ClaimInv'
  OBVIOUS
<1>1. Requests \subseteq Workers /\ Syncs \subseteq Workers
  BY DEF Workers
<1>2. ASSUME NEW w \in Workers, Step(w) PROVE ClaimInv'
  BY <1>2, ReserveKeeps, FulfilKeeps, CallersKeep DEF Step
<1> QED
  BY <1>1, <1>2, FulfilKeeps, CallersKeep, FaultsKeep, StaleKeeps, OutsideKeeps DEF Next

-----------------------------------------------------------------------------
(***************************************************************************)
(* What is acknowledged was handled                                        *)
(***************************************************************************)

\* A step that leaves the rows alone, and takes nobody from a takeover except
\* by tearing it.
LEMMA DoneStays ==
  ASSUME DoneIsHandled, torn => torn', handled \subseteq handled', UNCHANGED rows,
         ~torn' => \A x \in Workers : \A e \in Events : TakesOver(x, e) => TakesOver(x, e)'
  PROVE  DoneIsHandled'
  BY DEF DoneIsHandled

\* A worker that is not taking over moves: the takeovers go on.
LEMMA OthersTakeOver ==
  ASSUME TypeOK, NEW w \in Workers, ~At(w, "again"), NEW r, Becomes(w, r)
  PROVE  \A x \in Workers : \A e \in Events : TakesOver(x, e) => TakesOver(x, e)'
  BY DEF TypeOK, Becomes, TakesOver, At

\* Every worker's step makes its worker one thing or another.
LEMMA StepMoves ==
  ASSUME NEW w \in Workers, Step(w) \/ CompleteFails(w) \/ Fail(w) \/ Crash(w)
  PROVE  \E r : Becomes(w, r)
<1>1. \A result : Returns(w, result) => \E r : Becomes(w, r)
  BY DEF Returns, Ends
<1>2. Unfulfilled(w) => \E r : Becomes(w, r)
  BY <1>1 DEF Unfulfilled
<1>3. CASE Reserve(w) \/ ReadMarker(w) \/ ReleaseStale(w) \/ ClaimAgain(w)
  BY <1>3 DEF Reserve, ReadMarker, ReleaseStale, ClaimAgain, Goes, Ends
<1>4. CASE CheckSession(w) \/ CheckMarker(w)
  BY <1>1, <1>2, <1>4 DEF CheckSession, CheckMarker, Goes
<1>5. CASE CreateLicence(w) \/ ReleaseSession(w) \/ CompleteSession(w) \/ CompleteFails(w)
  BY <1>1, <1>5 DEF CreateLicence, ReleaseSession, CompleteSession, CompleteFails, Goes
<1>6. CASE Handle(w) \/ SyncPending(w) \/ Return(w) \/ Finish(w)
  BY <1>6 DEF Handle, SyncPending, Return, Finish, Goes, Ends
<1>7. CASE Fail(w) \/ Crash(w)
  BY <1>7 DEF Fail, Crash
<1> QED
  BY <1>3, <1>4, <1>5, <1>6, <1>7 DEF Step

DoneInv == DoneIsHandled /\ AckedIsHandledUntorn

\* Nothing is acknowledged at first.
LEMMA DoneInit == Init => DoneInv
  BY DEF Init, DoneInv, DoneIsHandled, AckedIsHandledUntorn, AckedIsHandled, NoRows, Events, Things

\* The statements of reserve.
LEMMA ReserveDone ==
  ASSUME ClaimInv, DoneInv, NEW w \in Workers,
         Reserve(w) \/ ReadMarker(w) \/ ReleaseStale(w) \/ ClaimAgain(w)
  PROVE  DoneInv'
<1> DEFINE t == workers[w].on
<1>1. /\ TypeOK /\ workers[w] \in WorkerType /\ t \in Things /\ rows[t] \in RowsType
      /\ rows \in [Things -> RowsType] /\ Events \subseteq Things
  BY DEF ClaimInv, TypeOK, WorkerType, Things
<1>2. PICK r : Becomes(w, r)
  BY StepMoves DEF Step
<1>3. CASE Reserve(w)
  <2>1. \A x \in Workers : \A e \in Events : TakesOver(x, e) => TakesOver(x, e)'
    BY <1>1, <1>2, <1>3, OthersTakeOver DEF Reserve, At
  <2>2. \/ UNCHANGED rows
        \/ rows' = [rows EXCEPT ![t] = Claimed]
    BY <1>3 DEF Reserve
  <2>3. Claimed.marker # "none"
    BY DEF Claimed
  <2>4. UNCHANGED <<torn, handled, acked>>
    BY <1>3 DEF Reserve
  <2>5. DoneIsHandled'
    BY <1>1, <2>1, <2>2, <2>3, <2>4 DEF DoneInv, DoneIsHandled
  <2> QED
    BY <2>4, <2>5 DEF DoneInv, AckedIsHandledUntorn, AckedIsHandled
<1>4. CASE ReadMarker(w)
  <2>1. \A x \in Workers : \A e \in Events : TakesOver(x, e) => TakesOver(x, e)'
    BY <1>1, <1>2, <1>4, OthersTakeOver DEF ReadMarker, At
  <2>2. UNCHANGED <<rows, handled>> /\ torn' = (torn \/ HalfWay(t))
    BY <1>4 DEF ReadMarker
  <2>3. torn => torn'
    BY <2>2
  <2>4. DoneIsHandled'
    BY <2>1, <2>2, <2>3, DoneStays DEF DoneInv
  <2>5. ASSUME ~torn', acked' # acked PROVE t \in handled
    <3>1. ~torn /\ ~HalfWay(t)
      BY <2>2, <2>5
    <3>2. t \in Events /\ rows[t].marker = "none"
      BY <1>4, <2>5 DEF ReadMarker
    <3>3. rows[t].reserved /\ ~\E x \in Workers : TakesOver(x, t)
      BY <3>1, <3>2 DEF HalfWay, TakesOver
    <3> QED
      BY <3>1, <3>2, <3>3 DEF DoneInv, DoneIsHandled
  <2>6. acked' \subseteq acked \cup {t}
    BY <1>4 DEF ReadMarker
  <2>7. AckedIsHandledUntorn'
    BY <2>2, <2>3, <2>5, <2>6 DEF DoneInv, AckedIsHandledUntorn, AckedIsHandled
  <2> QED
    BY <2>4, <2>7 DEF DoneInv
<1>5. CASE ReleaseStale(w)
  <2>1. \A x \in Workers : \A e \in Events : TakesOver(x, e) => TakesOver(x, e)'
    BY <1>1, <1>2, <1>5, OthersTakeOver DEF ReleaseStale, At
  <2>2. UNCHANGED <<torn, handled, acked>>
    BY <1>5 DEF ReleaseStale
  <2>3. CASE rows[t].marker = "stale"
    <3> DEFINE g == [workers[w] EXCEPT !.pc = "again"]
               v == [rows[t] EXCEPT !.marker = "none"]
    <3>1. Becomes(w, g) /\ rows' = [rows EXCEPT ![t] = v]
      BY <1>5, <2>3 DEF ReleaseStale, IsStale, Goes
    <3>2. g.pc = "again" /\ g.on = t
      BY <1>1 DEF WorkerType
    <3>3. workers'[w] = g
      BY <1>1, <3>1 DEF Becomes, TypeOK
    <3> HIDE DEF g, v
    <3>4. \A e \in Events : e = t => TakesOver(w, e)'
      BY <3>2, <3>3 DEF TakesOver, At
    <3>5. \A e \in Events : e # t => rows'[e] = rows[e]
      BY <1>1, <3>1
    <3> HIDE DEF t
    <3> QED
      BY <2>1, <2>2, <3>4, <3>5 DEF DoneInv, DoneIsHandled, AckedIsHandledUntorn, AckedIsHandled
  <2>4. CASE rows[t].marker # "stale"
    BY <1>5, <2>1, <2>2, <2>4, DoneStays
       DEF ReleaseStale, IsStale, DoneInv, AckedIsHandledUntorn, AckedIsHandled
  <2> QED
    BY <2>3, <2>4
<1>6. CASE ClaimAgain(w)
  <2>1. \A x \in Workers : \A e \in Events : x # w /\ TakesOver(x, e) => TakesOver(x, e)'
    BY <1>1, <1>2 DEF TypeOK, Becomes, TakesOver, At
  <2>2. UNCHANGED <<torn, handled, acked>>
    BY <1>6 DEF ClaimAgain
  <2>3. rows[t].marker = "none"
    <3>1. TakesOver(w, t)
      BY <1>6 DEF ClaimAgain, TakesOver
    <3> QED
      BY <1>1, <3>1 DEF ClaimInv, TakeoversHeld
  <2> DEFINE v == [rows[t] EXCEPT !.marker = "fresh"]
  <2>4. rows' = [rows EXCEPT ![t] = v]
    BY <1>6, <2>3 DEF ClaimAgain
  <2>5. v.marker = "fresh"
    BY <1>1 DEF RowsType
  <2> HIDE DEF v
  <2>6. \A e \in Events : e # t => ~TakesOver(w, e)
    BY DEF TakesOver
  <2>7. DoneIsHandled'
    BY <1>1, <2>1, <2>2, <2>4, <2>5, <2>6 DEF DoneInv, DoneIsHandled
  <2> QED
    BY <2>2, <2>7 DEF DoneInv, AckedIsHandledUntorn, AckedIsHandled
<1> QED
  BY <1>3, <1>4, <1>5, <1>6

\* The other steps of a worker: only Finish completes an event, and it says so.
LEMMA StepDone ==
  ASSUME ClaimInv, DoneInv, NEW w \in Workers,
         Step(w) \/ CompleteFails(w) \/ Fail(w) \/ Crash(w)
  PROVE  DoneInv'
<1>1. /\ TypeOK /\ workers[w] \in WorkerType /\ rows \in [Things -> RowsType]
      /\ Events \subseteq Things /\ "session" \notin Events
  BY DEF ClaimInv, TypeOK, Things, Events
<1>2. PICK r : Becomes(w, r)
  BY StepMoves
<1>3. CASE Reserve(w) \/ ReadMarker(w) \/ ReleaseStale(w) \/ ClaimAgain(w)
  BY <1>3, ReserveDone
<1>4. CASE \/ CheckSession(w) \/ CheckMarker(w) \/ CreateLicence(w) \/ CompleteFails(w)
           \/ Handle(w) \/ SyncPending(w) \/ Return(w)
  <2>1. ~At(w, "again")
    BY <1>4 DEF CheckSession, CheckMarker, CreateLicence, CompleteFails, Handle, SyncPending, Return, At
  <2>2. UNCHANGED <<rows, handled, acked>>
    BY <1>4 DEF CheckSession, CheckMarker, CreateLicence, CompleteFails, Handle, SyncPending, Return
  <2>3. torn => torn'
    BY <1>4 DEF CheckSession, CheckMarker, CreateLicence, CompleteFails, Handle, SyncPending, Return
  <2>4. DoneIsHandled'
    BY <1>1, <1>2, <2>1, <2>2, <2>3, OthersTakeOver, DoneStays DEF DoneInv
  <2> QED
    BY <2>2, <2>3, <2>4 DEF DoneInv, AckedIsHandledUntorn, AckedIsHandled
<1>5. CASE ReleaseSession(w) \/ CompleteSession(w)
  <2>1. ~At(w, "again")
    BY <1>5 DEF ReleaseSession, CompleteSession, At
  <2>2. UNCHANGED <<torn, handled, acked>>
    BY <1>5 DEF ReleaseSession, CompleteSession
  <2>3. \A e \in Events : rows'[e] = rows[e]
    BY <1>1, <1>5 DEF ReleaseSession, CompleteSession
  <2>4. \A x \in Workers : \A e \in Events : TakesOver(x, e) => TakesOver(x, e)'
    BY <1>1, <1>2, <2>1, OthersTakeOver
  <2> QED
    BY <2>2, <2>3, <2>4 DEF DoneInv, DoneIsHandled, AckedIsHandledUntorn, AckedIsHandled
<1>6. CASE Finish(w)
  <2> DEFINE e == workers[w].why
  <2>1. ~At(w, "again") /\ e \in Events
    BY <1>6 DEF Finish, At, ClaimInv, AllApt, Apt
  <2>2. torn' = torn
    BY <1>6 DEF Finish
  <2>3. \A x \in Workers : \A f \in Events : TakesOver(x, f) => TakesOver(x, f)'
    BY <1>1, <1>2, <2>1, OthersTakeOver
  <2>4. \A f \in Events : f # e => rows'[f] = rows[f]
    BY <1>1, <1>6 DEF Finish
  <2>5. CASE workers[w].result = "err"
    <3>1. rows'[e] = NoRows /\ UNCHANGED <<acked, handled>>
      BY <1>1, <1>6, <2>1, <2>5 DEF Finish, Released
    <3> QED
      BY <2>2, <2>3, <2>4, <3>1
         DEF DoneInv, DoneIsHandled, AckedIsHandledUntorn, AckedIsHandled, NoRows
  <2>6. CASE workers[w].result # "err"
    <3>1. acked' \subseteq acked \cup {e} /\ handled' = handled \cup {e}
      BY <1>6, <2>6 DEF Finish
    <3> QED
      BY <2>2, <2>3, <2>4, <3>1 DEF DoneInv, DoneIsHandled, AckedIsHandledUntorn, AckedIsHandled
  <2> QED
    BY <2>5, <2>6
<1>7. CASE Fail(w) \/ Crash(w)
  <2>1. UNCHANGED <<rows, handled, acked>> /\ torn' = (torn \/ At(w, "again"))
    BY <1>7 DEF Fail, Crash
  <2>2. ~torn' => ~At(w, "again")
    BY <2>1
  <2>3. torn => torn'
    BY <2>1
  <2>4. ~torn' => \A x \in Workers : \A e \in Events : TakesOver(x, e) => TakesOver(x, e)'
    BY <1>1, <1>2, <2>2, OthersTakeOver
  <2>5. DoneIsHandled'
    BY <2>1, <2>3, <2>4, DoneStays DEF DoneInv
  <2> QED
    BY <2>1, <2>3, <2>5 DEF DoneInv, AckedIsHandledUntorn, AckedIsHandled
<1> QED
  BY <1>3, <1>4, <1>5, <1>6, <1>7 DEF Step

\* Every step keeps what looks done handled.
LEMMA DoneNext == ClaimInv /\ DoneInv /\ [Next]_vars => DoneInv'
<1> SUFFICES ASSUME ClaimInv, DoneInv, [Next]_vars PROVE DoneInv'
  OBVIOUS
<1>1. TypeOK
  BY DEF ClaimInv
<1>2. CASE \E w \in Workers : Step(w) \/ CompleteFails(w) \/ Fail(w) \/ Crash(w)
  BY <1>2, StepDone
<1>3. CASE \/ \E q \in Requests, e \in Events : Deliver(q, e)
           \/ \E q \in Requests : Verify(q)
           \/ \E q \in Syncs : StartSync(q)
  <2>1. PICK w \in Workers : At(w, "idle") /\ \E r : Becomes(w, r)
    BY <1>3 DEF Workers, Deliver, Verify, StartSync
  <2>2. UNCHANGED <<rows, torn, handled, acked>>
    BY <1>3 DEF Deliver, Verify, StartSync
  <2>3. \A x \in Workers : \A e \in Events : TakesOver(x, e) => TakesOver(x, e)'
    BY <1>1, <2>1, OthersTakeOver DEF At
  <2> QED
    BY <2>2, <2>3, DoneStays DEF DoneInv, AckedIsHandledUntorn, AckedIsHandled
<1>4. CASE Buy \/ Settle \/ SpoilPlan \/ RepairPlan \/ UNCHANGED vars
  <2>1. UNCHANGED <<rows, workers, torn, handled, acked>>
    BY <1>4 DEF Buy, Settle, SpoilPlan, RepairPlan, vars
  <2> QED
    BY <2>1 DEF DoneInv, DoneIsHandled, AckedIsHandledUntorn, AckedIsHandled, TakesOver, At
<1>5. CASE \E t \in Things : GoStale(t)
  <2>1. PICK t \in Things : GoStale(t)
    BY <1>5
  <2> DEFINE v == [rows[t] EXCEPT !.marker = "stale"]
  <2>2. rows' = [rows EXCEPT ![t] = v] /\ UNCHANGED <<workers, torn, handled, acked>>
    BY <2>1 DEF GoStale
  <2>3. v.marker = "stale" /\ rows \in [Things -> RowsType] /\ Events \subseteq Things
    BY <1>1 DEF TypeOK, RowsType, Things
  <2> HIDE DEF v
  <2> QED
    BY <2>2, <2>3 DEF DoneInv, DoneIsHandled, AckedIsHandledUntorn, AckedIsHandled, TakesOver, At
<1> QED
  BY <1>2, <1>3, <1>4, <1>5 DEF Next

-----------------------------------------------------------------------------
(***************************************************************************)
(* Theorems                                                                *)
(***************************************************************************)

\* The inductive invariant holds of every behaviour.
LEMMA ClaimInvariant == Spec => [](ClaimInv /\ DoneInv)
<1>1. Init => ClaimInv /\ DoneInv
  BY ClaimInit, DoneInit
<1>2. ClaimInv /\ DoneInv /\ [Next]_vars => (ClaimInv /\ DoneInv)'
  BY ClaimNext, DoneNext
<1> QED
  BY <1>1, <1>2, PTL DEF Spec

\* The rows, workers and history of a session keep their types.
THEOREM FulfilmentTypeCorrect == Spec => []TypeOK
<1>1. ClaimInv => TypeOK
  BY DEF ClaimInv
<1> QED
  BY <1>1, ClaimInvariant, PTL

\* An event is handled, and a session fulfilled, by one worker at a time, with
\* any number of deliveries, success pages and sync loops, through crashes,
\* failures and takeovers (reserve, release).
THEOREM OneWorksHolds == Spec => []OneWorks
<1>1. ClaimInv => OneWorks
  BY DEF ClaimInv, ClaimsHeld, OneWorks
<1> QED
  BY <1>1, ClaimInvariant, PTL

\* An event answered 2xx has been handled, as long as no claim was read, or its
\* worker lost, between two statements of reserve.
THEOREM AckedIsHandledUntornHolds == Spec => []AckedIsHandledUntorn
<1>1. DoneInv => AckedIsHandledUntorn
  BY DEF DoneInv
<1> QED
  BY <1>1, ClaimInvariant, PTL
=============================================================================
