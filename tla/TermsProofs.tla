----------------------------- MODULE TermsProofs -----------------------------
(***************************************************************************)
(* Proofs about Terms, for any number of handlers, seats, requests, edits  *)
(* and faults.                                                             *)
(***************************************************************************)
EXTENDS Terms, TLAPS

\* A worker has a read of the subscription in hand.
Reading(w) == workers[w].pc \in {"apply", "result"}
\* y's stamp is newer than x's.
Later(s, x, y) == \E i, j \in DOMAIN s : i < j /\ s[i] = x /\ s[j] = y

\* A worker that has the change lock, and its change's outcome to find out.
Inside(w) ==
  \/ workers[w].pc \in {"resolve", "lower", "ask", "wait", "result", "restore", "mark", "release"}
  \/ workers[w].pc \in {"stamp", "get"} /\ workers[w].job = "change" /\ ~workers[w].known

\* What goes with where a worker is.
Shape(w) ==
  /\ Inside(w) => workers[w].job = "change" /\ lock = w
  /\ workers[w].pc = "settle" => workers[w].job = "sweep"
  /\ workers[w].pc \in {"lower", "ask", "wait"} => ~workers[w].known
  /\ workers[w].down => Inside(w) /\ workers[w].pc # "resolve"
  /\ workers[w].old => workers[w].pc \in {"apply", "result", "restore", "mark", "release", "settle"}
  /\ workers[w].same => workers[w].job = "sweep" /\ ~Held
  /\ workers[w].made => Inside(w) /\ workers[w].pc \in {"wait", "stamp", "get", "result", "restore"}

\* A change that waits for its payment is to more seats than are billed.
PendingIsMore == stripe.pending = NoSeats \/ stripe.seats < stripe.pending

\* While nothing went out of turn: the licence has no more seats than are
\* billed; a downgrade that was made leaves nothing waiting; and one still
\* with Stripe is of more seats than the terms held for it.
Paid == lic.seats <= stripe.seats
MadeForGood == Held /\ stripe.seats = lic.seats => stripe.pending = NoSeats
Owed == \A r \in flying : r.down /\ Held /\ r.to = lic.seats => lic.seats < stripe.seats

\* A read that may still be applied shows no more than is billed, unless a
\* downgrade was made since it was taken: then the terms are held, and it is
\* kept from them.  While a downgrade is not made, every such read is from
\* before it.
ReadHolds(w) ==
  Reading(w) /\ Current(w) =>
    /\ ~workers[w].old => workers[w].sub.seats <= stripe.seats
    /\ workers[w].old => Held /\ lic.seats < workers[w].sub.seats
    /\ Held /\ lic.seats < stripe.seats => lic.seats < workers[w].sub.seats

\* A read that ends the hold, as it shows the downgrade, leaves none from
\* before it to be applied afterwards.
EndsForAll(w) ==
  Reading(w) /\ Current(w) /\ Held /\ workers[w].sub.seats = lic.seats =>
    \A x \in Workers : Later(order, w, x) => ~workers[x].old

\* A downgrade under way: until it is asked and made the terms are held for
\* it, and less than is billed; once it is known to be made it is billed; and
\* when its hold is let go, no read from before it is left.
Lowering(w) ==
  workers[w].down =>
    /\ workers[w].pc = "lower" => workers[w].to < stripe.seats
    /\ workers[w].pc = "ask" \/ (workers[w].pc = "wait" /\ Asking(w) \in flying) =>
         /\ lic = [seats |-> workers[w].to, hold |-> "held"]
         /\ workers[w].to < stripe.seats
         /\ workers[w].prev <= stripe.seats
    /\ workers[w].pc \in {"ask", "wait"} => ~Current(w)
    /\ workers[w].pc = "restore" => workers[w].prev <= stripe.seats
    /\ workers[w].made \/ (workers[w].pc = "result" /\ workers[w].known) =>
         /\ stripe = [seats |-> workers[w].to, pending |-> NoSeats]
         /\ workers[w].pc = "result" => workers[w].sub = stripe
         /\ workers[w].pc = "wait" => Asking(w) \notin flying
    /\ workers[w].pc = "release" => \A x \in Workers : Reading(x) /\ Current(x) => ~workers[x].old

\* Nothing went out of turn, and nobody edited the subscription under a change.
Orderly == edited = "no" /\ ~crossed

Shapes == \A w \in Workers : Shape(w)
Settled ==
  /\ Paid /\ MadeForGood /\ Owed
  /\ \A w \in Workers : ReadHolds(w) /\ EndsForAll(w) /\ Lowering(w)

TermsInv == TypeOK /\ PendingIsMore /\ Shapes /\ (Orderly => Settled)

-----------------------------------------------------------------------------
(***************************************************************************)
(* Read stamps                                                             *)
(***************************************************************************)

\* What a sequence of stamps keeps of the one there is, but for w's.
Kept(s, w) ==
  /\ s \in Seq(Workers) /\ IsInjective(s)
  /\ ToSet(s) \subseteq ToSet(order) \cup {w}
  /\ \A x, y \in Workers : Later(s, x, y) => Later(order, x, y) \/ y = w

\* What a sequence of stamps keeps that is part of the one there is.
Shrunk(s) ==
  /\ s \in Seq(Workers) /\ IsInjective(s)
  /\ ToSet(s) \subseteq ToSet(order)
  /\ \A x, y \in Workers : Later(s, x, y) => Later(order, x, y)

\* The place of a stamp.
LEMMA PlaceIs ==
  ASSUME order \in Seq(Workers), NEW w \in Workers, Current(w)
  PROVE  Place(w) \in DOMAIN order /\ order[Place(w)] = w
<1>1. \E i \in DOMAIN order : order[i] = w
  BY DEF Current, ToSet
<1> QED BY <1>1 DEF Place

\* No stamp, or the same.
LEMMA NoStamps == TypeOK => Shrunk(<<>>) /\ Shrunk(order)
BY DEF TypeOK, Shrunk, IsInjective, ToSet, Later

\* The newer stamps are those after w's.
LEMMA NewerIs ==
  ASSUME TypeOK, NEW w \in Workers, Current(w)
  PROVE  /\ Shrunk(Newer(w))
         /\ \A x \in Workers : x \in ToSet(Newer(w)) <=> Later(order, w, x)
<1> DEFINE k == Place(w)
<1> DEFINE n == Newer(w)
<1>1. order \in Seq(Workers) /\ IsInjective(order)
  BY DEF TypeOK
<1>2. k \in 1 .. Len(order) /\ order[k] = w
  BY <1>1, PlaceIs
<1>3. /\ n \in Seq(Workers) /\ Len(n) = Len(order) - k
      /\ \A i \in 1 .. Len(n) : n[i] = order[i + k]
  BY <1>1, <1>2 DEF Newer
<1>4. DOMAIN n = 1 .. Len(n) /\ DOMAIN order = 1 .. Len(order) /\ Len(order) \in Nat
  BY <1>1, <1>3
<1> HIDE DEF k, n
<1>5. IsInjective(n)
  <2> SUFFICES ASSUME NEW i \in DOMAIN n, NEW j \in DOMAIN n, n[i] = n[j] PROVE i = j
    BY DEF IsInjective
  <2>1. i + k \in DOMAIN order /\ j + k \in DOMAIN order /\ order[i + k] = order[j + k]
    BY <1>2, <1>3, <1>4
  <2>2. i + k = j + k
    BY <2>1, <1>1 DEF IsInjective
  <2> QED BY <2>2, <1>2, <1>4
<1>6. ToSet(n) \subseteq ToSet(order)
  BY <1>2, <1>3, <1>4 DEF ToSet
<1>7. ASSUME NEW x \in Workers, NEW y \in Workers, Later(n, x, y) PROVE Later(order, x, y)
  <2>1. PICK i \in DOMAIN n, j \in DOMAIN n : i < j /\ n[i] = x /\ n[j] = y
    BY <1>7 DEF Later
  <2>2. i + k \in DOMAIN order /\ j + k \in DOMAIN order /\ i + k < j + k
        /\ order[i + k] = x /\ order[j + k] = y
    BY <2>1, <1>2, <1>3, <1>4
  <2> QED BY <2>2 DEF Later
<1>8. ASSUME NEW x \in Workers PROVE x \in ToSet(n) <=> Later(order, w, x)
  <2>1. ASSUME x \in ToSet(n) PROVE Later(order, w, x)
    <3>1. PICK i \in DOMAIN n : n[i] = x
      BY <2>1 DEF ToSet
    <3>2. i + k \in DOMAIN order /\ k < i + k /\ k \in DOMAIN order /\ order[i + k] = x
      BY <3>1, <1>2, <1>3, <1>4
    <3> QED BY <3>2, <1>2 DEF Later
  <2>2. ASSUME Later(order, w, x) PROVE x \in ToSet(n)
    <3>1. PICK i \in DOMAIN order, j \in DOMAIN order : i < j /\ order[i] = w /\ order[j] = x
      BY <2>2 DEF Later
    <3>2. i = k
      BY <3>1, <1>1, <1>2, <1>4 DEF IsInjective
    <3>3. j - k \in DOMAIN n /\ n[j - k] = x
      BY <3>1, <3>2, <1>2, <1>3, <1>4
    <3> QED BY <3>3 DEF ToSet
  <2> QED BY <2>1, <2>2
<1> QED BY <1>3, <1>5, <1>6, <1>7, <1>8 DEF Shrunk, n

\* Without w's stamp, the others keep their order.
LEMMA WithoutIs ==
  ASSUME TypeOK, NEW w \in Workers
  PROVE  Shrunk(Without(w)) /\ w \notin ToSet(Without(w))
<1>1. CASE ~Current(w)
  BY <1>1, NoStamps DEF Without, Current
<1>2. CASE Current(w)
  <2> DEFINE k == Place(w)
  <2> DEFINE n == Without(w)
  <2> DEFINE At(i) == IF i < k THEN i ELSE i + 1
  <2>1. order \in Seq(Workers) /\ IsInjective(order)
    BY DEF TypeOK
  <2>2. k \in 1 .. Len(order) /\ order[k] = w /\ Len(order) \in Nat /\ DOMAIN order = 1 .. Len(order)
    BY <2>1, <1>2, PlaceIs
  <2>3. n = SubSeq(order, 1, k - 1) \o SubSeq(order, k + 1, Len(order))
    BY <1>2 DEF Without, RemoveAt
  <2>4. /\ n \in Seq(Workers) /\ Len(n) = Len(order) - 1
        /\ \A i \in 1 .. Len(n) : n[i] = order[At(i)]
    <3> DEFINE a == SubSeq(order, 1, k - 1)
    <3> DEFINE b == SubSeq(order, k + 1, Len(order))
    <3>1. a \in Seq(Workers) /\ Len(a) = k - 1 /\ \A i \in 1 .. k - 1 : a[i] = order[i]
      BY <2>1, <2>2
    <3>2. /\ b \in Seq(Workers) /\ Len(b) = Len(order) - k
          /\ \A i \in 1 .. Len(order) - k : b[i] = order[i + k]
      BY <2>1, <2>2
    <3> HIDE DEF a, b, k
    <3>3. n = a \o b
      BY <2>3 DEF a, b
    <3> HIDE DEF n
    <3>4. n \in Seq(Workers) /\ Len(n) = Len(order) - 1
      <4>1. a \o b \in Seq(Workers) /\ Len(a \o b) = Len(a) + Len(b)
        BY <3>1, <3>2
      <4>2. Len(a) + Len(b) = Len(order) - 1
        BY <2>2, <3>1, <3>2
      <4> QED BY <4>1, <4>2, <3>3
    <3>5. \A i \in 1 .. Len(n) : n[i] = IF i <= k - 1 THEN a[i] ELSE b[i - (k - 1)]
      BY <2>2, <3>1, <3>2, <3>3, <3>4
    <3>6. ASSUME NEW i \in 1 .. Len(n) PROVE n[i] = order[At(i)]
      <4>1. CASE i < k
        BY <4>1, <2>2, <3>1, <3>5
      <4>2. CASE i >= k
        <5>1. i - (k - 1) \in 1 .. Len(order) - k /\ (i - (k - 1)) + k = i + 1
          BY <4>2, <2>2, <3>4
        <5> QED BY <4>2, <5>1, <2>2, <3>2, <3>5
      <4> QED BY <4>1, <4>2, <2>2, <3>4
    <3> QED BY <3>4, <3>6
  <2>5. DOMAIN n = 1 .. Len(n)
    BY <2>4
  <2>6. \A i \in 1 .. Len(n) : At(i) \in 1 .. Len(order) /\ At(i) # k
    BY <2>2, <2>4
  <2>7. \A i, j \in 1 .. Len(n) : (i < j <=> At(i) < At(j)) /\ (At(i) = At(j) => i = j)
    BY <2>2, <2>4
  <2> HIDE DEF k, n, At
  <2>8. IsInjective(n)
    BY <2>1, <2>2, <2>4, <2>5, <2>6, <2>7 DEF IsInjective
  <2>9. ToSet(n) \subseteq ToSet(order)
    BY <2>2, <2>4, <2>5, <2>6 DEF ToSet
  <2>10. ASSUME NEW x \in Workers, NEW y \in Workers, Later(n, x, y) PROVE Later(order, x, y)
    <3>1. PICK i \in DOMAIN n, j \in DOMAIN n : i < j /\ n[i] = x /\ n[j] = y
      BY <2>10 DEF Later
    <3>2. At(i) \in DOMAIN order /\ At(j) \in DOMAIN order /\ At(i) < At(j)
          /\ order[At(i)] = x /\ order[At(j)] = y
      BY <3>1, <2>2, <2>4, <2>5, <2>6, <2>7
    <3> QED BY <3>2 DEF Later
  <2>11. w \notin ToSet(n)
    BY <2>1, <2>2, <2>4, <2>5, <2>6 DEF ToSet, IsInjective
  <2> QED BY <2>4, <2>8, <2>9, <2>10, <2>11 DEF Shrunk, n
<1> QED BY <1>1, <1>2

\* A new stamp is the newest.
LEMMA StampedIs ==
  ASSUME TypeOK, NEW w \in Workers
  PROVE  Kept(Stamped(w), w)
<1> DEFINE s == Without(w)
<1> DEFINE n == Stamped(w)
<1>1. Shrunk(s) /\ w \notin ToSet(s)
  BY WithoutIs
<1>2. /\ s \in Seq(Workers) /\ IsInjective(s) /\ DOMAIN s = 1 .. Len(s) /\ Len(s) \in Nat
      /\ \A i \in DOMAIN s : s[i] # w /\ s[i] \in ToSet(order)
  <2> HIDE DEF s
  <2>1. s \in Seq(Workers) /\ IsInjective(s) /\ ToSet(s) \subseteq ToSet(order)
    BY <1>1 DEF Shrunk
  <2>2. DOMAIN s = 1 .. Len(s) /\ Len(s) \in Nat
    BY <2>1
  <2>3. \A i \in DOMAIN s : s[i] \in ToSet(s)
    BY DEF ToSet
  <2> QED BY <2>1, <2>2, <2>3, <1>1
<1>3. n = Append(s, w)
  BY DEF Stamped
<1> HIDE DEF s, n
<1>4. /\ n \in Seq(Workers) /\ DOMAIN n = 1 .. Len(s) + 1
      /\ n[Len(s) + 1] = w /\ \A i \in 1 .. Len(s) : n[i] = s[i]
  BY <1>2, <1>3
<1>5. IsInjective(n)
  <2> SUFFICES ASSUME NEW i \in DOMAIN n, NEW j \in DOMAIN n, n[i] = n[j] PROVE i = j
    BY DEF IsInjective
  <2>1. CASE i \in DOMAIN s /\ j \in DOMAIN s
    BY <2>1, <1>2, <1>4 DEF IsInjective
  <2>2. CASE i = Len(s) + 1 \/ j = Len(s) + 1
    BY <2>2, <1>2, <1>4
  <2> QED BY <2>1, <2>2, <1>2, <1>4
<1>6. ToSet(n) \subseteq ToSet(order) \cup {w}
  <2> SUFFICES ASSUME NEW i \in DOMAIN n PROVE n[i] \in ToSet(order) \cup {w}
    BY DEF ToSet
  <2> QED BY <1>2, <1>4
<1>7. ASSUME NEW x \in Workers, NEW y \in Workers, Later(n, x, y) PROVE Later(order, x, y) \/ y = w
  <2>1. PICK i \in DOMAIN n, j \in DOMAIN n : i < j /\ n[i] = x /\ n[j] = y
    BY <1>7 DEF Later
  <2>2. CASE j = Len(s) + 1
    BY <2>1, <2>2, <1>4
  <2>3. CASE j \in DOMAIN s
    <3>1. i \in DOMAIN s /\ s[i] = x /\ s[j] = y
      BY <2>1, <2>3, <1>2, <1>4
    <3>2. Later(s, x, y)
      BY <3>1, <2>1, <2>3 DEF Later
    <3> QED BY <3>2, <1>1 DEF Shrunk
  <2> QED BY <2>2, <2>3, <1>2, <1>4
<1> QED BY <1>4, <1>5, <1>6, <1>7 DEF Kept, n

-----------------------------------------------------------------------------
(***************************************************************************)
(* Types                                                                   *)
(***************************************************************************)

\* The constants are natural numbers, and a plan is sold in one seat at least.
LEMMA Bounds ==
  /\ MaxSeats \in Nat /\ 1 \in Seats /\ Seats \subseteq Nat /\ 0 \notin Seats
  /\ MaxRequests \in Nat /\ MaxEdits \in Nat /\ MaxFaults \in Nat
  /\ MaxEvents = 2 /\ Nobody \notin Workers
<1>1. MaxRequests \in Nat /\ MaxEdits \in Nat /\ MaxFaults \in Nat
  BY TermsAssumption, Zenon
<1>2. MaxSeats \in Nat /\ 1 \in Seats /\ Seats \subseteq Nat /\ 0 \notin Seats
  BY TermsAssumption DEF Seats
<1> QED BY <1>1, <1>2, TermsAssumption DEF MaxEvents

\* A worker at rest has its type.
LEMMA IdleIs == Idle \in WorkerType /\ NoSub \in SubType
BY Bounds DEF Idle, NoSub, WorkerType, SubType, NoSeats

\* What the stamps become has its type.
LEMMA StampTypes ==
  ASSUME TypeOK, NEW w \in Workers
  PROVE  /\ Without(w) \in Seq(Workers) /\ IsInjective(Without(w))
         /\ Stamped(w) \in Seq(Workers) /\ IsInjective(Stamped(w))
         /\ Current(w) => Newer(w) \in Seq(Workers) /\ IsInjective(Newer(w))
         /\ <<>> \in Seq(Workers) /\ IsInjective(<<>>)
BY WithoutIs, StampedIs, NewerIs, NoStamps DEF Shrunk, Kept

\* What Stripe does of a change asked.
Makes(r, s) ==
  /\ flying' = flying \ {r} /\ StripeHas(s)
  /\ \/ /\ workers' = [w \in Workers |->
             IF w \in Awaiting(r)
             THEN [Aged(r)[w] EXCEPT !.pc = "result", !.sub = s, !.known = TRUE]
             ELSE Aged(r)[w]]
        /\ UNCHANGED faults
     \/ /\ Awaiting(r) # {}
        /\ faults < MaxFaults /\ faults' = faults + 1
        /\ workers' = [w \in Workers |->
             [Aged(r)[w] EXCEPT !.made = @ \/ w \in Awaiting(r)]]
  /\ edited' = IF r.down THEN edited ELSE Lowered(s.seats)
  /\ crossed' = (crossed \/ OutOfTurn(r))
  /\ UNCHANGED <<lic, used, lock, order, requests, edits>>

\* What Stripe, the seller, the users and the clock do, and what a worker does.
Steps ==
  StripeMakes \/ StripeNeverSees \/ PendingEnds \/ DashboardEdit \/ TakeSeat \/ FreeSeat \/ HoldLapses
Works(w) ==
  \/ Goes(w) \/ TakeEvent(w) \/ Look(w) \/ Request(w) \/ FindLapsedTermHolds(w)
  \/ DowngradeRefused(w) \/ StripeRefuses(w) \/ OutcomeUnknown(w)
  \/ ReadFails(w) \/ ApplyFails(w) \/ MarkFails(w) \/ TermsWriteFails(w) \/ Crash(w)

\* Where a worker can be, and the parts of the type invariant.
Pcs == {"idle", "lock", "resolve", "lower", "ask", "wait", "result", "restore", "mark", "release",
        "stamp", "get", "apply", "settle"}
WorkersTyped == workers \in [Workers -> WorkerType]
OrderTyped == order \in Seq(Workers) /\ IsInjective(order)
OthersTyped ==
  /\ stripe \in SubType
  /\ flying \subseteq [to : Seats, down : BOOLEAN]
  /\ events \in 0..MaxEvents
  /\ lic \in LicType
  /\ used \in 0..MaxSeats
  /\ lock \in Workers \cup {Nobody}
  /\ requests \in 0..MaxRequests /\ edits \in 0..MaxEdits /\ faults \in 0..MaxFaults
  /\ edited \in {"no", "lowered", "under"} /\ crossed \in BOOLEAN

\* The records a worker's steps write are of the worker's type.
LEMMA RecordTypes ==
  ASSUME NEW k \in WorkerType
  PROVE  /\ \A pc \in Pcs : [k EXCEPT !.pc = pc] \in WorkerType
         /\ \A pc \in Pcs : [k EXCEPT !.pc = pc, !.sub = NoSub, !.made = FALSE] \in WorkerType
         /\ \A pc \in Pcs, sub \in SubType : [k EXCEPT !.pc = pc, !.sub = sub] \in WorkerType
         /\ \A sub \in SubType : [k EXCEPT !.pc = "result", !.sub = sub, !.known = TRUE] \in WorkerType
         /\ \A b \in BOOLEAN : [k EXCEPT !.made = b] \in WorkerType /\ [k EXCEPT !.old = b] \in WorkerType
         /\ \A pc \in Pcs, b, c \in BOOLEAN : [k EXCEPT !.pc = pc, !.known = b, !.down = c] \in WorkerType
         /\ \A n \in Seats : [k EXCEPT !.pc = "ask", !.prev = n] \in WorkerType
         /\ [k EXCEPT !.same = FALSE] \in WorkerType
<1>1. \A pc \in Pcs : [k EXCEPT !.pc = pc] \in WorkerType
  BY DEF WorkerType, Pcs
<1>2. \A pc \in Pcs : [k EXCEPT !.pc = pc, !.sub = NoSub, !.made = FALSE] \in WorkerType
  BY IdleIs DEF WorkerType, Pcs
<1>3. \A pc \in Pcs, sub \in SubType : [k EXCEPT !.pc = pc, !.sub = sub] \in WorkerType
  BY DEF WorkerType, Pcs
<1>4. \A sub \in SubType : [k EXCEPT !.pc = "result", !.sub = sub, !.known = TRUE] \in WorkerType
  BY DEF WorkerType
<1>5. \A b \in BOOLEAN : [k EXCEPT !.made = b] \in WorkerType /\ [k EXCEPT !.old = b] \in WorkerType
  BY DEF WorkerType
<1>6. \A pc \in Pcs, b, c \in BOOLEAN : [k EXCEPT !.pc = pc, !.known = b, !.down = c] \in WorkerType
  BY DEF WorkerType, Pcs
<1>7. \A n \in Seats : [k EXCEPT !.pc = "ask", !.prev = n] \in WorkerType
  BY DEF WorkerType
<1>8. [k EXCEPT !.same = FALSE] \in WorkerType
  BY DEF WorkerType
<1> QED BY <1>1, <1>2, <1>3, <1>4, <1>5, <1>6, <1>7, <1>8

\* The records a worker starts a piece of work with are of its type.
LEMMA StartTypes ==
  /\ [Idle EXCEPT !.pc = "stamp", !.job = "change", !.known = TRUE] \in WorkerType
  /\ [Idle EXCEPT !.pc = "stamp"] \in WorkerType
  /\ [Idle EXCEPT !.pc = "stamp", !.job = "look"] \in WorkerType
  /\ \A to \in Seats : [Idle EXCEPT !.pc = "lock", !.job = "change", !.to = to] \in WorkerType
  /\ [Idle EXCEPT !.pc = "lock", !.job = "sweep", !.same = TRUE] \in WorkerType
<1>1. Idle \in WorkerType
  BY IdleIs
<1> QED BY <1>1 DEF WorkerType

\* What is common to the steps keeps the workers' type.
LEMMA CommonTypes ==
  ASSUME WorkersTyped, NEW w \in Workers
  PROVE  /\ \A pc \in Pcs : Goto(w, pc) \/ Concludes(w, pc) => WorkersTyped'
         /\ Done(w) \/ ReadsBack(w) => WorkersTyped'
<1> USE DEF WorkersTyped
<1>1. workers[w] \in WorkerType
  OBVIOUS
<1>2. ASSUME NEW pc \in Pcs, Goto(w, pc) PROVE WorkersTyped'
  <2>1. [workers[w] EXCEPT !.pc = pc] \in WorkerType
    BY <1>1, RecordTypes
  <2> QED BY <1>2, <2>1 DEF Goto
<1>3. ASSUME NEW pc \in Pcs, Concludes(w, pc) PROVE WorkersTyped'
  <2>1. [workers[w] EXCEPT !.pc = pc, !.sub = NoSub, !.made = FALSE] \in WorkerType
    BY <1>1, RecordTypes
  <2> QED BY <1>3, <2>1 DEF Concludes
<1>4. ASSUME Done(w) \/ ReadsBack(w) PROVE WorkersTyped'
  BY <1>4, IdleIs, StartTypes DEF Done, ReadsBack
<1> QED BY <1>2, <1>3, <1>4

\* Every step of Stripe and of the seats keeps the types.
LEMMA OuterTypes ==
  ASSUME TypeOK, Steps
  PROVE  TypeOK'
<1> USE Bounds DEF TypeOK
<1>1. CASE StripeMakes
  <2>0. PICK r \in flying : \E s \in Outcomes(r) : Makes(r, s)
    BY <1>1 DEF StripeMakes, Makes
  <2>1. PICK s \in Outcomes(r) : Makes(r, s)
    BY <2>0
  <2>2. s \in SubType
    BY DEF Outcomes, SubType, NoSeats
  <2>3. \A w \in Workers : Aged(r)[w] \in WorkerType
    <3> TAKE w \in Workers
    <3> DEFINE b == workers[w].old \/ (r.down /\ workers[w].pc \in {"apply", "result"})
    <3>1. b \in BOOLEAN
      OBVIOUS
    <3>2. Aged(r)[w] = [workers[w] EXCEPT !.old = b]
      BY DEF Aged
    <3> HIDE DEF b
    <3>3. \A c \in BOOLEAN : [workers[w] EXCEPT !.old = c] \in WorkerType
      BY RecordTypes
    <3> QED BY <3>1, <3>2, <3>3
  <2>4. workers' \in [Workers -> WorkerType]
    <3>1. \A w \in Workers : [Aged(r)[w] EXCEPT !.pc = "result", !.sub = s, !.known = TRUE] \in WorkerType
      BY <2>2, <2>3, RecordTypes
    <3>2. \A w \in Workers : [Aged(r)[w] EXCEPT !.made = @ \/ w \in Awaiting(r)] \in WorkerType
      <4> TAKE w \in Workers
      <4>1. (Aged(r)[w].made \/ w \in Awaiting(r)) \in BOOLEAN
        OBVIOUS
      <4> QED BY <2>3, <4>1, RecordTypes
    <3> QED BY <2>1, <2>3, <3>1, <3>2 DEF Makes
  <2>5. stripe' \in SubType /\ events' \in 0 .. MaxEvents
    <3>1. stripe' = s /\ events' = IF events < MaxEvents THEN events + 1 ELSE events
      BY <2>1, Zenon DEF Makes, StripeHas
    <3> QED BY <3>1, <2>2
  <2>6. edited' \in {"no", "lowered", "under"} /\ crossed' \in BOOLEAN
    BY <2>1 DEF Makes, Lowered, OutOfTurn
  <2>7. faults' \in 0 .. MaxFaults
    <3>1. UNCHANGED faults \/ (faults < MaxFaults /\ faults' = faults + 1)
      BY <2>1, Zenon DEF Makes
    <3> QED BY <3>1
  <2> QED BY <2>1, <2>4, <2>5, <2>6, <2>7 DEF Makes
<1>2. CASE StripeNeverSees
  BY <1>2 DEF StripeNeverSees, bounds
<1>3. CASE PendingEnds
  BY <1>3 DEF PendingEnds, bounds, StripeHas, SubType, NoSeats
<1>4. CASE DashboardEdit
  BY <1>4 DEF DashboardEdit, StripeHas, SubType, NoSeats, Lowered
<1>5. CASE TakeSeat
  BY <1>5 DEF TakeSeat, bounds, LicType, Seats
<1>6. CASE FreeSeat
  BY <1>6 DEF FreeSeat, bounds
<1>7. CASE HoldLapses
  BY <1>7 DEF HoldLapses, bounds, LicType, Held
<1> QED BY <1>1, <1>2, <1>3, <1>4, <1>5, <1>6, <1>7 DEF Steps

\* Every step of a worker keeps the workers' type.
LEMMA WorkerTypes ==
  ASSUME TypeOK, NEW w \in Workers, Works(w)
  PROVE  WorkersTyped'
<1>0. WorkersTyped /\ workers[w] \in WorkerType /\ stripe \in SubType /\ lic.seats \in Seats
  BY DEF TypeOK, WorkersTyped, LicType
<1> USE <1>0, CommonTypes DEF Pcs
<1>1. CASE StripeReadStamp(w)
  BY <1>1 DEF StripeReadStamp
<1>2. CASE Get(w)
  <2>1. \A pc \in Pcs : [workers[w] EXCEPT !.pc = pc, !.sub = stripe] \in WorkerType
    BY RecordTypes
  <2> QED BY <1>2, <2>1 DEF Get, WorkersTyped
<1>3. CASE Apply(w)
  BY <1>3 DEF Apply
<1>4. CASE ChangeLocks(w)
  BY <1>4 DEF ChangeLocks, LockLicenseChange
<1>5. CASE Resolve(w)
  <2>1. \A pc \in Pcs, b, c \in BOOLEAN :
          [workers[w] EXCEPT !.pc = pc, !.known = b, !.down = c] \in WorkerType
    BY RecordTypes
  <2> DEFINE p == IF workers[w].to = stripe.seats /\ stripe.pending = NoSeats THEN "stamp" ELSE "lower"
             b == (workers[w].to = stripe.seats /\ stripe.pending = NoSeats)
             c == (workers[w].to < stripe.seats)
  <2>2. p \in Pcs /\ b \in BOOLEAN /\ c \in BOOLEAN
    OBVIOUS
  <2>3. Done(w) \/ workers' = [workers EXCEPT ![w] = [workers[w] EXCEPT !.pc = p, !.known = b, !.down = c]]
    BY <1>5 DEF Resolve
  <2> HIDE DEF p, b, c
  <2>4. [workers[w] EXCEPT !.pc = p, !.known = b, !.down = c] \in WorkerType
    BY <2>1, <2>2
  <2> QED BY <2>3, <2>4 DEF WorkersTyped
<1>6. CASE LowerLicenseTerms(w)
  <2>1. [workers[w] EXCEPT !.pc = "ask", !.prev = lic.seats] \in WorkerType
    BY RecordTypes
  <2>2. \A x \in Workers : [workers[x] EXCEPT !.same = FALSE] \in WorkerType
    BY RecordTypes DEF WorkersTyped
  <2>3. \/ Goto(w, "ask") \/ ReadsBack(w)
        \/ workers' = [x \in Workers |-> IF x = w THEN [workers[w] EXCEPT !.pc = "ask", !.prev = lic.seats]
                                                  ELSE [workers[x] EXCEPT !.same = FALSE]]
    BY <1>6, Zenon DEF LowerLicenseTerms
  <2> QED BY <2>1, <2>2, <2>3 DEF WorkersTyped
<1>7. CASE Ask(w)
  BY <1>7 DEF Ask
<1>8. CASE Replayed(w)
  BY <1>8 DEF Replayed
<1>9. CASE Result(w)
  <2>1. Concludes(w, "mark") \/ Concludes(w, "restore") \/ Done(w)
    BY <1>9 DEF Result
  <2> QED BY <2>1
<1>10. CASE MarkLicenseRead(w)
  BY <1>10 DEF MarkLicenseRead
<1>11. CASE ReleaseLicenseTerms(w)
  BY <1>11 DEF ReleaseLicenseTerms
<1>12. CASE RestoreLicenseTerms(w)
  BY <1>12 DEF RestoreLicenseTerms
<1>13. CASE SweepLocks(w)
  BY <1>13 DEF SweepLocks
<1>14. CASE SettleLapsedHold(w)
  BY <1>14 DEF SettleLapsedHold
<1>15. CASE TakeEvent(w)
  BY <1>15, StartTypes DEF TakeEvent, WorkersTyped
<1>16. CASE Look(w)
  BY <1>16, StartTypes DEF Look, WorkersTyped
<1>17. CASE Request(w)
  BY <1>17, StartTypes DEF Request, WorkersTyped
<1>18. CASE FindLapsedTermHolds(w)
  BY <1>18, StartTypes DEF FindLapsedTermHolds, WorkersTyped
<1>19. CASE DowngradeRefused(w)
  BY <1>19 DEF DowngradeRefused
<1>20. CASE StripeRefuses(w)
  BY <1>20 DEF StripeRefuses
<1>21. CASE OutcomeUnknown(w)
  BY <1>21 DEF OutcomeUnknown, MarkedRead
<1>22. CASE ReadFails(w)
  BY <1>22 DEF ReadFails
<1>23. CASE Crash(w)
  BY <1>23 DEF Crash
<1>24. CASE MarkFails(w)
  BY <1>24 DEF MarkFails
<1>25. CASE TermsWriteFails(w)
  BY <1>25 DEF TermsWriteFails
<1>26. CASE ApplyFails(w)
  BY <1>26 DEF ApplyFails
<1> QED BY <1>1, <1>2, <1>3, <1>4, <1>5, <1>6, <1>7, <1>8, <1>9, <1>10, <1>11, <1>12, <1>13, <1>14,
           <1>15, <1>16, <1>17, <1>18, <1>19, <1>20, <1>21, <1>22, <1>23,
           <1>24, <1>25, <1>26 DEF Works, Goes

\* Every step of a worker keeps the stamps' type.
LEMMA OrderTypes ==
  ASSUME TypeOK, NEW w \in Workers, Works(w)
  PROVE  OrderTyped'
<1> USE StampTypes DEF TypeOK, OrderTyped, bounds
<1>1. CASE StripeReadStamp(w)
  BY <1>1 DEF StripeReadStamp
<1>2. CASE Get(w)
  BY <1>2 DEF Get
<1>3. CASE Apply(w)
  BY <1>3 DEF Apply, Applied
<1>4. CASE ChangeLocks(w)
  BY <1>4 DEF ChangeLocks, LockLicenseChange
<1>5. CASE Resolve(w)
  BY <1>5 DEF Resolve
<1>6. CASE LowerLicenseTerms(w)
  BY <1>6 DEF LowerLicenseTerms
<1>7. CASE Ask(w)
  BY <1>7 DEF Ask, Asking
<1>8. CASE Replayed(w)
  BY <1>8 DEF Replayed
<1>9. CASE Result(w)
  BY <1>9 DEF Result, Applied
<1>10. CASE MarkLicenseRead(w)
  BY <1>10 DEF MarkLicenseRead, MarkedRead
<1>11. CASE ReleaseLicenseTerms(w)
  BY <1>11 DEF ReleaseLicenseTerms
<1>12. CASE RestoreLicenseTerms(w)
  BY <1>12 DEF RestoreLicenseTerms
<1>13. CASE SweepLocks(w)
  BY <1>13 DEF SweepLocks
<1>14. CASE SettleLapsedHold(w)
  BY <1>14 DEF SettleLapsedHold
<1>15. CASE TakeEvent(w)
  BY <1>15 DEF TakeEvent
<1>16. CASE Look(w)
  BY <1>16 DEF Look
<1>17. CASE Request(w)
  BY <1>17 DEF Request
<1>18. CASE FindLapsedTermHolds(w)
  BY <1>18 DEF FindLapsedTermHolds
<1>19. CASE DowngradeRefused(w)
  BY <1>19 DEF DowngradeRefused
<1>20. CASE StripeRefuses(w)
  BY <1>20 DEF StripeRefuses
<1>21. CASE OutcomeUnknown(w)
  BY <1>21 DEF OutcomeUnknown, MarkedRead
<1>22. CASE ReadFails(w)
  BY <1>22 DEF ReadFails
<1>23. CASE Crash(w)
  BY <1>23 DEF Crash
<1>24. CASE MarkFails(w)
  BY <1>24 DEF MarkFails
<1>25. CASE TermsWriteFails(w)
  BY <1>25 DEF TermsWriteFails
<1>26. CASE ApplyFails(w)
  BY <1>26 DEF ApplyFails
<1> QED BY <1>1, <1>2, <1>3, <1>4, <1>5, <1>6, <1>7, <1>8, <1>9, <1>10, <1>11, <1>12,
           <1>13, <1>14, <1>15, <1>16, <1>17, <1>18, <1>19, <1>20, <1>21, <1>22, <1>23,
           <1>24, <1>25, <1>26 DEF Works, Goes

\* Every step of a worker keeps the other types.
LEMMA OtherTypes ==
  ASSUME TypeOK, NEW w \in Workers, Works(w)
  PROVE  OthersTyped'
<1>0. workers[w] \in WorkerType
  BY DEF TypeOK
<1> USE Bounds DEF TypeOK, OthersTyped, bounds, Unlock
<1>1. CASE StripeReadStamp(w)
  BY <1>1 DEF StripeReadStamp
<1>2. CASE Get(w)
  BY <1>2 DEF Get
<1>3. CASE Apply(w)
  BY <1>0, <1>3 DEF Apply, Applied, WorkerType, SubType, LicType
<1>4. CASE ChangeLocks(w)
  BY <1>4 DEF ChangeLocks, LockLicenseChange
<1>5. CASE Resolve(w)
  BY <1>5 DEF Resolve
<1>6. CASE LowerLicenseTerms(w)
  BY <1>0, <1>6 DEF LowerLicenseTerms, LicType, WorkerType
<1>7. CASE Ask(w)
  BY <1>0, <1>7 DEF Ask, Asking, WorkerType
<1>8. CASE Replayed(w)
  BY <1>8 DEF Replayed
<1>9. CASE Result(w)
  <2>1. /\ \/ UNCHANGED lic
           \/ lic' = [seats |-> workers[w].sub.seats, hold |-> "none"]
        /\ UNCHANGED lock \/ Unlock(w)
        /\ UNCHANGED <<stripe, flying, events, used, bounds>>
    BY <1>9 DEF Result, Applied
  <2>2. [seats |-> workers[w].sub.seats, hold |-> "none"] \in LicType
    BY <1>0 DEF WorkerType, SubType, LicType
  <2> QED BY <2>1, <2>2
<1>10. CASE MarkLicenseRead(w)
  BY <1>10 DEF MarkLicenseRead, MarkedRead
<1>11. CASE ReleaseLicenseTerms(w)
  BY <1>0, <1>11 DEF ReleaseLicenseTerms, LicType, WorkerType
<1>12. CASE RestoreLicenseTerms(w)
  BY <1>0, <1>12 DEF RestoreLicenseTerms, LicType, WorkerType
<1>13. CASE SweepLocks(w)
  BY <1>13 DEF SweepLocks
<1>14. CASE SettleLapsedHold(w)
  BY <1>0, <1>14 DEF SettleLapsedHold, LicType, WorkerType
<1>15. CASE TakeEvent(w)
  BY <1>15 DEF TakeEvent
<1>16. CASE Look(w)
  BY <1>16 DEF Look
<1>17. CASE Request(w)
  <2>1. /\ requests < MaxRequests /\ requests' = requests + 1
        /\ UNCHANGED <<stripe, flying, events, lic, used, lock, order, edits, faults, edited, crossed>>
    BY <1>17 DEF Request
  <2> QED BY <2>1
<1>18. CASE FindLapsedTermHolds(w)
  BY <1>18 DEF FindLapsedTermHolds
<1>19. CASE DowngradeRefused(w)
  BY <1>19 DEF DowngradeRefused
<1>20. CASE StripeRefuses(w)
  BY <1>0, <1>20 DEF StripeRefuses
<1>21. CASE OutcomeUnknown(w)
  BY <1>21 DEF OutcomeUnknown, MarkedRead
<1>22. CASE ReadFails(w)
  BY <1>22 DEF ReadFails
<1>23. CASE Crash(w)
  BY <1>23 DEF Crash
<1>24. CASE MarkFails(w)
  BY <1>24 DEF MarkFails
<1>25. CASE TermsWriteFails(w)
  BY <1>25 DEF TermsWriteFails
<1>26. CASE ApplyFails(w)
  BY <1>26 DEF ApplyFails
<1> QED BY <1>1, <1>2, <1>3, <1>4, <1>5, <1>6, <1>7, <1>8, <1>9, <1>10, <1>11, <1>12,
           <1>13, <1>14, <1>15, <1>16, <1>17, <1>18, <1>19, <1>20, <1>21, <1>22, <1>23,
           <1>24, <1>25, <1>26 DEF Works, Goes

\* Every step keeps the types.
LEMMA TypeNext == TypeOK /\ [Next]_vars => TypeOK'
<1> SUFFICES ASSUME TypeOK, [Next]_vars PROVE TypeOK'
  OBVIOUS
<1>1. CASE UNCHANGED vars
  BY <1>1 DEF vars, TypeOK
<1>2. CASE Steps
  BY <1>2, OuterTypes
<1>3. ASSUME NEW w \in Workers, Works(w)
      PROVE  TypeOK'
  <2>1. WorkersTyped' /\ OrderTyped' /\ OthersTyped'
    BY <1>3, WorkerTypes, OrderTypes, OtherTypes
  <2> QED BY <2>1 DEF TypeOK, WorkersTyped, OrderTyped, OthersTyped
<1> QED BY <1>1, <1>2, <1>3 DEF Next, Works, Steps

\* The initial states have the types.
LEMMA TypeInit == Init => TypeOK
<1> SUFFICES ASSUME Init PROVE TypeOK
  OBVIOUS
<1>1. PICK s \in Seats : stripe = [seats |-> s, pending |-> NoSeats] /\ lic = [seats |-> s, hold |-> "none"]
  BY DEF Init
<1>2. stripe \in SubType /\ lic \in LicType
  BY <1>1 DEF SubType, LicType
<1>3. order \in Seq(Workers) /\ IsInjective(order)
  BY DEF Init, IsInjective
<1>4. workers \in [Workers -> WorkerType]
  BY IdleIs DEF Init
<1>5. /\ flying = {} /\ events = 0 /\ used = 0 /\ lock = Nobody
      /\ requests = 0 /\ edits = 0 /\ faults = 0 /\ edited = "no" /\ crossed = FALSE
  BY DEF Init
<1>6. /\ 0 \in 0 .. MaxEvents /\ 0 \in 0 .. MaxSeats /\ 0 \in 0 .. MaxRequests /\ 0 \in 0 .. MaxEdits
      /\ 0 \in 0 .. MaxFaults
  BY Bounds
<1>7. crossed \in BOOLEAN
  BY <1>5
<1> HIDE DEF Init
<1> QED BY <1>2, <1>3, <1>4, <1>5, <1>6, <1>7 DEF TypeOK

-----------------------------------------------------------------------------
(***************************************************************************)
(* What a worker is doing                                                  *)
(***************************************************************************)

\* A step of one worker leaves the others as they are.
LEMMA OthersShape ==
  ASSUME Shapes, NEW w \in Workers,
         \A x \in Workers \ {w} : workers'[x] = workers[x],
         lock' = lock \/ lock = w \/ lock = Nobody, Held' => Held
  PROVE  \A x \in Workers \ {w} : Shape(x)'
BY Bounds DEF Shapes, Shape, Inside

\* Stripe's answer leaves a worker where it was, or gives it the result.
LEMMA MakesShape ==
  ASSUME TypeOK, Shapes, NEW r \in flying, NEW s, Makes(r, s)
  PROVE  Shapes'
<1> SUFFICES ASSUME NEW w \in Workers PROVE Shape(w)'
  BY DEF Shapes
<1>1. Shape(w)
  BY DEF Shapes
<1>2. workers[w] \in WorkerType
  BY DEF TypeOK
<1>3. lock' = lock /\ lic' = lic
  BY DEF Makes
<1>4. CASE workers'[w] = [Aged(r)[w] EXCEPT !.pc = "result", !.sub = s, !.known = TRUE] /\ w \in Awaiting(r)
  <2>1. /\ workers'[w].pc = "result" /\ workers[w].pc = "wait"
        /\ workers'[w].job = workers[w].job /\ workers'[w].same = workers[w].same
    BY <1>2, <1>4 DEF Aged, Awaiting, WorkerType
  <2> QED BY <1>1, <1>3, <2>1 DEF Shape, Inside, Held
<1>5. CASE \/ workers'[w] = Aged(r)[w]
           \/ workers'[w] = [Aged(r)[w] EXCEPT !.made = @ \/ w \in Awaiting(r)]
  <2>1. /\ workers'[w].pc = workers[w].pc /\ workers'[w].job = workers[w].job
        /\ workers'[w].known = workers[w].known /\ workers'[w].down = workers[w].down
        /\ workers'[w].same = workers[w].same
    BY <1>2, <1>5 DEF Aged, WorkerType
  <2>2. workers'[w].old => workers[w].old \/ workers[w].pc \in {"apply", "result"}
    BY <1>2, <1>5 DEF Aged, WorkerType
  <2>3. workers'[w].made => workers[w].made \/ workers[w].pc = "wait"
    BY <1>2, <1>5 DEF Aged, Awaiting, WorkerType
  <2> QED BY <1>1, <1>3, <2>1, <2>2, <2>3 DEF Shape, Inside, Held
<1> QED BY <1>4, <1>5 DEF Makes

\* Every step of a worker leaves its own work in order.
LEMMA OwnShape ==
  ASSUME TypeOK, Shapes, NEW w \in Workers, Works(w)
  PROVE  Shape(w)'
<1>0. Shape(w) /\ workers[w] \in WorkerType /\ WorkersTyped
  BY DEF TypeOK, Shapes, WorkersTyped
<1>a. ASSUME Done(w) \/ ReadsBack(w) PROVE Shape(w)'
  <2>1. CASE Done(w)
    <3>1. workers'[w] = Idle
      BY <1>0, <2>1 DEF Done, WorkersTyped
    <3> QED BY <3>1 DEF Shape, Inside, Idle
  <2>2. CASE ReadsBack(w)
    <3>1. workers'[w] = [Idle EXCEPT !.pc = "stamp", !.job = "change", !.known = TRUE]
      BY <1>0, <2>2 DEF ReadsBack, WorkersTyped
    <3> QED BY <3>1 DEF Shape, Inside, Idle
  <2> QED BY <1>a, <2>1, <2>2
<1> USE <1>0 DEF WorkersTyped, Shape, Inside, Goto, Unlock, Held
<1>1. CASE StripeReadStamp(w)
  BY <1>1 DEF StripeReadStamp
<1>2. CASE Get(w)
  <2>1. workers[w].pc = "get" /\ UNCHANGED <<lock, lic>>
        /\ workers' = [workers EXCEPT ![w].pc = IF workers[w].job = "change" /\ ~workers[w].known
                                                THEN "result" ELSE "apply",
                                      ![w].sub = stripe]
    BY <1>2 DEF Get
  <2>2. CASE workers[w].job = "change" /\ ~workers[w].known
    <3>1. workers'[w] = [workers[w] EXCEPT !.pc = "result", !.sub = stripe]
      BY <2>1, <2>2
    <3> QED BY <2>1, <2>2, <3>1 DEF WorkerType
  <2>3. CASE ~(workers[w].job = "change" /\ ~workers[w].known)
    <3>1. workers'[w] = [workers[w] EXCEPT !.pc = "apply", !.sub = stripe]
      BY <2>1, <2>3
    <3>2. ~workers[w].down /\ ~workers[w].old /\ ~workers[w].made
      BY <2>1, <2>3
    <3>3. /\ workers'[w].pc = "apply" /\ workers'[w].job = workers[w].job
          /\ ~workers'[w].down /\ ~workers'[w].old
          /\ workers'[w].same = workers[w].same /\ ~workers'[w].made
      BY <3>1, <3>2 DEF WorkerType
    <3> QED BY <2>1, <3>3
  <2> QED BY <2>2, <2>3
<1>3. CASE Apply(w)
  <2>1. CASE Done(w)
    BY <2>1, <1>a
  <2>2. CASE Goto(w, "settle") /\ workers[w].job = "sweep" /\ UNCHANGED lock
    BY <1>3, <2>2 DEF Apply, Applied
  <2> QED BY <1>3, <2>1, <2>2 DEF Apply
<1>4. CASE ChangeLocks(w)
  <2>1. CASE Done(w)
    BY <2>1, <1>a
  <2>2. CASE lock' = w /\ Goto(w, "resolve")
    <3>1. /\ workers[w].pc = "lock" /\ workers[w].job = "change" /\ UNCHANGED lic
          /\ workers'[w] = [workers[w] EXCEPT !.pc = "resolve"]
      BY <1>4, <2>2 DEF ChangeLocks, LockLicenseChange
    <3>2. ~workers[w].old /\ ~workers[w].same /\ ~workers[w].made /\ ~workers[w].down
      BY <3>1
    <3>3. /\ workers'[w].pc = "resolve" /\ workers'[w].job = "change" /\ ~workers'[w].old
          /\ ~workers'[w].same /\ ~workers'[w].made /\ ~workers'[w].down
      BY <3>1, <3>2 DEF WorkerType
    <3> QED BY <2>2, <3>3
  <2> QED BY <1>4, <2>1, <2>2 DEF ChangeLocks, LockLicenseChange
<1>5. CASE Resolve(w)
  <2>1. CASE Done(w)
    BY <2>1, <1>a
  <2>2. CASE /\ workers' = [workers EXCEPT
               ![w].pc = IF workers[w].to = stripe.seats /\ stripe.pending = NoSeats THEN "stamp" ELSE "lower",
               ![w].known = (workers[w].to = stripe.seats /\ stripe.pending = NoSeats),
               ![w].down = (workers[w].to < stripe.seats)]
             /\ UNCHANGED <<lock, lic>>
    <3>1. stripe.seats \in Nat
      BY Bounds DEF TypeOK, SubType
    <3>2. CASE workers[w].to = stripe.seats /\ stripe.pending = NoSeats
      <4>1. /\ workers'[w].pc = "stamp" /\ workers'[w].known /\ ~workers'[w].down
            /\ workers'[w].old = workers[w].old /\ workers'[w].same = workers[w].same
            /\ workers'[w].job = workers[w].job /\ workers'[w].made = workers[w].made
        BY <2>2, <3>1, <3>2 DEF WorkerType
      <4> QED BY <1>5, <2>2, <4>1 DEF Resolve
    <3>3. CASE ~(workers[w].to = stripe.seats /\ stripe.pending = NoSeats)
      <4>1. /\ workers'[w].pc = "lower" /\ ~workers'[w].known /\ workers'[w].job = workers[w].job
            /\ workers'[w].old = workers[w].old /\ workers'[w].same = workers[w].same
            /\ workers'[w].made = workers[w].made
        BY <2>2, <3>3 DEF WorkerType
      <4> QED BY <1>5, <2>2, <4>1 DEF Resolve
    <3> QED BY <3>2, <3>3
  <2> QED BY <1>5, <2>1, <2>2 DEF Resolve
<1>6. CASE LowerLicenseTerms(w)
  <2>1. CASE ReadsBack(w)
    BY <2>1, <1>a
  <2>2. CASE Goto(w, "ask") /\ UNCHANGED <<lic, lock>>
    BY <1>6, <2>2 DEF LowerLicenseTerms
  <2>3. CASE /\ workers' = [x \in Workers |-> IF x = w THEN [workers[w] EXCEPT !.pc = "ask", !.prev = lic.seats]
                                                       ELSE [workers[x] EXCEPT !.same = FALSE]]
             /\ UNCHANGED lock
    <3>1. workers'[w] = [workers[w] EXCEPT !.pc = "ask", !.prev = lic.seats]
      BY <2>3
    <3>2. workers[w].pc = "lower"
      BY <1>6 DEF LowerLicenseTerms
    <3> QED BY <2>3, <3>1, <3>2 DEF WorkerType
  <2> QED BY <1>6, <2>1, <2>2, <2>3 DEF LowerLicenseTerms
<1>7. CASE Ask(w)
  BY <1>7 DEF Ask
<1>8. CASE Replayed(w)
  BY <1>8 DEF Replayed
<1>9. CASE Result(w)
  <2>1. CASE Done(w)
    BY <2>1, <1>a
  <2>2. ASSUME NEW pc \in {"mark", "restore"}, Concludes(w, pc), UNCHANGED lock PROVE Shape(w)'
    <3>1. workers'[w] = [workers[w] EXCEPT !.pc = pc, !.sub = NoSub, !.made = FALSE]
      BY <2>2 DEF Concludes
    <3>2. workers[w].pc = "result"
      BY <1>9 DEF Result
    <3> QED BY <2>2, <3>1, <3>2 DEF WorkerType
  <2> QED BY <1>9, <2>1, <2>2 DEF Result
<1>10. CASE MarkLicenseRead(w)
  BY <1>10 DEF MarkLicenseRead
<1>11. CASE ReleaseLicenseTerms(w)
  BY <1>11, <1>a DEF ReleaseLicenseTerms
<1>12. CASE RestoreLicenseTerms(w)
  BY <1>12, <1>a DEF RestoreLicenseTerms
<1>13. CASE SweepLocks(w)
  <2>1. CASE Done(w)
    BY <2>1, <1>a
  <2>2. CASE Goto(w, "stamp")
    <3>1. /\ workers[w].pc = "lock" /\ workers[w].job = "sweep" /\ UNCHANGED lic
          /\ workers'[w] = [workers[w] EXCEPT !.pc = "stamp"]
      BY <1>13, <2>2 DEF SweepLocks
    <3> QED BY <3>1 DEF WorkerType
  <2> QED BY <1>13, <2>1, <2>2 DEF SweepLocks
<1>14. CASE SettleLapsedHold(w)
  BY <1>14, <1>a DEF SettleLapsedHold
<1>15. CASE TakeEvent(w)
  BY <1>15 DEF TakeEvent, Idle
<1>16. CASE Look(w)
  BY <1>16 DEF Look, Idle
<1>17. CASE Request(w)
  <2>1. PICK to \in Seats :
          workers' = [workers EXCEPT ![w] = [Idle EXCEPT !.pc = "lock", !.job = "change", !.to = to]]
    BY <1>17 DEF Request
  <2>2. workers'[w] = [Idle EXCEPT !.pc = "lock", !.job = "change", !.to = to]
    BY <2>1
  <2> QED BY <2>2 DEF Idle
<1>18. CASE FindLapsedTermHolds(w)
  BY <1>18 DEF FindLapsedTermHolds, Idle
<1>19. CASE DowngradeRefused(w)
  BY <1>19, <1>a DEF DowngradeRefused
<1>20. CASE StripeRefuses(w)
  BY <1>20 DEF StripeRefuses
<1>21. CASE OutcomeUnknown(w)
  BY <1>21 DEF OutcomeUnknown, MarkedRead
<1>22. CASE ReadFails(w)
  BY <1>22, <1>a DEF ReadFails
<1>23. CASE Crash(w)
  BY <1>23, <1>a DEF Crash
<1>24. CASE MarkFails(w)
  BY <1>24 DEF MarkFails
<1>25. CASE TermsWriteFails(w)
  BY <1>25, <1>a DEF TermsWriteFails
<1>26. CASE ApplyFails(w)
  <2>1. workers'[w] = [workers[w] EXCEPT !.pc = "mark", !.sub = NoSub, !.made = FALSE]
    BY <1>26 DEF ApplyFails, Concludes
  <2>2. workers[w].pc = "result" /\ UNCHANGED <<lock, lic>>
    BY <1>26 DEF ApplyFails
  <2> QED BY <2>1, <2>2 DEF WorkerType
<1> QED BY <1>1, <1>2, <1>3, <1>4, <1>5, <1>6, <1>7, <1>8, <1>9, <1>10, <1>11, <1>12, <1>13, <1>14,
           <1>15, <1>16, <1>17, <1>18, <1>19, <1>20, <1>21, <1>22, <1>23,
           <1>24, <1>25, <1>26 DEF Works, Goes

\* The step that lowers the licence.
Lowers(w) ==
  /\ LowerLicenseTerms(w) /\ workers[w].down
  /\ lic' = [seats |-> workers[w].to, hold |-> "held"]
  /\ order' = <<>>
  /\ workers' = [x \in Workers |->
       IF x = w THEN [workers[w] EXCEPT !.pc = "ask", !.prev = lic.seats]
                ELSE [workers[x] EXCEPT !.same = FALSE]]
  /\ UNCHANGED <<stripe, flying, lock, edited, crossed>>

\* No other step of a worker touches the others, or holds the terms.
LEMMA WorksAlone ==
  ASSUME TypeOK, NEW w \in Workers, Works(w)
  PROVE  \/ Lowers(w)
         \/ /\ \A x \in Workers \ {w} : workers'[x] = workers[x]
            /\ Held' => Held
            /\ lock' = lock \/ lock = w \/ lock = Nobody
            /\ UNCHANGED stripe
            /\ edited' = edited /\ (crossed => crossed')
<1> DEFINE Alone == /\ \A x \in Workers \ {w} : workers'[x] = workers[x]
                    /\ Held' => Held
                    /\ lock' = lock \/ lock = w \/ lock = Nobody
                    /\ UNCHANGED stripe
                    /\ edited' = edited /\ (crossed => crossed')
<1>0. WorkersTyped
  BY DEF TypeOK, WorkersTyped
<1> USE <1>0 DEF WorkersTyped, Goto, Done, ReadsBack, Concludes, Unlock, Held, bounds
<1>1. ASSUME StripeReadStamp(w) PROVE Alone
  BY <1>1 DEF StripeReadStamp
<1>2. ASSUME Get(w) PROVE Alone
  BY <1>2 DEF Get
<1>3. ASSUME Apply(w) PROVE Alone
  BY <1>3 DEF Apply, Applied
<1>4. ASSUME ChangeLocks(w) PROVE Alone
  BY <1>4 DEF ChangeLocks, LockLicenseChange
<1>5. ASSUME Resolve(w) PROVE Alone
  BY <1>5 DEF Resolve
<1>6. ASSUME LowerLicenseTerms(w) PROVE Lowers(w) \/ Alone
  BY <1>6 DEF LowerLicenseTerms, Lowers
<1>7. ASSUME Ask(w) PROVE Alone
  BY <1>7 DEF Ask
<1>8. ASSUME Replayed(w) PROVE Alone
  BY <1>8 DEF Replayed
<1>9. ASSUME Result(w) PROVE Alone
  BY <1>9 DEF Result, Applied
<1>10. ASSUME MarkLicenseRead(w) PROVE Alone
  BY <1>10 DEF MarkLicenseRead
<1>11. ASSUME ReleaseLicenseTerms(w) PROVE Alone
  BY <1>11 DEF ReleaseLicenseTerms
<1>12. ASSUME RestoreLicenseTerms(w) PROVE Alone
  BY <1>12 DEF RestoreLicenseTerms
<1>13. ASSUME SweepLocks(w) PROVE Alone
  BY <1>13 DEF SweepLocks
<1>14. ASSUME SettleLapsedHold(w) PROVE Alone
  BY <1>14 DEF SettleLapsedHold
<1>15. ASSUME TakeEvent(w) PROVE Alone
  BY <1>15 DEF TakeEvent
<1>16. ASSUME Look(w) PROVE Alone
  BY <1>16 DEF Look
<1>17. ASSUME Request(w) PROVE Alone
  BY <1>17 DEF Request
<1>18. ASSUME FindLapsedTermHolds(w) PROVE Alone
  BY <1>18 DEF FindLapsedTermHolds
<1>19. ASSUME DowngradeRefused(w) PROVE Alone
  BY <1>19 DEF DowngradeRefused
<1>20. ASSUME StripeRefuses(w) PROVE Alone
  BY <1>20 DEF StripeRefuses
<1>21. ASSUME OutcomeUnknown(w) PROVE Alone
  BY <1>21 DEF OutcomeUnknown
<1>22. ASSUME ReadFails(w) PROVE Alone
  BY <1>22 DEF ReadFails
<1>23. ASSUME Crash(w) PROVE Alone
  BY <1>23 DEF Crash
<1>24. ASSUME MarkFails(w) PROVE Alone
  BY <1>24 DEF MarkFails
<1>25. ASSUME TermsWriteFails(w) PROVE Alone
  BY <1>25 DEF TermsWriteFails
<1>26. ASSUME ApplyFails(w) PROVE Alone
  BY <1>26 DEF ApplyFails
<1> QED BY <1>1, <1>2, <1>3, <1>4, <1>5, <1>6, <1>7, <1>8, <1>9, <1>10, <1>11, <1>12,
           <1>13, <1>14, <1>15, <1>16, <1>17, <1>18, <1>19, <1>20, <1>21, <1>22, <1>23,
           <1>24, <1>25, <1>26 DEF Works, Goes

\* Every step leaves every worker's work in order.
LEMMA ShapesNext ==
  ASSUME TypeOK, Shapes, [Next]_vars
  PROVE  Shapes'
<1>1. CASE UNCHANGED vars
  BY <1>1 DEF vars, Shapes, Shape, Inside, Held
<1>2. ASSUME StripeMakes PROVE Shapes'
  <2>1. PICK r \in flying : \E s \in Outcomes(r) : Makes(r, s)
    BY <1>2 DEF StripeMakes, Makes
  <2> QED BY <2>1, MakesShape
<1>3. CASE StripeNeverSees \/ PendingEnds \/ DashboardEdit \/ TakeSeat \/ FreeSeat \/ HoldLapses
  <2>1. UNCHANGED <<workers, lock>> /\ (Held' => Held)
    BY <1>3 DEF StripeNeverSees, PendingEnds, DashboardEdit, TakeSeat, FreeSeat, HoldLapses, Held
  <2> QED BY <2>1 DEF Shapes, Shape, Inside
<1>4. ASSUME NEW w \in Workers, Works(w) PROVE Shapes'
  <2>1. Shape(w)'
    BY <1>4, OwnShape
  <2>2. CASE Lowers(w)
    <3> SUFFICES ASSUME NEW x \in Workers \ {w} PROVE Shape(x)'
      BY <2>1 DEF Shapes
    <3>1. Shape(x) /\ workers[x] \in WorkerType
      BY DEF TypeOK, Shapes
    <3>2. workers'[x] = [workers[x] EXCEPT !.same = FALSE] /\ lock' = lock
      BY <2>2 DEF Lowers
    <3> QED BY <3>1, <3>2 DEF Shape, Inside, WorkerType
  <2>3. CASE ~Lowers(w)
    <3>1. \A x \in Workers \ {w} : Shape(x)'
      BY <1>4, <2>3, WorksAlone, OthersShape
    <3> QED BY <2>1, <3>1 DEF Shapes
  <2> QED BY <2>2, <2>3
<1> QED BY <1>1, <1>2, <1>3, <1>4 DEF Next, Works

\* A change that waits for its payment is to more seats than are billed.
LEMMA PendingNext ==
  ASSUME TypeOK, PendingIsMore, [Next]_vars
  PROVE  PendingIsMore'
<1>0. stripe.seats \in Nat
  BY Bounds DEF TypeOK, SubType
<1>1. CASE UNCHANGED stripe
  BY <1>1 DEF PendingIsMore
<1>2. ASSUME StripeMakes PROVE PendingIsMore'
  <2>1. PICK r \in flying : \E s \in Outcomes(r) : Makes(r, s)
    BY <1>2 DEF StripeMakes, Makes
  <2>2. PICK s \in Outcomes(r) : Makes(r, s)
    BY <2>1
  <2>3. stripe' = s
    BY <2>2, Zenon DEF Makes, StripeHas
  <2>4. r.to \in Nat
    BY Bounds DEF TypeOK
  <2>5. s = [seats |-> r.to, pending |-> NoSeats] \/ (stripe.seats < r.to /\ s = [stripe EXCEPT !.pending = r.to])
    BY <1>0, <2>4 DEF Outcomes
  <2> QED BY <2>3, <2>5 DEF PendingIsMore, TypeOK, SubType
<1>3. ASSUME PendingEnds \/ DashboardEdit PROVE PendingIsMore'
  BY <1>3 DEF PendingEnds, DashboardEdit, StripeHas, PendingIsMore
<1>4. ASSUME StripeNeverSees \/ TakeSeat \/ FreeSeat \/ HoldLapses PROVE UNCHANGED stripe
  BY <1>4 DEF StripeNeverSees, TakeSeat, FreeSeat, HoldLapses
<1>5. ASSUME NEW w \in Workers, Works(w) PROVE UNCHANGED stripe
  BY <1>5, WorksAlone DEF Lowers
<1> QED BY <1>1, <1>2, <1>3, <1>4, <1>5 DEF Next, Works, vars

-----------------------------------------------------------------------------
(***************************************************************************)
(* Steps that leave the terms alone                                        *)
(***************************************************************************)

\* The numbers that are compared.
LEMMA Numbers ==
  ASSUME TypeOK
  PROVE  /\ lic.seats \in Nat /\ stripe.seats \in Nat /\ lic \in LicType /\ stripe \in SubType
         /\ \A x \in Workers : /\ workers[x] \in WorkerType /\ workers[x].sub.seats \in Nat
                               /\ workers[x].to \in Nat /\ workers[x].prev \in Nat
BY Bounds DEF TypeOK, LicType, SubType, WorkerType

\* Only one worker has the lock, and only a worker with the lock lowers.
LEMMA OneInside ==
  ASSUME Shapes, NEW w \in Workers, Inside(w), NEW x \in Workers, x # w
  PROVE  ~Inside(x) /\ ~workers[x].down
BY DEF Shapes, Shape

\* A worker that is not down has nothing to show for it.
LEMMA NotLowering ==
  ASSUME NEW w \in Workers
  PROVE  ~workers[w].down => Lowering(w)
BY DEF Lowering

\* A step of one worker that leaves the terms as they are.
LEMMA AloneSettled ==
  ASSUME TypeOK, Shapes, Settled, NEW w \in Workers,
         UNCHANGED stripe,
         lic' = lic \/ (~Held /\ ~Held' /\ lic'.seats = lic.seats),
         \A x \in Workers \ {w} : workers'[x] = workers[x],
         Owed', flying' \subseteq flying \/ Inside(w),
         Kept(order', w),
         workers'[w].old => workers[w].old /\ Shrunk(order'),
         Reading(w)' => ~workers'[w].old,
         ReadHolds(w)', EndsForAll(w)', Lowering(w)'
  PROVE  Settled'
<1>1. Paid' /\ MadeForGood'
  BY DEF Settled, Paid, MadeForGood, Held
<1>2. ASSUME NEW x \in Workers, x # w PROVE ReadHolds(x)' /\ EndsForAll(x)' /\ Lowering(x)'
  <2>1. workers'[x] = workers[x] /\ (Reading(x)' <=> Reading(x))
    BY <1>2 DEF Reading
  <2>2. Current(x)' => Current(x)
    BY <1>2 DEF Current, Kept
  <2>3. ReadHolds(x) /\ EndsForAll(x) /\ Lowering(x)
    BY DEF Settled
  <2>4. ReadHolds(x)'
    BY <2>1, <2>2, <2>3 DEF ReadHolds, Held
  <2>5. EndsForAll(x)'
    <3> SUFFICES ASSUME Reading(x)', Current(x)', Held', workers'[x].sub.seats = lic'.seats,
                        NEW y \in Workers, Later(order', x, y)
                 PROVE  ~workers'[y].old
      BY DEF EndsForAll
    <3>1. \A z \in Workers : Later(order, x, z) => ~workers[z].old
      BY <2>1, <2>2, <2>3 DEF EndsForAll, Held
    <3>2. CASE y = w
      BY <3>1, <3>2 DEF Shrunk
    <3>3. CASE y # w
      BY <3>1, <3>3 DEF Kept
    <3> QED BY <3>2, <3>3
  <2>6. Lowering(x)'
    <3> SUFFICES ASSUME workers[x].down PROVE Lowering(x)'
      BY <2>1 DEF Lowering
    <3>1. flying' \subseteq flying /\ Inside(x)
      BY <1>2, OneInside DEF Shapes, Shape
    <3>2. Asking(x)' = Asking(x)
      BY <2>1 DEF Asking
    <3>3. /\ workers[x].pc = "ask" \/ (workers[x].pc = "wait" /\ Asking(x) \in flying) => Held /\ lic' = lic
          /\ workers[x].pc \in {"ask", "wait"} => ~Current(x)'
      BY <2>2, <2>3 DEF Lowering, Held
    <3>4. workers[x].pc = "release" => \A y \in Workers : Reading(y)' /\ Current(y)' => ~workers'[y].old
      <4> SUFFICES ASSUME workers[x].pc = "release", NEW y \in Workers, Reading(y)', Current(y)'
                   PROVE  ~workers'[y].old
        OBVIOUS
      <4>1. CASE y = w
        BY <4>1
      <4>2. CASE y # w
        <5>1. workers'[y] = workers[y] /\ Reading(y) /\ Current(y)
          BY <4>2 DEF Reading, Current, Kept
        <5> QED BY <5>1, <2>3 DEF Lowering
      <4> QED BY <4>1, <4>2
    <3> QED BY <2>1, <2>3, <3>1, <3>2, <3>3, <3>4 DEF Lowering
  <2> QED BY <2>4, <2>5, <2>6
<1> QED BY <1>1, <1>2 DEF Settled

\* Nothing is owed that was not, when less is under way.
LEMMA OwedStays ==
  ASSUME Owed, UNCHANGED stripe, flying' \subseteq flying,
         lic' = lic \/ (~Held /\ ~Held' /\ lic'.seats = lic.seats)
  PROVE  Owed'
BY DEF Owed, Held

\* A step of one worker after which it has read nothing, nor lowers anything.
LEMMA RestSettled ==
  ASSUME TypeOK, Shapes, Settled, NEW w \in Workers,
         UNCHANGED stripe,
         lic' = lic \/ (~Held /\ ~Held' /\ lic'.seats = lic.seats),
         \A x \in Workers \ {w} : workers'[x] = workers[x],
         flying' \subseteq flying,
         Kept(order', w),
         workers'[w].old => workers[w].old /\ Shrunk(order'),
         ~Reading(w)', ~workers'[w].down
  PROVE  Settled'
<1>1. ReadHolds(w)' /\ EndsForAll(w)' /\ Lowering(w)'
  BY DEF ReadHolds, EndsForAll, Lowering
<1>2. Owed'
  BY OwedStays DEF Settled
<1> QED BY <1>1, <1>2, AloneSettled

\* What is shrunk is kept.
LEMMA ShrunkIsKept == \A s, w : Shrunk(s) => Kept(s, w)
BY DEF Shrunk, Kept

\* What only starts, ends or waits.
LEMMA QuietSettled ==
  ASSUME TypeOK, Shapes, Settled, NEW w \in Workers,
         \/ ChangeLocks(w) \/ SweepLocks(w) \/ TakeEvent(w) \/ Look(w) \/ Request(w)
         \/ FindLapsedTermHolds(w) \/ DowngradeRefused(w) \/ ReadFails(w) \/ Crash(w)
  PROVE  Settled'
<1>0. /\ WorkersTyped /\ workers[w] \in WorkerType /\ Shape(w)
      /\ Shrunk(order) /\ Shrunk(Without(w)) /\ Kept(order, w) /\ Kept(Without(w), w)
  BY NoStamps, WithoutIs, ShrunkIsKept DEF TypeOK, WorkersTyped, Shapes
<1>1. ASSUME ~Reading(w)', ~workers'[w].down, ~workers'[w].old, UNCHANGED <<stripe, lic, flying>>,
             order' = order \/ order' = Without(w), \A x \in Workers \ {w} : workers'[x] = workers[x]
      PROVE  Settled'
  BY <1>0, <1>1, RestSettled
<1>2. ASSUME Done(w) PROVE /\ ~Reading(w)' /\ ~workers'[w].down /\ ~workers'[w].old
                           /\ \A x \in Workers \ {w} : workers'[x] = workers[x]
  BY <1>0, <1>2 DEF Done, Idle, Reading, WorkersTyped
<1>3. ASSUME NEW pc \in {"resolve", "stamp"}, Goto(w, pc), workers[w].pc = "lock"
      PROVE  /\ ~Reading(w)' /\ ~workers'[w].down /\ ~workers'[w].old
             /\ \A x \in Workers \ {w} : workers'[x] = workers[x]
  <2>1. ~workers[w].down /\ ~workers[w].old
    BY <1>0, <1>3 DEF Shape, Inside
  <2>2. workers'[w] = [workers[w] EXCEPT !.pc = pc] /\ \A x \in Workers \ {w} : workers'[x] = workers[x]
    BY <1>0, <1>3 DEF Goto, WorkersTyped
  <2> QED BY <1>0, <2>1, <2>2 DEF Reading, WorkerType
<1>4. ASSUME TakeEvent(w) \/ Look(w) \/ Request(w) \/ FindLapsedTermHolds(w) PROVE Settled'
  <2>1. /\ ~Reading(w)' /\ ~workers'[w].down /\ ~workers'[w].old
        /\ \A x \in Workers \ {w} : workers'[x] = workers[x]
    BY <1>0, <1>4 DEF TakeEvent, Look, Request, FindLapsedTermHolds, Idle, Reading, WorkersTyped
  <2>2. UNCHANGED <<stripe, lic, flying, order>>
    BY <1>4 DEF TakeEvent, Look, Request, FindLapsedTermHolds
  <2> QED BY <1>1, <2>1, <2>2
<1>5. ASSUME DowngradeRefused(w) \/ ReadFails(w) \/ Crash(w) PROVE Settled'
  <2>1. Done(w) /\ UNCHANGED <<stripe, lic, flying>> /\ (order' = order \/ order' = Without(w))
    BY <1>5 DEF DowngradeRefused, ReadFails, Crash
  <2> QED BY <1>1, <1>2, <2>1
<1>6. ASSUME ChangeLocks(w) \/ SweepLocks(w) PROVE Settled'
  <2>1. /\ workers[w].pc = "lock" /\ UNCHANGED <<stripe, lic, flying, order>>
        /\ Done(w) \/ Goto(w, "resolve") \/ Goto(w, "stamp")
    BY <1>6 DEF ChangeLocks, LockLicenseChange, SweepLocks
  <2> QED BY <1>1, <1>2, <1>3, <2>1
<1> QED BY <1>4, <1>5, <1>6

\* A stamp taken.
LEMMA StampSettled ==
  ASSUME TypeOK, Shapes, Settled, NEW w \in Workers, StripeReadStamp(w)
  PROVE  Settled'
<1>1. /\ workers[w] \in WorkerType /\ Shape(w) /\ Lowering(w) /\ workers[w].pc = "stamp"
      /\ workers'[w] = [workers[w] EXCEPT !.pc = "get"]
      /\ \A x \in Workers \ {w} : workers'[x] = workers[x]
      /\ order' = Stamped(w) /\ UNCHANGED <<stripe, lic, flying>>
  BY DEF TypeOK, Shapes, Settled, StripeReadStamp, Goto
<1>2. /\ workers'[w].pc = "get" /\ ~workers'[w].old /\ workers'[w].down = workers[w].down
      /\ workers'[w].made = workers[w].made /\ workers'[w].to = workers[w].to
  BY <1>1 DEF Shape, WorkerType
<1>3. ReadHolds(w)' /\ EndsForAll(w)' /\ ~Reading(w)'
  BY <1>2 DEF ReadHolds, EndsForAll, Reading
<1>4. Lowering(w)'
  BY <1>1, <1>2 DEF Lowering
<1>5. Kept(order', w) /\ Owed'
  BY <1>1, StampedIs, OwedStays DEF Settled
<1> QED BY <1>1, <1>2, <1>3, <1>4, <1>5, AloneSettled

\* A read taken.
LEMMA GetSettled ==
  ASSUME TypeOK, Shapes, Settled, NEW w \in Workers, Get(w), ~crossed'
  PROVE  Settled'
<1>1. /\ workers[w] \in WorkerType /\ Shape(w) /\ Lowering(w) /\ workers[w].pc = "get"
      /\ \A x \in Workers \ {w} : workers'[x] = workers[x]
      /\ UNCHANGED <<stripe, lic, flying, order>>
  BY DEF TypeOK, Shapes, Settled, Get
<1>2. /\ workers'[w].pc = (IF workers[w].job = "change" /\ ~workers[w].known THEN "result" ELSE "apply")
      /\ workers'[w].sub = stripe /\ ~workers'[w].old /\ workers'[w].down = workers[w].down
      /\ workers'[w].made = workers[w].made /\ workers'[w].to = workers[w].to
      /\ workers'[w].known = workers[w].known
  <2>1. workers'[w] = [workers[w] EXCEPT !.pc = IF workers[w].job = "change" /\ ~workers[w].known
                                                THEN "result" ELSE "apply",
                                         !.sub = stripe]
    BY DEF TypeOK, Get
  <2> QED BY <1>1, <2>1 DEF Shape, WorkerType
<1>3. ReadHolds(w)'
  BY <1>1, <1>2, Numbers DEF ReadHolds, Held
<1>4. EndsForAll(w)'
  <2> SUFFICES ASSUME Current(w)', NEW x \in Workers, Later(order', w, x) PROVE ~workers'[x].old
    BY DEF EndsForAll
  <2>1. Current(w) /\ x \in ToSet(Newer(w))
    BY <1>1, NewerIs DEF Current
  <2>2. ~workers[x].old
    BY <2>1 DEF Get
  <2> QED BY <1>1, <1>2, <2>2
<1>5. Lowering(w)'
  BY <1>1, <1>2 DEF Lowering, Shape, Asking
<1>6. Kept(order', w) /\ Owed'
  BY <1>1, NoStamps, ShrunkIsKept, OwedStays DEF Settled
<1> QED BY <1>1, <1>2, <1>3, <1>4, <1>5, <1>6, AloneSettled

\* A change judged under the lock.
LEMMA ResolveSettled ==
  ASSUME TypeOK, Shapes, Settled, NEW w \in Workers, Resolve(w)
  PROVE  Settled'
<1>1. /\ workers[w] \in WorkerType /\ Shape(w) /\ workers[w].pc = "resolve"
      /\ \A x \in Workers \ {w} : workers'[x] = workers[x]
      /\ UNCHANGED <<stripe, lic, flying, order>>
  BY DEF TypeOK, Shapes, Resolve, Done
<1>2. Kept(order', w) /\ Shrunk(order') /\ Owed'
  BY <1>1, NoStamps, ShrunkIsKept, OwedStays DEF Settled
<1>3. CASE workers'[w] = Idle
  BY <1>1, <1>2, <1>3, RestSettled DEF Idle, Reading
<1>4. CASE workers'[w] = [workers[w] EXCEPT
               !.pc = IF workers[w].to = stripe.seats /\ stripe.pending = NoSeats THEN "stamp" ELSE "lower",
               !.known = (workers[w].to = stripe.seats /\ stripe.pending = NoSeats),
               !.down = (workers[w].to < stripe.seats)]
  <2>1. /\ workers'[w].pc \in {"stamp", "lower"} /\ ~workers'[w].old /\ ~workers'[w].made
        /\ workers'[w].to = workers[w].to /\ (workers'[w].down => workers[w].to < stripe.seats)
    BY <1>1, <1>4 DEF Shape, WorkerType
  <2>2. ReadHolds(w)' /\ EndsForAll(w)' /\ ~Reading(w)'
    BY <2>1 DEF ReadHolds, EndsForAll, Reading
  <2>3. Lowering(w)'
    BY <1>1, <2>1 DEF Lowering
  <2> QED BY <1>1, <1>2, <2>1, <2>2, <2>3, AloneSettled
<1>5. workers'[w] = Idle \/ workers'[w] = [workers[w] EXCEPT
               !.pc = IF workers[w].to = stripe.seats /\ stripe.pending = NoSeats THEN "stamp" ELSE "lower",
               !.known = (workers[w].to = stripe.seats /\ stripe.pending = NoSeats),
               !.down = (workers[w].to < stripe.seats)]
  BY DEF TypeOK, Resolve, Done
<1> QED BY <1>3, <1>4, <1>5

-----------------------------------------------------------------------------
(***************************************************************************)
(* Asking Stripe                                                           *)
(***************************************************************************)

\* A change asked: a downgrade of the terms held is of more than them.
LEMMA AskSettled ==
  ASSUME TypeOK, Shapes, Settled, NEW w \in Workers, Ask(w)
  PROVE  Settled'
<1>1. /\ workers[w] \in WorkerType /\ Shape(w) /\ Lowering(w) /\ workers[w].pc = "ask"
      /\ workers'[w] = [workers[w] EXCEPT !.pc = "wait"]
      /\ \A x \in Workers \ {w} : workers'[x] = workers[x]
      /\ flying' = flying \cup {Asking(w)} /\ UNCHANGED <<stripe, lic, order>>
  BY DEF TypeOK, Shapes, Settled, Ask, Goto
<1>2. /\ workers'[w].pc = "wait" /\ ~workers'[w].old /\ ~workers'[w].made
      /\ workers'[w].down = workers[w].down /\ workers'[w].to = workers[w].to
      /\ workers'[w].prev = workers[w].prev
  BY <1>1 DEF Shape, WorkerType
<1>3. ReadHolds(w)' /\ EndsForAll(w)' /\ ~Reading(w)'
  BY <1>2 DEF ReadHolds, EndsForAll, Reading
<1>4. Lowering(w)'
  BY <1>1, <1>2 DEF Lowering, Current
<1>5. Owed'
  BY <1>1 DEF Owed, Settled, Asking, Lowering, Held
<1>6. Kept(order', w) /\ Inside(w)
  BY <1>1, NoStamps, ShrunkIsKept DEF Inside
<1> QED BY <1>1, <1>2, <1>3, <1>4, <1>5, <1>6, AloneSettled

\* A change refused: what it replaced is billed still.
LEMMA RefusesSettled ==
  ASSUME TypeOK, Shapes, Settled, NEW w \in Workers, StripeRefuses(w)
  PROVE  Settled'
<1>1. /\ workers[w] \in WorkerType /\ Shape(w) /\ Lowering(w) /\ workers[w].pc = "wait"
      /\ Asking(w) \in flying
      /\ workers'[w] = [workers[w] EXCEPT !.pc = "restore"]
      /\ \A x \in Workers \ {w} : workers'[x] = workers[x]
      /\ flying' \subseteq flying /\ UNCHANGED <<stripe, lic, order>>
  BY DEF TypeOK, Shapes, Settled, StripeRefuses, Goto
<1>2. /\ workers'[w].pc = "restore" /\ ~workers'[w].old /\ workers'[w].made = workers[w].made
      /\ workers'[w].down = workers[w].down /\ workers'[w].prev = workers[w].prev
  BY <1>1 DEF Shape, WorkerType
<1>3. ReadHolds(w)' /\ EndsForAll(w)' /\ ~Reading(w)'
  BY <1>2 DEF ReadHolds, EndsForAll, Reading
<1>4. Lowering(w)'
  BY <1>1, <1>2 DEF Lowering
<1>5. Kept(order', w) /\ Owed'
  BY <1>1, NoStamps, ShrunkIsKept, OwedStays DEF Settled
<1> QED BY <1>1, <1>2, <1>3, <1>4, <1>5, AloneSettled

\* No answer, or an old one: the subscription is to be read.
LEMMA AgainSettled ==
  ASSUME TypeOK, Shapes, Settled, NEW w \in Workers, Replayed(w) \/ OutcomeUnknown(w)
  PROVE  Settled'
<1>1. /\ workers[w] \in WorkerType /\ Shape(w) /\ Lowering(w) /\ workers[w].pc = "wait"
      /\ workers'[w] = [workers[w] EXCEPT !.pc = "stamp"]
      /\ \A x \in Workers \ {w} : workers'[x] = workers[x]
      /\ (order' = order \/ order' = <<>>) /\ UNCHANGED <<stripe, lic, flying>>
  BY DEF TypeOK, Shapes, Settled, Replayed, OutcomeUnknown, MarkedRead, Goto
<1>2. /\ workers'[w].pc = "stamp" /\ ~workers'[w].old /\ workers'[w].made = workers[w].made
      /\ workers'[w].down = workers[w].down /\ workers'[w].to = workers[w].to
  BY <1>1 DEF Shape, WorkerType
<1>3. ReadHolds(w)' /\ EndsForAll(w)' /\ ~Reading(w)'
  BY <1>2 DEF ReadHolds, EndsForAll, Reading
<1>4. Lowering(w)'
  BY <1>1, <1>2 DEF Lowering
<1>5. Kept(order', w) /\ Owed'
  BY <1>1, NoStamps, ShrunkIsKept, OwedStays DEF Settled
<1> QED BY <1>1, <1>2, <1>3, <1>4, <1>5, AloneSettled

-----------------------------------------------------------------------------
(***************************************************************************)
(* Reads applied                                                           *)
(***************************************************************************)

\* A read that replaces the terms: it shows no more than is billed, and no
\* read that does is left to be applied after it.
LEMMA AppliedSettled ==
  ASSUME TypeOK, Shapes, Settled, NEW w \in Workers, Reading(w), Current(w),
         ~KeepsTerms(workers[w].sub),
         lic' = [seats |-> workers[w].sub.seats, hold |-> "none"],
         order' = Newer(w),
         UNCHANGED <<stripe, flying>>,
         \A x \in Workers \ {w} : workers'[x] = workers[x],
         ~Reading(w)', Lowering(w)'
  PROVE  Settled'
<1>1. ReadHolds(w) /\ EndsForAll(w)
  BY DEF Settled
<1>2. ~workers[w].old
  BY <1>1, Numbers DEF ReadHolds, KeepsTerms
<1>3. workers[w].sub.seats <= stripe.seats
  BY <1>1, <1>2 DEF ReadHolds
<1>4. ~Held' /\ lic'.seats = workers[w].sub.seats
  BY DEF Held
<1>5. Paid' /\ MadeForGood' /\ Owed'
  BY <1>3, <1>4 DEF Paid, MadeForGood, Owed
<1>6. \A x \in Workers : Current(x)' => Current(x) /\ Later(order, w, x)
  BY NewerIs DEF Current, Shrunk
<1>7. ASSUME NEW x \in Workers, x # w, Reading(x), Current(x)' PROVE ~workers[x].old
  <2>1. CASE Held
    BY <1>1, <1>6, <1>7, <2>1, Numbers DEF EndsForAll, KeepsTerms
  <2>2. CASE ~Held
    BY <1>6, <1>7, <2>2 DEF Settled, ReadHolds
  <2> QED BY <2>1, <2>2
<1>8. ASSUME NEW x \in Workers, x # w PROVE ReadHolds(x)' /\ EndsForAll(x)' /\ Lowering(x)'
  <2>1. workers'[x] = workers[x] /\ (Reading(x)' <=> Reading(x)) /\ (Current(x)' => Current(x))
    BY <1>6, <1>8 DEF Reading
  <2>2. ReadHolds(x) /\ Lowering(x)
    BY DEF Settled
  <2>3. ReadHolds(x)' /\ EndsForAll(x)'
    BY <1>4, <1>7, <1>8, <2>1, <2>2 DEF ReadHolds, EndsForAll
  <2>4. Lowering(x)'
    <3> SUFFICES ASSUME workers[x].down PROVE Lowering(x)'
      BY <2>1 DEF Lowering
    <3>1. Asking(x)' = Asking(x)
      BY <2>1 DEF Asking
    <3>2. ~(workers[x].pc = "ask" \/ (workers[x].pc = "wait" /\ Asking(x) \in flying))
      <4> SUFFICES ASSUME workers[x].pc = "ask" \/ (workers[x].pc = "wait" /\ Asking(x) \in flying)
                   PROVE  FALSE
        OBVIOUS
      <4>1. Held /\ lic.seats = workers[x].to /\ workers[x].to < stripe.seats
        BY <2>2 DEF Lowering, Held
      <4>2. lic.seats < workers[w].sub.seats
        BY <1>1, <4>1 DEF ReadHolds
      <4> QED BY <4>1, <4>2, Numbers DEF KeepsTerms
    <3>3. workers[x].pc = "release" => \A y \in Workers : Reading(y)' /\ Current(y)' => ~workers'[y].old
      <4> SUFFICES ASSUME NEW y \in Workers, Reading(y)', Current(y)' PROVE ~workers'[y].old
        OBVIOUS
      <4>1. y # w
        OBVIOUS
      <4>2. Reading(y) /\ workers'[y] = workers[y]
        BY <4>1 DEF Reading
      <4> QED BY <1>7, <4>1, <4>2
    <3> QED BY <2>1, <2>2, <3>1, <3>2, <3>3 DEF Lowering
  <2> QED BY <2>3, <2>4
<1>9. ReadHolds(w)' /\ EndsForAll(w)'
  BY DEF ReadHolds, EndsForAll
<1> QED BY <1>5, <1>8, <1>9 DEF Settled

\* A read applied, by a worker that has nothing to conclude.
LEMMA ApplySettled ==
  ASSUME TypeOK, Shapes, Settled, NEW w \in Workers, Apply(w)
  PROVE  Settled'
<1>1. /\ workers[w] \in WorkerType /\ Shape(w) /\ workers[w].pc = "apply" /\ Applied(w, workers[w].sub)
      /\ UNCHANGED <<stripe, flying>>
  BY DEF TypeOK, Shapes, Apply
<1>2. ~workers[w].down
  BY <1>1 DEF Shape, Inside
<1>3. Done(w) \/ Goto(w, "settle")
  BY DEF Apply
<1>4. /\ \A x \in Workers \ {w} : workers'[x] = workers[x]
      /\ ~Reading(w)' /\ ~workers'[w].down /\ (workers'[w].old => workers[w].old)
  BY <1>1, <1>2, <1>3 DEF TypeOK, Done, Goto, Idle, Reading, WorkerType
<1>5. Lowering(w)'
  BY <1>4 DEF Lowering
<1>6. CASE ~Current(w)
  <2>1. UNCHANGED <<lic, order>>
    BY <1>1, <1>6 DEF Applied
  <2>2. Kept(order', w) /\ Shrunk(order')
    BY <2>1, NoStamps, ShrunkIsKept
  <2> QED BY <1>1, <1>4, <2>1, <2>2, RestSettled
<1>7. CASE Current(w) /\ KeepsTerms(workers[w].sub)
  <2>1. lic' = lic /\ order' = Newer(w)
    BY <1>1, <1>7 DEF Applied
  <2>2. Kept(order', w) /\ Shrunk(order')
    BY <1>7, <2>1, NewerIs, ShrunkIsKept
  <2> QED BY <1>1, <1>4, <2>1, <2>2, RestSettled
<1>8. CASE Current(w) /\ ~KeepsTerms(workers[w].sub)
  <2>1. lic' = [seats |-> workers[w].sub.seats, hold |-> "none"] /\ order' = Newer(w)
    BY <1>1, <1>8 DEF Applied
  <2>2. Reading(w)
    BY <1>1 DEF Reading
  <2> QED BY <1>1, <1>4, <1>5, <1>8, <2>1, <2>2, AppliedSettled
<1> QED BY <1>6, <1>7, <1>8

\* The answer applied: a downgrade that was made is shown.
LEMMA ResultSettled ==
  ASSUME TypeOK, Shapes, Settled, NEW w \in Workers, Result(w)
  PROVE  Settled'
<1> DEFINE k == workers[w]
           sure == k.known \/ k.made
           shows == ShowsChange(w, k.sub)
<1>1. /\ k \in WorkerType /\ Shape(w) /\ Lowering(w) /\ k.pc = "result" /\ UNCHANGED <<stripe, flying>>
      /\ IF shows \/ ~sure THEN Applied(w, k.sub) ELSE UNCHANGED <<lic, order>>
      /\ \/ shows /\ Concludes(w, "mark")
         \/ ~shows /\ sure /\ Concludes(w, "restore")
         \/ Done(w)
  BY DEF TypeOK, Shapes, Settled, Result
<1>2. k.down /\ sure => shows
  BY <1>1 DEF Lowering, ShowsChange, NoSeats
<1>3. /\ \A x \in Workers \ {w} : workers'[x] = workers[x]
      /\ workers'[w].pc \in {"mark", "restore", "idle"}
      /\ ~workers'[w].made /\ (workers'[w].old => k.old)
      /\ workers'[w].down => k.down /\ (workers'[w].pc = "restore" => ~shows /\ sure)
  BY <1>1 DEF TypeOK, Concludes, Done, Idle, WorkerType
<1>4. ~Reading(w)' /\ ReadHolds(w)' /\ EndsForAll(w)'
  BY <1>3 DEF Reading, ReadHolds, EndsForAll
<1>5. Lowering(w)'
  BY <1>2, <1>3 DEF Lowering
<1> HIDE DEF shows, sure, k
<1>6. \/ UNCHANGED <<lic, order>>
      \/ Current(w) /\ KeepsTerms(k.sub) /\ lic' = lic /\ order' = Newer(w)
      \/ Current(w) /\ ~KeepsTerms(k.sub) /\ lic' = [seats |-> k.sub.seats, hold |-> "none"] /\ order' = Newer(w)
  BY <1>1 DEF Applied
<1>7. CASE UNCHANGED <<lic, order>>
  <2>1. Kept(order', w) /\ Shrunk(order') /\ Owed'
    BY <1>1, <1>7, NoStamps, ShrunkIsKept, OwedStays DEF Settled
  <2> QED BY <1>1, <1>3, <1>4, <1>5, <1>7, <2>1, AloneSettled DEF k
<1>8. CASE Current(w) /\ lic' = lic /\ order' = Newer(w)
  <2>1. Kept(order', w) /\ Shrunk(order') /\ Owed'
    BY <1>1, <1>8, NewerIs, ShrunkIsKept, OwedStays DEF Settled
  <2> QED BY <1>1, <1>3, <1>4, <1>5, <1>8, <2>1, AloneSettled DEF k
<1>9. CASE Current(w) /\ ~KeepsTerms(k.sub) /\ lic' = [seats |-> k.sub.seats, hold |-> "none"] /\ order' = Newer(w)
  <2>1. Reading(w)
    BY <1>1 DEF Reading, k
  <2> QED BY <1>1, <1>3, <1>4, <1>5, <1>9, <2>1, AppliedSettled DEF k
<1> QED BY <1>6, <1>7, <1>8, <1>9

-----------------------------------------------------------------------------
(***************************************************************************)
(* A downgrade lowered, concluded or put back                              *)
(***************************************************************************)

\* The licence lowered: every stamp is used up, and what is billed is more.
LEMMA LowersSettled ==
  ASSUME TypeOK, Shapes, Settled, NEW w \in Workers, Lowers(w)
  PROVE  Settled'
<1>1. /\ workers[w] \in WorkerType /\ Shape(w) /\ Lowering(w) /\ workers[w].pc = "lower" /\ workers[w].down
      /\ lic' = [seats |-> workers[w].to, hold |-> "held"] /\ order' = <<>>
      /\ workers'[w] = [workers[w] EXCEPT !.pc = "ask", !.prev = lic.seats]
      /\ UNCHANGED <<stripe, flying>>
  BY DEF TypeOK, Shapes, Settled, Lowers, LowerLicenseTerms
<1>2. workers[w].to < stripe.seats /\ lic.seats <= stripe.seats
  BY <1>1 DEF Lowering, Settled, Paid
<1>3. Paid' /\ MadeForGood' /\ Owed'
  BY <1>1, <1>2, Numbers DEF Paid, MadeForGood, Owed
<1>4. \A x \in Workers : ~Current(x)'
  BY <1>1 DEF Current, ToSet
<1>5. \A x \in Workers : ReadHolds(x)' /\ EndsForAll(x)'
  BY <1>4 DEF ReadHolds, EndsForAll
<1>6. \A x \in Workers \ {w} : Lowering(x)'
  <2> TAKE x \in Workers \ {w}
  <2>1. ~workers[x].down
    BY <1>1, OneInside DEF Inside
  <2>2. workers'[x] = [workers[x] EXCEPT !.same = FALSE]
    BY DEF Lowers
  <2>3. ~workers'[x].down
    BY <2>1, <2>2, Numbers DEF WorkerType
  <2> QED BY <2>3 DEF Lowering
<1>7. Lowering(w)'
  <2>1. /\ workers'[w].pc = "ask" /\ workers'[w].to = workers[w].to /\ workers'[w].prev = lic.seats
        /\ ~workers'[w].made
    BY <1>1 DEF Shape, WorkerType
  <2> QED BY <1>1, <1>2, <1>4, <2>1 DEF Lowering
<1> QED BY <1>3, <1>5, <1>6, <1>7 DEF Settled

\* Nothing lowered: the change is no downgrade, or more is in use.
LEMMA LowerSettled ==
  ASSUME TypeOK, Shapes, Settled, NEW w \in Workers, LowerLicenseTerms(w), UNCHANGED <<edited, crossed>>
  PROVE  Settled'
<1>1. /\ workers[w] \in WorkerType /\ Shape(w) /\ WorkersTyped /\ workers[w].pc = "lower"
      /\ UNCHANGED <<stripe, flying>>
  BY DEF TypeOK, Shapes, WorkersTyped, LowerLicenseTerms
<1>2. CASE Lowers(w)
  BY <1>2, LowersSettled
<1>3. CASE ~workers[w].down /\ order' = Stamped(w) /\ Goto(w, "ask") /\ UNCHANGED lic
  <2>1. workers'[w] = [workers[w] EXCEPT !.pc = "ask"] /\ \A x \in Workers \ {w} : workers'[x] = workers[x]
    BY <1>1, <1>3 DEF Goto, WorkersTyped
  <2>2. ~Reading(w)' /\ ~workers'[w].down /\ ~workers'[w].old
    BY <1>1, <1>3, <2>1 DEF Shape, Reading, WorkerType
  <2>3. Kept(order', w)
    BY <1>3, StampedIs
  <2> QED BY <1>1, <1>3, <2>1, <2>2, <2>3, RestSettled
<1>4. CASE ReadsBack(w) /\ UNCHANGED <<lic, order>>
  <2>1. /\ workers'[w] = [Idle EXCEPT !.pc = "stamp", !.job = "change", !.known = TRUE]
        /\ \A x \in Workers \ {w} : workers'[x] = workers[x]
    BY <1>1, <1>4 DEF ReadsBack, WorkersTyped
  <2>2. ~Reading(w)' /\ ~workers'[w].down /\ ~workers'[w].old
    BY <2>1 DEF Idle, Reading
  <2>3. Kept(order', w)
    BY <1>4, NoStamps, ShrunkIsKept
  <2> QED BY <1>1, <1>4, <2>1, <2>2, <2>3, RestSettled
<1> QED BY <1>2, <1>3, <1>4 DEF LowerLicenseTerms, Lowers

\* Every read from before a downgrade out of date.
LEMMA MarkSettled ==
  ASSUME TypeOK, Shapes, Settled, NEW w \in Workers, MarkLicenseRead(w)
  PROVE  Settled'
<1>1. /\ workers[w] \in WorkerType /\ Shape(w) /\ workers[w].pc = "mark"
      /\ workers'[w] = [workers[w] EXCEPT !.pc = "release"]
      /\ \A x \in Workers \ {w} : workers'[x] = workers[x]
      /\ order' = (IF workers[w].down THEN <<>> ELSE order) /\ UNCHANGED <<stripe, lic, flying>>
  BY DEF TypeOK, Shapes, MarkLicenseRead, MarkedRead, Goto
<1>2. /\ workers'[w].pc = "release" /\ workers'[w].down = workers[w].down
      /\ workers'[w].old = workers[w].old /\ ~workers'[w].made
  BY <1>1 DEF Shape, WorkerType
<1>3. ReadHolds(w)' /\ EndsForAll(w)' /\ ~Reading(w)'
  BY <1>2 DEF ReadHolds, EndsForAll, Reading
<1>4. workers[w].down => \A x \in Workers : ~Current(x)'
  BY <1>1 DEF Current, ToSet
<1>5. Lowering(w)'
  BY <1>2, <1>4 DEF Lowering
<1>6. Kept(order', w) /\ Shrunk(order') /\ Owed'
  BY <1>1, NoStamps, ShrunkIsKept, OwedStays DEF Settled
<1> QED BY <1>1, <1>2, <1>3, <1>5, <1>6, AloneSettled

\* A change whose read could not be applied is still concluded.
LEMMA ApplyFailsSettled ==
  ASSUME TypeOK, Shapes, Settled, NEW w \in Workers, ApplyFails(w)
  PROVE  Settled'
<1>1. /\ workers[w] \in WorkerType /\ Shape(w) /\ workers[w].pc = "result"
      /\ workers'[w] = [workers[w] EXCEPT !.pc = "mark", !.sub = NoSub, !.made = FALSE]
      /\ \A x \in Workers \ {w} : workers'[x] = workers[x]
      /\ order' = Without(w) /\ UNCHANGED <<stripe, lic, flying>>
  BY DEF TypeOK, Shapes, ApplyFails, Concludes
<1>2. /\ workers'[w].pc = "mark" /\ workers'[w].old = workers[w].old /\ ~workers'[w].made
  BY <1>1 DEF WorkerType
<1>3. ReadHolds(w)' /\ EndsForAll(w)' /\ ~Reading(w)'
  BY <1>2 DEF ReadHolds, EndsForAll, Reading
<1>4. Lowering(w)'
  BY <1>2 DEF Lowering
<1>5. Kept(order', w) /\ Shrunk(order') /\ Owed'
  BY <1>1, WithoutIs, ShrunkIsKept, OwedStays DEF Settled
<1> QED BY <1>1, <1>2, <1>3, <1>4, <1>5, AloneSettled

\* The stamp not moved: while nothing crossed, no read from before is left.
LEMMA MarkFailsSettled ==
  ASSUME TypeOK, Shapes, Settled, NEW w \in Workers, MarkFails(w), ~crossed'
  PROVE  Settled'
<1>1. /\ workers[w] \in WorkerType /\ Shape(w) /\ workers[w].pc = "mark"
      /\ workers'[w] = [workers[w] EXCEPT !.pc = "release"]
      /\ \A x \in Workers \ {w} : workers'[x] = workers[x]
      /\ UNCHANGED <<stripe, lic, flying, order>>
      /\ \A x \in ToSet(order) : ~workers[x].old
  BY DEF TypeOK, Shapes, MarkFails, Goto
<1>2. /\ workers'[w].pc = "release" /\ workers'[w].down = workers[w].down
      /\ workers'[w].old = workers[w].old /\ ~workers'[w].made
  BY <1>1 DEF Shape, WorkerType
<1>3. ReadHolds(w)' /\ EndsForAll(w)' /\ ~Reading(w)'
  BY <1>2 DEF ReadHolds, EndsForAll, Reading
<1>4. \A x \in Workers : Current(x)' => ~workers'[x].old
  BY <1>1, <1>2 DEF Current
<1>5. Lowering(w)'
  BY <1>2, <1>4 DEF Lowering
<1>6. Kept(order', w) /\ Shrunk(order') /\ Owed'
  BY <1>1, NoStamps, ShrunkIsKept, OwedStays DEF Settled
<1> QED BY <1>1, <1>2, <1>3, <1>5, <1>6, AloneSettled

\* The terms let go, or put back: no read from before is left, and they are
\* billed.
LEMMA HoldEnded ==
  ASSUME TypeOK, Shapes, Settled, NEW w \in Workers, Inside(w),
         UNCHANGED <<stripe, flying>>, ~Held', lic'.seats <= stripe.seats,
         \A x \in Workers \ {w} : workers'[x] = workers[x],
         \A x \in Workers : Current(x)' => Current(x),
         \A x \in Workers : Reading(x) /\ Current(x)' => ~workers[x].old,
         ~Reading(w)', ~workers'[w].down
  PROVE  Settled'
<1>1. Paid' /\ MadeForGood' /\ Owed'
  BY DEF Paid, MadeForGood, Owed
<1>2. ASSUME NEW x \in Workers, x # w PROVE ReadHolds(x)' /\ EndsForAll(x)' /\ Lowering(x)'
  <2>1. workers'[x] = workers[x] /\ (Reading(x)' <=> Reading(x)) /\ ReadHolds(x)
    BY <1>2 DEF Reading, Settled
  <2>2. ~workers[x].down
    BY <1>2, OneInside
  <2> QED BY <2>1, <2>2 DEF ReadHolds, EndsForAll, Lowering
<1>3. ReadHolds(w)' /\ EndsForAll(w)' /\ Lowering(w)'
  BY DEF ReadHolds, EndsForAll, Lowering
<1> QED BY <1>1, <1>2, <1>3 DEF Settled

\* A worker that goes on to read the subscription.
LEMMA ReadsBackIs ==
  ASSUME WorkersTyped, NEW w \in Workers, ReadsBack(w)
  PROVE  /\ \A x \in Workers \ {w} : workers'[x] = workers[x]
         /\ ~Reading(w)' /\ ~workers'[w].down /\ ~workers'[w].old
<1>1. /\ workers'[w] = [Idle EXCEPT !.pc = "stamp", !.job = "change", !.known = TRUE]
      /\ \A x \in Workers \ {w} : workers'[x] = workers[x]
  BY DEF ReadsBack, WorkersTyped
<1> QED BY <1>1 DEF Idle, Reading

\* A hold ended by the change it was for.
LEMMA ReleaseSettled ==
  ASSUME TypeOK, Shapes, Settled, NEW w \in Workers, ReleaseLicenseTerms(w)
  PROVE  Settled'
<1>1. /\ WorkersTyped /\ Lowering(w) /\ workers[w].pc = "release" /\ Inside(w)
      /\ ReadsBack(w) /\ UNCHANGED <<stripe, flying, order>>
  BY DEF TypeOK, WorkersTyped, Settled, Inside, ReleaseLicenseTerms
<1>2. CASE workers[w].down
  <2>1. ~Held' /\ lic'.seats <= stripe.seats
    BY <1>2, Numbers DEF ReleaseLicenseTerms, Held, Settled, Paid, LicType
  <2>2. \A x \in Workers : /\ Current(x)' => Current(x)
                           /\ Reading(x) /\ Current(x)' => ~workers[x].old
    BY <1>1, <1>2 DEF Lowering, Current
  <2> QED BY <1>1, <2>1, <2>2, ReadsBackIs, HoldEnded
<1>3. CASE ~workers[w].down
  <2>1. UNCHANGED lic /\ Kept(order', w)
    BY <1>1, <1>3, NoStamps, ShrunkIsKept DEF ReleaseLicenseTerms
  <2> QED BY <1>1, <2>1, ReadsBackIs, RestSettled
<1> QED BY <1>2, <1>3

\* Terms put back: those the downgrade that was not made replaced.
LEMMA RestoreSettled ==
  ASSUME TypeOK, Shapes, Settled, NEW w \in Workers, RestoreLicenseTerms(w)
  PROVE  Settled'
<1>1. /\ WorkersTyped /\ Lowering(w) /\ workers[w].pc = "restore" /\ Inside(w)
      /\ ReadsBack(w) /\ UNCHANGED <<stripe, flying>>
  BY DEF TypeOK, WorkersTyped, Settled, Inside, RestoreLicenseTerms
<1>2. CASE Restores(w)
  <2>1. lic' = [seats |-> workers[w].prev, hold |-> "none"] /\ order' = <<>> /\ workers[w].down
    BY <1>2 DEF RestoreLicenseTerms, Restores
  <2>2. ~Held' /\ lic'.seats <= stripe.seats
    BY <1>1, <2>1 DEF Lowering, Held
  <2>3. \A x \in Workers : ~Current(x)'
    BY <2>1 DEF Current, ToSet
  <2> QED BY <1>1, <2>2, <2>3, ReadsBackIs, HoldEnded
<1>3. CASE ~Restores(w)
  <2>1. UNCHANGED <<lic, order>> /\ Kept(order', w)
    BY <1>3, NoStamps, ShrunkIsKept DEF RestoreLicenseTerms
  <2> QED BY <1>1, <2>1, ReadsBackIs, RestSettled
<1> QED BY <1>2, <1>3

\* A write of the terms that failed leaves them as they were.
LEMMA TermsWriteFailsSettled ==
  ASSUME TypeOK, Shapes, Settled, NEW w \in Workers, TermsWriteFails(w)
  PROVE  Settled'
<1>1. /\ WorkersTyped /\ ReadsBack(w) /\ UNCHANGED <<stripe, lic, flying, order>>
      /\ Kept(order', w)
  BY NoStamps, ShrunkIsKept DEF TypeOK, WorkersTyped, TermsWriteFails
<1> QED BY <1>1, ReadsBackIs, RestSettled

\* A lapsed hold ended is the hold that was found.
LEMMA SettleSettled ==
  ASSUME TypeOK, Shapes, Settled, NEW w \in Workers, SettleLapsedHold(w)
  PROVE  Settled'
<1>1. /\ workers[w] \in WorkerType /\ Shape(w) /\ Done(w) /\ UNCHANGED <<stripe, flying, order>>
      /\ lic' = IF workers[w].same THEN [lic EXCEPT !.hold = "none"] ELSE lic
  BY DEF TypeOK, Shapes, SettleLapsedHold
<1>2. /\ \A x \in Workers \ {w} : workers'[x] = workers[x]
      /\ ~Reading(w)' /\ ~workers'[w].down /\ ~workers'[w].old
  BY <1>1 DEF TypeOK, Done, Idle, Reading
<1>3. lic' = lic \/ (~Held /\ ~Held' /\ lic'.seats = lic.seats)
  BY <1>1, Numbers DEF Shape, Held, LicType
<1>4. Kept(order', w)
  BY <1>1, NoStamps, ShrunkIsKept
<1> QED BY <1>1, <1>2, <1>3, <1>4, RestSettled

-----------------------------------------------------------------------------
(***************************************************************************)
(* Stripe                                                                  *)
(***************************************************************************)

\* A change made in its turn: a downgrade under way is the one made, and of
\* more than the terms held.
LEMMA MakesSettled ==
  ASSUME TypeOK, Shapes, Settled, NEW r \in flying, NEW s \in Outcomes(r), Makes(r, s), Orderly'
  PROVE  Settled'
<1>1. /\ stripe' = s /\ flying' = flying \ {r} /\ UNCHANGED <<lic, lock, order>>
      /\ r.down => lic = [seats |-> r.to, hold |-> "held"]
      /\ ~r.down => ~Held /\ stripe.seats <= s.seats
      /\ Awaiting(r) = {} => lock = Nobody
  <2>1. /\ stripe' = s /\ flying' = flying \ {r} /\ UNCHANGED <<lic, lock, order>>
        /\ ~OutOfTurn(r) /\ edited' = IF r.down THEN edited ELSE Lowered(s.seats)
    BY Zenon DEF Makes, StripeHas, Orderly
  <2>2. ~r.down => stripe.seats <= s.seats
    <3>1. s.seats \in Nat
      BY Numbers, Bounds DEF Outcomes, TypeOK, SubType
    <3> QED BY <2>1, <3>1, Numbers DEF Lowered, Orderly
  <2> QED BY <2>1, <2>2 DEF OutOfTurn, Held
<1>2. ASSUME NEW x \in Workers, workers[x].down PROVE x \in Awaiting(r) /\ r.down
  <2>1. Inside(x) /\ lock = x
    BY <1>2 DEF Shapes, Shape
  <2>2. PICK a \in Workers : workers[a].pc = "wait" /\ Asking(a) = r
    BY <1>1, <2>1, Bounds DEF Awaiting
  <2>3. a = x
    BY <2>1, <2>2 DEF Shapes, Shape, Inside
  <2> QED BY <1>2, <2>2, <2>3 DEF Awaiting, Asking
<1>3. r.down => /\ Held /\ lic.seats = r.to /\ lic.seats < stripe.seats
                /\ s = [seats |-> r.to, pending |-> NoSeats]
  BY <1>1 DEF Settled, Owed, Held, Outcomes
<1>4. ASSUME NEW x \in Workers
      PROVE  \/ /\ x \in Awaiting(r)
                /\ workers'[x].pc = "result" /\ workers'[x].sub = s /\ ~workers'[x].old /\ workers'[x].known
                /\ workers'[x].down = workers[x].down /\ workers'[x].to = workers[x].to
             \/ /\ workers'[x].pc = workers[x].pc /\ workers'[x].sub = workers[x].sub
                /\ workers'[x].known = workers[x].known
                /\ workers'[x].down = workers[x].down /\ workers'[x].to = workers[x].to
                /\ Reading(x) => (workers'[x].old <=> workers[x].old \/ r.down)
  <2>1. workers[x] \in WorkerType /\ Shape(x)
    BY DEF TypeOK, Shapes
  <2>2. CASE workers'[x] = [Aged(r)[x] EXCEPT !.pc = "result", !.sub = s, !.known = TRUE] /\ x \in Awaiting(r)
    <3>1. workers[x].pc = "wait" /\ ~workers[x].old
      BY <2>1, <2>2 DEF Awaiting, Shape
    <3>2. workers'[x].pc = "result" /\ workers'[x].sub = s /\ ~workers'[x].old /\ workers'[x].known
      BY <2>1, <2>2, <3>1 DEF Aged, WorkerType
    <3>3. workers'[x].down = workers[x].down /\ workers'[x].to = workers[x].to
      BY <2>1, <2>2 DEF Aged, WorkerType
    <3> QED BY <2>2, <3>2, <3>3
  <2>3. CASE \/ workers'[x] = Aged(r)[x]
             \/ workers'[x] = [Aged(r)[x] EXCEPT !.made = @ \/ x \in Awaiting(r)]
    <3>1. /\ workers'[x].pc = workers[x].pc /\ workers'[x].sub = workers[x].sub
          /\ workers'[x].known = workers[x].known
          /\ workers'[x].down = workers[x].down /\ workers'[x].to = workers[x].to
      BY <2>1, <2>3 DEF Aged, WorkerType
    <3>2. Reading(x) => (workers'[x].old <=> workers[x].old \/ r.down)
      BY <2>1, <2>3 DEF Aged, Reading, WorkerType
    <3> QED BY <3>1, <3>2
  <2> QED BY <2>2, <2>3 DEF Makes
<1>5. Held' <=> Held
  BY <1>1 DEF Held
<1>6. Paid' /\ MadeForGood'
  <2>1. s.seats \in Nat
    BY Numbers, Bounds DEF Outcomes, TypeOK, SubType
  <2>2. CASE r.down
    <3>1. stripe'.seats = lic'.seats /\ stripe'.pending = NoSeats /\ lic' = lic
      BY <1>1, <1>3, <2>2
    <3> QED BY <3>1, Numbers DEF Paid, MadeForGood
  <2>3. CASE ~r.down
    <3>1. lic'.seats <= stripe'.seats
      BY <1>1, <2>1, <2>3, Numbers DEF Settled, Paid
    <3> QED BY <1>1, <1>5, <2>3, <3>1 DEF Paid, MadeForGood
  <2> QED BY <2>2, <2>3
<1>7. Owed'
  <2> SUFFICES ASSUME NEW q \in flying', q.down, Held', q.to = lic'.seats PROVE lic'.seats < stripe'.seats
    BY DEF Owed
  <2>1. r.down /\ q.to = r.to /\ q \in flying /\ q # r
    BY <1>1, <1>3, <1>5
  <2>2. q = r
    BY <2>1 DEF TypeOK
  <2> QED BY <2>1, <2>2
<1>8. ASSUME NEW x \in Workers PROVE ReadHolds(x)' /\ EndsForAll(x)'
  <2>1. ReadHolds(x) /\ Lowering(x) /\ (Current(x)' <=> Current(x))
    BY <1>1 DEF Settled, Current
  <2>2. CASE /\ x \in Awaiting(r) /\ workers'[x].pc = "result" /\ workers'[x].sub = s /\ ~workers'[x].old
    <3>1. s.seats \in Nat
      BY Numbers, Bounds DEF Outcomes, TypeOK, SubType
    <3>2. ReadHolds(x)'
      BY <1>1, <1>3, <1>5, <2>2, <3>1, Numbers DEF ReadHolds
    <3>3. r.down => ~Current(x)
      BY <2>1, <2>2 DEF Lowering, Awaiting, Asking
    <3> QED BY <1>1, <1>5, <2>1, <3>2, <3>3 DEF EndsForAll
  <2>3. CASE /\ workers'[x].pc = workers[x].pc /\ workers'[x].sub = workers[x].sub
             /\ Reading(x) => (workers'[x].old <=> workers[x].old \/ r.down)
    <3>1. Reading(x)' <=> Reading(x)
      BY <2>3 DEF Reading
    <3>2. CASE r.down
      <4>1. Reading(x) /\ Current(x) => lic.seats < workers[x].sub.seats
        BY <1>3, <2>1, <3>2 DEF ReadHolds
      <4> QED BY <1>1, <1>3, <1>5, <2>1, <2>3, <3>1, <3>2, <4>1, Numbers DEF ReadHolds, EndsForAll
    <3>3. CASE ~r.down
      <4>1. ReadHolds(x)'
        <5> SUFFICES ASSUME Reading(x), Current(x) PROVE workers'[x].sub.seats <= stripe'.seats /\ ~workers'[x].old
          BY <1>1, <1>5, <2>1, <3>1, <3>3 DEF ReadHolds
        <5>1. ~workers[x].old /\ workers[x].sub.seats <= stripe.seats
          BY <1>1, <2>1, <3>3 DEF ReadHolds
        <5>2. s.seats \in Nat
          BY Numbers, Bounds DEF Outcomes, TypeOK, SubType
        <5> QED BY <1>1, <2>3, <3>3, <5>1, <5>2, Numbers
      <4> QED BY <1>1, <1>5, <3>3, <4>1 DEF EndsForAll
    <3> QED BY <3>2, <3>3
  <2> QED BY <1>4, <2>2, <2>3
<1>9. ASSUME NEW x \in Workers PROVE Lowering(x)'
  <2> SUFFICES ASSUME workers'[x].down PROVE Lowering(x)'
    BY DEF Lowering
  <2>1. workers[x].down /\ workers'[x].to = workers[x].to /\ workers'[x].down = workers[x].down
    BY <1>4
  <2>2. x \in Awaiting(r) /\ r.down
    BY <1>2, <2>1
  <2>3. /\ workers[x].pc = "wait" /\ Asking(x)' = r /\ workers'[x].to = r.to
        /\ workers'[x].pc \in {"wait", "result"}
    BY <1>4, <2>1, <2>2 DEF Awaiting, Asking
  <2>4. ~Current(x)'
    BY <1>1, <2>1, <2>3 DEF Settled, Lowering, Current
  <2>5. workers'[x].pc = "result" => workers'[x].sub = s
    BY <1>4, <2>3
  <2> QED BY <1>1, <1>3, <2>1, <2>2, <2>3, <2>4, <2>5 DEF Lowering
<1> QED BY <1>6, <1>7, <1>8, <1>9 DEF Settled

\* A payment made or expired: no less is billed, and nothing held waits for it.
LEMMA PendingSettled ==
  ASSUME TypeOK, PendingIsMore, Shapes, Settled, PendingEnds
  PROVE  Settled'
<1>1. /\ stripe.pending # NoSeats /\ stripe.seats < stripe.pending
      /\ stripe'.seats \in {stripe.seats, stripe.pending} /\ stripe'.pending = NoSeats
      /\ UNCHANGED <<flying, lic, order, workers>>
  BY DEF PendingEnds, StripeHas, PendingIsMore
<1>2. stripe'.seats \in Nat /\ stripe.seats <= stripe'.seats
  <2>1. stripe.pending \in Nat
    <3>1. stripe \in SubType /\ Seats \subseteq Nat /\ NoSeats \in Nat
      BY Numbers, Bounds DEF NoSeats
    <3>2. stripe.pending \in Seats \cup {NoSeats}
      BY <3>1 DEF SubType
    <3> QED BY <3>1, <3>2
  <2> QED BY <1>1, <2>1, Numbers
<1>3. Held => lic.seats < stripe.seats
  BY <1>1, Numbers DEF Settled, Paid, MadeForGood
<1>4. Paid' /\ MadeForGood' /\ Owed'
  BY <1>1, <1>2, <1>3, Numbers DEF Settled, Paid, MadeForGood, Owed, Held
<1>5. ASSUME NEW x \in Workers PROVE ReadHolds(x)' /\ EndsForAll(x)' /\ Lowering(x)'
  <2>1. ReadHolds(x) /\ EndsForAll(x) /\ Lowering(x)
    BY DEF Settled
  <2>2. ReadHolds(x)' /\ EndsForAll(x)'
    BY <1>1, <1>2, <1>3, <2>1, Numbers DEF ReadHolds, EndsForAll, Reading, Current, Held
  <2>3. workers[x].down => ~(workers[x].made \/ (workers[x].pc = "result" /\ workers[x].known))
    BY <1>1, <2>1 DEF Lowering
  <2>4. Lowering(x)'
    BY <1>1, <1>2, <2>1, <2>3, Numbers DEF Lowering, Asking, Reading, Current
  <2> QED BY <2>2, <2>4
<1> QED BY <1>4, <1>5 DEF Settled

\* An edit that raises what is billed, under no change.
LEMMA EditSettled ==
  ASSUME TypeOK, Shapes, Settled, DashboardEdit, Orderly'
  PROVE  Settled'
<1>1. /\ ~UnderWay /\ stripe'.seats \in Nat /\ stripe.seats <= stripe'.seats
      /\ UNCHANGED <<flying, lic, order, workers>>
  <2>1. PICK s \in Seats : /\ stripe' = [seats |-> s, pending |-> NoSeats]
                           /\ edited' = IF UnderWay THEN "under" ELSE Lowered(s)
    BY DEF DashboardEdit, StripeHas
  <2>2. UNCHANGED <<flying, lic, order, workers>>
    BY DEF DashboardEdit
  <2> QED BY <2>1, <2>2, Numbers, Bounds DEF Orderly, Lowered
<1>2. ~Held /\ ~Held' /\ \A x \in Workers : ~workers[x].down
  BY <1>1 DEF UnderWay, Held, Shapes, Shape
<1>3. Paid' /\ MadeForGood' /\ Owed'
  BY <1>1, <1>2, Numbers DEF Settled, Paid, MadeForGood, Owed
<1>4. ASSUME NEW x \in Workers PROVE ReadHolds(x)' /\ EndsForAll(x)' /\ Lowering(x)'
  BY <1>1, <1>2, Numbers DEF Settled, ReadHolds, EndsForAll, Lowering, Reading, Current
<1> QED BY <1>3, <1>4 DEF Settled

\* A hold that lapses outlasts the reads and the downgrades it was for.
LEMMA LapseSettled ==
  ASSUME TypeOK, Shapes, Settled, HoldLapses
  PROVE  Settled'
<1>1. /\ \A x \in Workers : ~workers[x].old /\ ~(workers[x].job = "change" /\ workers[x].down)
      /\ ~Held' /\ lic'.seats = lic.seats /\ UNCHANGED <<stripe, flying, order, workers>>
  BY Numbers DEF HoldLapses, Held, LicType
<1>2. \A x \in Workers : ~workers[x].down
  BY <1>1 DEF Shapes, Shape
<1>3. Paid' /\ MadeForGood' /\ Owed'
  BY <1>1 DEF Settled, Paid, MadeForGood, Owed
<1>4. ASSUME NEW x \in Workers PROVE ReadHolds(x)' /\ EndsForAll(x)' /\ Lowering(x)'
  BY <1>1, <1>2 DEF Settled, ReadHolds, EndsForAll, Lowering, Reading, Current
<1> QED BY <1>3, <1>4 DEF Settled

\* Fewer requests under way, and nothing else.
LEMMA SameSettled ==
  ASSUME Settled, UNCHANGED <<stripe, lic, order, workers>>, flying' \subseteq flying
  PROVE  Settled'
<1>1. Paid' /\ MadeForGood' /\ Owed'
  BY DEF Settled, Paid, MadeForGood, Owed, Held
<1>2. ASSUME NEW x \in Workers PROVE ReadHolds(x)' /\ EndsForAll(x)' /\ Lowering(x)'
  BY DEF Settled, ReadHolds, EndsForAll, Lowering, Reading, Current, Held, Asking
<1> QED BY <1>1, <1>2 DEF Settled

-----------------------------------------------------------------------------
(***************************************************************************)
(* Theorems                                                                *)
(***************************************************************************)

\* The invariant holds at the start.
LEMMA TermsInit == Init => TermsInv
<1> SUFFICES ASSUME Init PROVE TermsInv
  OBVIOUS
<1>1. TypeOK
  BY TypeInit
<1>2. /\ stripe.seats = lic.seats /\ stripe.pending = NoSeats /\ lic.hold = "none" /\ flying = {}
      /\ \A w \in Workers : workers[w] = Idle
  BY DEF Init
<1>3. PendingIsMore /\ Shapes
  BY <1>2 DEF PendingIsMore, Shapes, Shape, Inside, Idle
<1>4. Settled
  BY <1>1, <1>2, Numbers DEF Settled, Paid, MadeForGood, Owed, ReadHolds, EndsForAll, Lowering, Reading,
                             Held, Idle
<1> QED BY <1>1, <1>3, <1>4 DEF TermsInv

\* Every step keeps the invariant.
LEMMA TermsNext == TermsInv /\ [Next]_vars => TermsInv'
<1> SUFFICES ASSUME TermsInv, [Next]_vars PROVE TermsInv'
  OBVIOUS
<1>0. TypeOK /\ PendingIsMore /\ Shapes
  BY DEF TermsInv
<1>1. TypeOK' /\ PendingIsMore' /\ Shapes'
  BY <1>0, TypeNext, PendingNext, ShapesNext
<1>2. ASSUME Orderly' PROVE Settled'
  <2>1. CASE UNCHANGED vars
    <3>1. Orderly
      BY <1>2, <2>1 DEF vars, Orderly
    <3> QED BY <2>1, <3>1, SameSettled DEF vars, TermsInv
  <2>2. ASSUME StripeMakes PROVE Settled'
    <3>1. PICK r \in flying : \E s \in Outcomes(r) : Makes(r, s)
      BY <2>2 DEF StripeMakes, Makes
    <3>2. PICK s \in Outcomes(r) : Makes(r, s)
      BY <3>1
    <3>3. /\ edited' = IF r.down THEN edited ELSE Lowered(s.seats)
          /\ crossed' = (crossed \/ OutOfTurn(r))
      BY <3>2, Zenon DEF Makes
    <3>4. Orderly
      BY <1>2, <3>3 DEF Orderly, Lowered
    <3> QED BY <1>0, <1>2, <3>2, <3>4, MakesSettled DEF TermsInv
  <2>3. ASSUME PendingEnds PROVE Settled'
    <3>1. Orderly
      BY <1>2, <2>3 DEF PendingEnds, bounds, Orderly
    <3> QED BY <1>0, <2>3, <3>1, PendingSettled DEF TermsInv
  <2>4. ASSUME DashboardEdit PROVE Settled'
    <3>1. Orderly
      BY <1>2, <2>4 DEF DashboardEdit, Orderly, Lowered
    <3> QED BY <1>0, <1>2, <2>4, <3>1, EditSettled DEF TermsInv
  <2>5. ASSUME HoldLapses PROVE Settled'
    <3>1. Orderly
      BY <1>2, <2>5 DEF HoldLapses, bounds, Orderly
    <3> QED BY <1>0, <2>5, <3>1, LapseSettled DEF TermsInv
  <2>6. ASSUME StripeNeverSees \/ TakeSeat \/ FreeSeat PROVE Settled'
    <3>1. Orderly /\ UNCHANGED <<stripe, lic, order, workers>> /\ flying' \subseteq flying
      BY <1>2, <2>6 DEF StripeNeverSees, TakeSeat, FreeSeat, bounds, Orderly
    <3> QED BY <3>1, SameSettled DEF TermsInv
  <2>7. ASSUME NEW w \in Workers, Works(w) PROVE Settled'
    <3>1. edited' = edited /\ (crossed => crossed')
      BY <1>0, <2>7, WorksAlone DEF Lowers
    <3>2. Settled
      BY <1>2, <3>1 DEF Orderly, TermsInv
    <3>3. UNCHANGED <<edited, crossed>> \/ ~LowerLicenseTerms(w)
      BY DEF LowerLicenseTerms, bounds
    <3>4. ~crossed'
      BY <1>2 DEF Orderly
    <3>5. CASE Goes(w)
      BY <1>0, <3>2, <3>3, <3>4, <3>5, StampSettled, GetSettled, ApplySettled, QuietSettled, ResolveSettled,
         LowerSettled, AskSettled, AgainSettled, ResultSettled, MarkSettled, ReleaseSettled,
         RestoreSettled, SettleSettled DEF Goes
    <3>6. CASE ~Goes(w)
      BY <1>0, <2>7, <3>2, <3>6, <3>4, QuietSettled, RefusesSettled, AgainSettled, ApplyFailsSettled,
         MarkFailsSettled, TermsWriteFailsSettled DEF Works
    <3> QED BY <3>5, <3>6
  <2> QED BY <2>1, <2>2, <2>3, <2>4, <2>5, <2>6, <2>7 DEF Next, Works
<1> QED BY <1>1, <1>2 DEF TermsInv

\* The licence never offers a seat the subscription does not bill, for any
\* number of handlers, requests and faults, writes that fail among them, short
\* of what SeatsArePaid names (subscription_change.go, changeSubscription;
\* store.go, LowerLicenseTerms, MarkLicenseRead).
THEOREM SeatsArePaidHolds == Spec => []SeatsArePaid
<1>1. TermsInv => SeatsArePaid
  BY DEF TermsInv, SeatsArePaid, Orderly, Settled, Paid
<1> QED BY <1>1, TermsInit, TermsNext, PTL DEF Spec

=============================================================================
