------------------------------ MODULE Floating ------------------------------
(***************************************************************************)
(* Floating sessions of one licence: leases on its device slots, checked   *)
(* out, renewed by heartbeats, and lost when they lapse                    *)
(* (internal/store/floating.go, internal/service/floating.go).             *)
(*                                                                         *)
(* A checkout has three moments.  The service reads the licence and works  *)
(* out the new expiry; the transaction begins, which fixes the database's  *)
(* now() for all of it; and it goes on once it holds the licence row.      *)
(* Other transactions commit, and time passes, between any two of them.    *)
(***************************************************************************)
EXTENDS Integers, FiniteSets

CONSTANTS
  Machines,     \* identifiers of client machines
  Seats,        \* members with keys of their own
  Requests,     \* requests in flight at once
  Limits,       \* device limits the licence's terms may give
  Timeout,      \* the plan's floating_timeout, in ticks
  MaxClock,     \* bound: ticks
  MaxKey        \* bound: keys a holder is given

Owner == 0      \* seat_id NULL: the licence's own key
NoKey == 0      \* the member has been removed
Holders == Seats \cup {Owner}

FloatingAssumption ==
  /\ Seats \subseteq Nat \ {Owner}
  /\ IsFiniteSet(Machines)
  /\ Limits # {}
  /\ Limits \subseteq Nat
  /\ Timeout \in Nat \ {0}
  /\ MaxClock \in Nat
  /\ MaxKey \in Nat

VARIABLES
  clock,        \* the time
  stopped,      \* the licence is suspended, expired or revoked
  limit,        \* sessions its terms allow now
  keys,         \* which of their keys each holder has now, 1 their first
  sessions,     \* the row of each machine
  reqs          \* requests between their steps

vars == <<clock, stopped, limit, keys, sessions, reqs>>

\* A floating_sessions row.  key is history: the key it was checked out with.
SessionType == [held : BOOLEAN, seat : Holders, key : Nat, until : Nat]
NoSession == [held |-> FALSE, seat |-> Owner, key |-> NoKey, until |-> 0]

ReqType == [op : {"idle", "checkout", "waiting", "heartbeat"}, seat : Holders,
            key : Nat, machine : Machines \cup {Owner}, max : Nat, until : Nat, now : Nat]
Idle == [op |-> "idle", seat |-> Owner, key |-> NoKey, machine |-> Owner,
         max |-> 0, until |-> 0, now |-> 0]

RunningAt(m, now) == sessions[m].held /\ sessions[m].until > now
CountAt(now) == Cardinality({m \in Machines : RunningAt(m, now)})
Running == CountAt(clock)

MinOf(a, b) == IF a <= b THEN a ELSE b

Init ==
  /\ clock = 0
  /\ stopped = FALSE
  /\ limit \in Limits
  /\ keys = [s \in Holders |-> 1]
  /\ sessions = [m \in Machines |-> NoSession]
  /\ reqs = [r \in Requests |-> Idle]

-----------------------------------------------------------------------------
(***************************************************************************)
(* Checking out                                                            *)
(***************************************************************************)

\* loadLicenseForSDK: the key of s opens a usable licence.
Opens(s) == keys[s] # NoKey /\ ~stopped

\* FloatingService.CheckOut up to the store.
LoadCheckOut(r, s, m) ==
  /\ reqs[r] = Idle
  /\ Opens(s)
  /\ reqs' = [reqs EXCEPT ![r] = [Idle EXCEPT !.op = "checkout", !.seat = s,
                !.key = keys[s], !.machine = m, !.max = limit, !.until = clock + Timeout]]
  /\ UNCHANGED <<clock, stopped, limit, keys, sessions>>

\* BEGIN: now() is this moment until the transaction ends.
BeginCheckOut(r) ==
  /\ reqs[r].op = "checkout"
  /\ reqs' = [reqs EXCEPT ![r] = [@ EXCEPT !.op = "waiting", !.now = clock]]
  /\ UNCHANGED <<clock, stopped, limit, keys, sessions>>

\* MUTANT: the key is not read again under the lock.
KeyHeld_NotReread(q) == TRUE

\* keyHeldIn, under the licence lock.
KeyHeld(q) == keys[q.seat] = q.key /\ ~stopped

\* The row checkOutFloating leaves: the running lease renewed, by its holder
\* or the licence's key, and still its holder's; else a free slot taken; else
\* as it was (held by another key, or no slot free).
CheckedOut(q) ==
  LET old == sessions[q.machine] IN
  IF RunningAt(q.machine, q.now)
  THEN IF q.seat \in {Owner, old.seat} THEN [old EXCEPT !.until = q.until] ELSE old
  ELSE IF CountAt(q.now) < MinOf(q.max, limit)
       THEN [held |-> TRUE, seat |-> q.seat, key |-> q.key, until |-> q.until]
       ELSE old

\* Store.checkOutFloating, from the licence lock to the commit.
CommitCheckOut(r) ==
  LET q == reqs[r] IN
  /\ q.op = "waiting"
  /\ sessions' = IF KeyHeld(q) THEN [sessions EXCEPT ![q.machine] = CheckedOut(q)] ELSE sessions
  /\ reqs' = [reqs EXCEPT ![r] = Idle]
  /\ UNCHANGED <<clock, stopped, limit, keys>>

-----------------------------------------------------------------------------
(***************************************************************************)
(* Keeping, ending and losing a session                                    *)
(***************************************************************************)

\* FloatingService.Heartbeat up to the store.
LoadHeartbeat(r, s, m) ==
  /\ reqs[r] = Idle
  /\ Opens(s)
  /\ reqs' = [reqs EXCEPT ![r] = [Idle EXCEPT !.op = "heartbeat", !.seat = s,
                !.machine = m, !.until = clock + Timeout]]
  /\ UNCHANGED <<clock, stopped, limit, keys, sessions>>

\* MUTANT: a lapsed lease is renewed.
Renewable_EvenLapsed(q) == sessions[q.machine].held /\ q.seat \in {Owner, sessions[q.machine].seat}

\* Only a lease still running, and the member's own.
Renewable(q) ==
  /\ RunningAt(q.machine, clock)
  /\ q.seat \in {Owner, sessions[q.machine].seat}

\* Store.HeartbeatFloating: one UPDATE, with no licence lock and no second
\* look at the key.
CommitHeartbeat(r) ==
  LET q == reqs[r] IN
  /\ q.op = "heartbeat"
  /\ sessions' = IF Renewable(q) THEN [sessions EXCEPT ![q.machine].until = q.until] ELSE sessions
  /\ reqs' = [reqs EXCEPT ![r] = Idle]
  /\ UNCHANGED <<clock, stopped, limit, keys>>

\* FloatingService.CheckIn
CheckIn(s, m) ==
  /\ Opens(s)
  /\ sessions[m].held
  /\ s \in {Owner, sessions[m].seat}
  /\ sessions' = [sessions EXCEPT ![m] = NoSession]
  /\ UNCHANGED <<clock, stopped, limit, keys, reqs>>

\* CleanExpiredFloating, from the cleanup loop.
CleanExpired ==
  /\ sessions' = [m \in Machines |-> IF stopped \/ ~RunningAt(m, clock) THEN NoSession ELSE sessions[m]]
  /\ UNCHANGED <<clock, stopped, limit, keys, reqs>>

-----------------------------------------------------------------------------
(***************************************************************************)
(* The licence                                                             *)
(***************************************************************************)

SetTerms(n) ==
  /\ n # limit
  /\ limit' = n
  /\ UNCHANGED <<clock, stopped, keys, sessions, reqs>>

\* SuspendLicense, expireLicenseWhere, RevokeLicense, a Stripe pause: each
\* ends the sessions in the write that stops the licence.
StopLicense ==
  /\ ~stopped
  /\ stopped' = TRUE
  /\ sessions' = [m \in Machines |-> NoSession]
  /\ UNCHANGED <<clock, limit, keys, reqs>>

\* ReinstateLicense, or a Stripe resume.
ReinstateLicense ==
  /\ stopped
  /\ stopped' = FALSE
  /\ UNCHANGED <<clock, limit, keys, sessions, reqs>>

WithoutSessionsOf(s) ==
  [m \in Machines |-> IF sessions[m].held /\ sessions[m].seat = s THEN NoSession ELSE sessions[m]]

\* RotateLicenseKey, RotateMemberKey
RotateKey(s) ==
  /\ keys[s] # NoKey
  /\ keys[s] < MaxKey
  /\ keys' = [keys EXCEPT ![s] = @ + 1]
  /\ sessions' = WithoutSessionsOf(s)
  /\ UNCHANGED <<clock, stopped, limit, reqs>>

\* RemoveSeat
RemoveSeat(s) ==
  /\ keys[s] # NoKey
  /\ keys' = [keys EXCEPT ![s] = NoKey]
  /\ sessions' = WithoutSessionsOf(s)
  /\ UNCHANGED <<clock, stopped, limit, reqs>>

\* The server stops, or the request's context ends.
Crash(r) ==
  /\ reqs[r] # Idle
  /\ reqs' = [reqs EXCEPT ![r] = Idle]
  /\ UNCHANGED <<clock, stopped, limit, keys, sessions>>

Tick ==
  /\ clock < MaxClock
  /\ clock' = clock + 1
  /\ UNCHANGED <<stopped, limit, keys, sessions, reqs>>

-----------------------------------------------------------------------------
Next ==
  \/ \E r \in Requests, s \in Holders, m \in Machines : LoadCheckOut(r, s, m)
  \/ \E r \in Requests : BeginCheckOut(r)
  \/ \E r \in Requests : CommitCheckOut(r)
  \/ \E r \in Requests, s \in Holders, m \in Machines : LoadHeartbeat(r, s, m)
  \/ \E r \in Requests : CommitHeartbeat(r)
  \/ \E s \in Holders, m \in Machines : CheckIn(s, m)
  \/ CleanExpired
  \/ \E n \in Limits : SetTerms(n)
  \/ StopLicense
  \/ ReinstateLicense
  \/ \E s \in Holders : RotateKey(s)
  \/ \E s \in Seats : RemoveSeat(s)
  \/ \E r \in Requests : Crash(r)
  \/ Tick

Spec == Init /\ [][Next]_vars

-----------------------------------------------------------------------------
TypeOK ==
  /\ clock \in Nat
  /\ stopped \in BOOLEAN
  /\ limit \in Limits
  /\ keys \in [Holders -> Nat]
  /\ sessions \in [Machines -> SessionType]
  /\ reqs \in [Requests -> ReqType]

\* A stopped licence holds no session, so that a reinstate brings none back
\* (stoppedStatuses), and a session belongs to somebody who can still end it:
\* its holder is on the team, with the key it was checked out with.  Not one
\* renewed by a heartbeat, nor one checked out by a request that found the
\* licence usable, is an exception.
SessionsOnWorkingKeys ==
  \A m \in Machines : sessions[m].held => ~stopped /\ sessions[m].key = keys[sessions[m].seat]

\* checkOutFloating finds its own machine's lease running as of its BEGIN, and
\* renews it after it has lapsed: now() does not move while the licence row is
\* waited for.
RevivesLease(r) ==
  /\ reqs[r].op = "waiting"
  /\ reqs'[r] = Idle
  /\ RunningAt(reqs[r].machine, reqs[r].now)
  /\ ~RunningAt(reqs[r].machine, clock)

\* "Atomically creates a floating session only if the active session count is
\* below maxSessions" (CheckOutFloatingWithLimit), and a heartbeat never
\* raises a lapsed lease: whenever the number of running sessions goes up, it
\* is within the limit the licence has at that moment, however long the
\* checkout waited for the licence row.  The one exception is a checkout that
\* revives its own machine's lease (RevivesLease, which LapsedLeaseCompetes
\* below is about).  A lease changes hands only after it has lapsed or been
\* ended: "a machine's running session stays its holder's"
\* (CheckOutFloatingForKey).
StaysWithinCap ==
  /\ Running' > Running => Running' <= limit \/ \E r \in Requests : RevivesLease(r)
  /\ \A m \in Machines :
       RunningAt(m, clock) /\ sessions'[m].held => sessions'[m].seat = sessions[m].seat

\* "A machine that drops off the network for longer than the timeout has lost
\* its seat, and has to compete for one again through CheckOut like any
\* other" (HeartbeatFloating): a lapsed lease runs again only where a slot is
\* free.
LapsedLeaseCompetes ==
  [][\A m \in Machines :
       sessions[m].held /\ ~RunningAt(m, clock) /\ RunningAt(m, clock)' => Running < limit]_vars

-----------------------------------------------------------------------------
\* A transaction waiting for the licence row counts as of a time gone by.
CountsFromBegin == \A r \in Requests : reqs[r].op = "waiting" => reqs[r].now <= clock

FloatingInv == TypeOK /\ SessionsOnWorkingKeys /\ CountsFromBegin
=============================================================================
