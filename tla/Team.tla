-------------------------------- MODULE Team --------------------------------
(***************************************************************************)
(* One licence and the team that uses it: the people invited onto it       *)
(* (internal/store/seats.go, internal/service/seats.go), the keys they     *)
(* hold (internal/store/member_keys.go), the devices activated with those  *)
(* keys (internal/store/store.go, internal/service/license.go), and an     *)
(* upgrade checkout that counts the team while invites go on               *)
(* (internal/payment/upgrade.go).                                          *)
(*                                                                         *)
(* Every change is decided in a transaction that holds the licence row     *)
(* (SELECT ... FOR UPDATE), so a transaction is one action.  A request     *)
(* first reads the licence outside any transaction: what it read is kept   *)
(* in reqs[r] until the transaction runs, and the rest of the system moves *)
(* in between.                                                             *)
(***************************************************************************)
EXTENDS Integers, FiniteSets

CONSTANTS
  Members,      \* people who may be invited; the number is the seat row's id
  Devices,      \* machines
  Requests,     \* requests in flight at once
  Plans,        \* plans of the product, see PlanType
  Quantities,   \* seats a subscription may be paid for
  Stamps,       \* times of joining; two servers' clocks may disagree
  MaxSerial,    \* bound: keys made and joins accepted, together
  OlderReplica  \* TRUE while a replica from before member keys still runs

\* A plan, as far as the limits of a licence and an upgrade read it.
PlanType == [perSeat : BOOLEAN, maxSeats : Nat, maxActivations : Nat,
             minQuantity : Nat, maxQuantity : Nat, free : BOOLEAN]

ASSUME TeamAssumption ==
  /\ Members \subseteq Nat \ {0}
  /\ IsFiniteSet(Members)
  /\ IsFiniteSet(Devices)
  /\ Plans # {}
  /\ Plans \subseteq PlanType
  /\ Quantities # {}
  /\ Quantities \subseteq Nat
  /\ Stamps \subseteq Nat
  /\ MaxSerial \in Nat
  /\ OlderReplica \in BOOLEAN

VARIABLES
  licenseKey,   \* the licence's own key
  serial,       \* last key or join number given out
  standing,     \* the licence's status, as the key checks read it
  terms,        \* its plan and the seats it is paid for
  hasSeats,     \* the product's type has seats
  seats,        \* the seat row of each member
  acts,         \* the activation row of each device
  opening,      \* an upgrade checkout being opened, under UpgradeLockKey
  upgrade,      \* the pending upgrade whose checkout is open
  reqs          \* requests between their read and their transaction

vars == <<licenseKey, serial, standing, terms, hasSeats, seats, acts,
          opening, upgrade, reqs>>

Owner == 0      \* seat_id NULL: the licence's own key
NoKey == 0      \* member_key_hash NULL

\* Active (or canceled inside its period), active past its grace but not
\* swept yet, suspended, expired, revoked.
Standings == {"usable", "lapsed", "suspended", "expired", "revoked"}

(***************************************************************************)
(* A seat row: removed_at and accepted_at give the state, token is an      *)
(* invite not spent yet, key the member's key.  join is history: the       *)
(* serial number of the accept the member stands on.                       *)
(***************************************************************************)
SeatType == [state : {"none", "pending", "joined", "removed"}, token : BOOLEAN,
             key : Nat, at : Nat, join : Nat]
NoSeat == [state |-> "none", token |-> FALSE, key |-> NoKey, at |-> 0, join |-> 0]

\* An activation row.  key is history: the key that activated the device.
ActType == [held : BOOLEAN, seat : Members \cup {Owner}, key : Nat, predates : BOOLEAN]
Free == [held |-> FALSE, seat |-> Owner, key |-> NoKey, predates |-> FALSE]

UpgradeType == [open : BOOLEAN, plan : Plans, seats : Nat]
NoUpgrade == [open |-> FALSE, plan |-> CHOOSE p \in Plans : TRUE, seats |-> 0]

ReqType == [op : {"idle", "activate", "invite", "accepted", "doomed"},
            seat : Members \cup {Owner}, key : Nat, device : Devices \cup {Owner},
            max : Nat, join : Nat]
Idle == [op |-> "idle", seat |-> Owner, key |-> NoKey, device |-> Owner,
         max |-> 0, join |-> 0]

-----------------------------------------------------------------------------
(***************************************************************************)
(* Limits                                                                  *)
(***************************************************************************)
MaxOf(a, b) == IF a >= b THEN a ELSE b
MinOf(a, b) == IF a <= b THEN a ELSE b

\* Plan.Limits: people and devices a licence holds when paid for q seats.
\* 0 seats is no limit; 0 devices is none.
SeatLimit(p, q) == IF p.perSeat THEN MaxOf(q, 1) ELSE p.maxSeats
ActivationLimit(p, q) ==
  IF p.perSeat THEN p.maxActivations * MaxOf(q, 1) ELSE p.maxActivations

\* stricterSeatLimit: the lower of two limits, 0 meaning none.
StricterSeatLimit(a, b) ==
  IF a <= 0 THEN b ELSE IF b <= 0 THEN a ELSE MinOf(a, b)

HeldSeats == SeatLimit(terms.plan, terms.quantity)
HeldActivations == ActivationLimit(terms.plan, terms.quantity)

Joined == {e \in Members : seats[e].state = "joined"}
Live == {e \in Members : seats[e].state \in {"pending", "joined"}}

\* memberSeatsSQL counts invites too; the owner has no row.
People == Cardinality(Live) + 1

HeldDevices == {d \in Devices : acts[d].held}

\* MUTANT: equal times are not told apart.
JoinedBefore_ByTimeAlone(o, e) == seats[o].at < seats[e].at

\* (o.accepted_at, o.id) < (s.accepted_at, s.id)
JoinedBefore(o, e) ==
  \/ seats[o].at < seats[e].at
  \/ seats[o].at = seats[e].at /\ o < e

\* seatPausedSQL: the members who joined last wait for a place.
Paused(e) ==
  /\ e \in Joined
  /\ HeldSeats > 0
  /\ Cardinality({o \in Joined : JoinedBefore(o, e)}) >= HeldSeats - 1

-----------------------------------------------------------------------------
(***************************************************************************)
(* Keys                                                                    *)
(***************************************************************************)
KeyOf(s) == IF s = Owner THEN licenseKey ELSE seats[s].key

\* FindLicenseByKey: the key of holder s is found.
Opens(s) == s = Owner \/ (s \in Joined /\ seats[s].key # NoKey /\ hasSeats)

\* MUTANT: the key is not read again under the lock.
KeyHeld_NotReread(s, k) == standing \in {"usable", "lapsed"}

\* MUTANT: a paused member passes.
KeyHeld_EvenPaused(s, k) ==
  /\ standing \in {"usable", "lapsed"}
  /\ IF s = Owner THEN k = licenseKey
     ELSE /\ s \in Joined
          /\ seats[s].key = k
          /\ hasSeats

\* keyHeldIn: k still opens the licence the way the request found it, read
\* under the licence lock.
KeyHeld(s, k) ==
  /\ standing \in {"usable", "lapsed"}
  /\ IF s = Owner THEN k = licenseKey
     ELSE /\ s \in Joined
          /\ seats[s].key = k
          /\ hasSeats
          /\ ~Paused(s)

\* DELETE FROM activations WHERE seat_id = s
WithoutDevicesOf(s) ==
  [d \in Devices |-> IF acts[d].held /\ acts[d].seat = s THEN Free ELSE acts[d]]

-----------------------------------------------------------------------------
Init ==
  /\ licenseKey = 1
  /\ serial = 1
  /\ standing = "usable"
  /\ terms \in [plan : Plans, quantity : Quantities]
  /\ hasSeats = TRUE
  /\ seats = [e \in Members |-> NoSeat]
  /\ \E legacy \in SUBSET Devices :
       acts = [d \in Devices |->
                 IF d \in legacy
                 THEN [held |-> TRUE, seat |-> Owner, key |-> licenseKey, predates |-> TRUE]
                 ELSE Free]
  /\ opening = NoUpgrade
  /\ upgrade = NoUpgrade
  /\ reqs = [r \in Requests |-> Idle]

-----------------------------------------------------------------------------
(***************************************************************************)
(* Devices                                                                 *)
(***************************************************************************)

\* LicenseService.Activate up to the transaction: the key of s is looked up,
\* the licence found usable, its limit read.  A device the key already holds
\* (any device, for the licence's own key) is answered at once.
LoadActivate(r, s, d) ==
  /\ reqs[r] = Idle
  /\ Opens(s)
  /\ standing = "usable"
  /\ s = Owner \/ ~Paused(s)
  /\ ~(acts[d].held /\ (s = Owner \/ acts[d].seat = s))
  /\ reqs' = [reqs EXCEPT ![r] = [Idle EXCEPT !.op = "activate", !.seat = s,
                !.key = KeyOf(s), !.device = d, !.max = HeldActivations]]
  /\ UNCHANGED <<licenseKey, serial, standing, terms, hasSeats, seats, acts, opening, upgrade>>

\* The row activateWithinLimit leaves for request q's device d: a new one
\* within the stricter of the two limits, or one from before members' keys
\* moved to the member; else as it was (refused, or already activated).
Activated_CallersLimit(q, d) ==
  CASE ~acts[d].held /\ Cardinality(HeldDevices) < q.max ->
         [held |-> TRUE, seat |-> q.seat, key |-> q.key, predates |-> FALSE]
    [] acts[d].held /\ q.seat # Owner /\ acts[d].seat = Owner /\ acts[d].predates ->
         [held |-> TRUE, seat |-> q.seat, key |-> q.key, predates |-> FALSE]
    [] OTHER -> acts[d]

Activated(q, d) ==
  CASE ~acts[d].held /\ Cardinality(HeldDevices) < MinOf(q.max, HeldActivations) ->
         [held |-> TRUE, seat |-> q.seat, key |-> q.key, predates |-> FALSE]
    [] acts[d].held /\ q.seat # Owner /\ acts[d].seat = Owner /\ acts[d].predates ->
         [held |-> TRUE, seat |-> q.seat, key |-> q.key, predates |-> FALSE]
    [] OTHER -> acts[d]

\* Store.ActivateForKey
CommitActivate(r) ==
  LET q == reqs[r] IN
  /\ q.op = "activate"
  /\ acts' = IF KeyHeld(q.seat, q.key)
             THEN [acts EXCEPT ![q.device] = Activated(q, q.device)]
             ELSE acts
  /\ reqs' = [reqs EXCEPT ![r] = Idle]
  /\ UNCHANGED <<licenseKey, serial, standing, terms, hasSeats, seats, opening, upgrade>>

\* LicenseService.Deactivate: whatever the licence's standing.
Deactivate(s, d) ==
  /\ Opens(s)
  /\ acts[d].held
  /\ s = Owner \/ acts[d].seat = s
  /\ acts' = [acts EXCEPT ![d] = Free]
  /\ UNCHANGED <<licenseKey, serial, standing, terms, hasSeats, seats, opening, upgrade, reqs>>

\* DeleteExpiredActivations, from the hourly sweep.
DeleteExpiredActivations ==
  /\ standing \in {"expired", "revoked"}
  /\ acts' = [d \in Devices |-> Free]
  /\ UNCHANGED <<licenseKey, serial, standing, terms, hasSeats, seats, opening, upgrade, reqs>>

-----------------------------------------------------------------------------
(***************************************************************************)
(* Members' keys                                                           *)
(***************************************************************************)

\* Store.MemberKey, the first time the member's page asks for it: one
\* conditional UPDATE, which takes no licence lock.
MintMemberKey(e) ==
  /\ serial < MaxSerial
  /\ e \in Joined
  /\ seats[e].key = NoKey
  /\ serial' = serial + 1
  /\ seats' = [seats EXCEPT ![e].key = serial + 1]
  /\ UNCHANGED <<licenseKey, standing, terms, hasSeats, acts, opening, upgrade, reqs>>

RotateMemberKey(e) ==
  /\ serial < MaxSerial
  /\ e \in Joined
  /\ serial' = serial + 1
  /\ seats' = [seats EXCEPT ![e].key = serial + 1]
  /\ acts' = WithoutDevicesOf(e)
  /\ UNCHANGED <<licenseKey, standing, terms, hasSeats, opening, upgrade, reqs>>

RotateLicenseKey ==
  /\ serial < MaxSerial
  /\ serial' = serial + 1
  /\ licenseKey' = serial + 1
  /\ acts' = WithoutDevicesOf(Owner)
  /\ UNCHANGED <<standing, terms, hasSeats, seats, opening, upgrade, reqs>>

-----------------------------------------------------------------------------
(***************************************************************************)
(* The team                                                                *)
(***************************************************************************)

\* SeatService.AddSeat up to the transaction.
LoadInvite(r, e) ==
  /\ reqs[r] = Idle
  /\ standing = "usable"
  /\ hasSeats
  /\ reqs' = [reqs EXCEPT ![r] = [Idle EXCEPT !.op = "invite", !.seat = e, !.max = HeldSeats]]
  /\ UNCHANGED <<licenseKey, serial, standing, terms, hasSeats, seats, acts, opening, upgrade>>

\* The checks AddSeatWithinLimit makes before someone new joins: no open
\* checkout for a plan sold per seat, and room under the seat limit and
\* under the limit of the plan being upgraded to.
MayJoin(max) ==
  /\ ~(upgrade.open /\ upgrade.plan.perSeat)
  /\ max > 0 => People < max
  /\ (upgrade.open /\ upgrade.plan.maxSeats > 0) => People < upgrade.plan.maxSeats

\* MUTANT: an invite does not take the upgrade lock.
UpgradeLockFree_NotTaken == TRUE

\* pg_advisory_xact_lock_shared(UpgradeLockKey): waits while an upgrade
\* checkout is being opened.
UpgradeLockFree == ~opening.open

\* Store.AddSeatWithinLimit: existed, resent, restored or created, or
\* refused.
CommitInvite(r) ==
  LET q == reqs[r]
      e == q.seat
      max == StricterSeatLimit(q.max, HeldSeats)
  IN
  /\ q.op = "invite"
  /\ UpgradeLockFree
  /\ \/ /\ seats[e].state = "joined"
        /\ UNCHANGED <<seats, acts>>
     \/ /\ seats[e].state = "pending"
        /\ seats' = [seats EXCEPT ![e].token = TRUE]
        /\ acts' = acts
     \/ /\ seats[e].state \in {"none", "removed"}
        /\ MayJoin(max)
        /\ seats' = [seats EXCEPT ![e] = [@ EXCEPT !.state = "pending", !.token = TRUE,
                                                   !.key = NoKey, !.at = 0]]
        /\ acts' = WithoutDevicesOf(e)
     \/ /\ seats[e].state \in {"none", "removed"}
        /\ ~MayJoin(max)
        /\ UNCHANGED <<seats, acts>>
  /\ reqs' = [reqs EXCEPT ![r] = Idle]
  /\ UNCHANGED <<licenseKey, serial, standing, terms, hasSeats, opening, upgrade>>

\* MUTANT: the owner is not counted.
PlaceFree_ByInvites == HeldSeats > 0 => Cardinality(Joined) < HeldSeats

\* Joining needs a free place: the members joined, and the owner.
PlaceFree == HeldSeats > 0 => Cardinality(Joined) + 1 < HeldSeats

\* MUTANT: a key left on the seat stays.
AcceptSeatInvite_KeepsKey(r, e, at) ==
  /\ reqs[r] = Idle
  /\ serial < MaxSerial
  /\ seats[e].state = "pending"
  /\ seats[e].token
  /\ PlaceFree
  /\ serial' = serial + 1
  /\ seats' = [seats EXCEPT ![e] = [state |-> "joined", token |-> FALSE, key |-> seats[e].key,
                                    at |-> at, join |-> serial + 1]]
  /\ reqs' = [reqs EXCEPT ![r] = [Idle EXCEPT !.op = "accepted", !.seat = e, !.join = serial + 1]]
  /\ UNCHANGED <<licenseKey, standing, terms, hasSeats, acts, opening, upgrade>>

\* Store.AcceptSeatInvite, the transaction; the service's check follows.
AcceptSeatInvite(r, e, at) ==
  /\ reqs[r] = Idle
  /\ serial < MaxSerial
  /\ seats[e].state = "pending"
  /\ seats[e].token
  /\ PlaceFree
  /\ serial' = serial + 1
  /\ seats' = [seats EXCEPT ![e] = [state |-> "joined", token |-> FALSE, key |-> NoKey,
                                    at |-> at, join |-> serial + 1]]
  /\ reqs' = [reqs EXCEPT ![r] = [Idle EXCEPT !.op = "accepted", !.seat = e, !.join = serial + 1]]
  /\ UNCHANGED <<licenseKey, standing, terms, hasSeats, acts, opening, upgrade>>

\* SeatService.AcceptSeatInvite reads the licence again, after the commit.
CheckAccept(r) ==
  /\ reqs[r].op = "accepted"
  /\ reqs' = [reqs EXCEPT ![r] = IF standing = "usable" THEN Idle ELSE [@ EXCEPT !.op = "doomed"]]
  /\ UNCHANGED <<licenseKey, serial, standing, terms, hasSeats, seats, acts, opening, upgrade>>

\* Store.RollbackSeatAccept, by the seat's id.
RollbackSeatAccept(r) ==
  LET e == reqs[r].seat
      state == IF seats[e].state = "joined" THEN "pending" ELSE seats[e].state
  IN
  /\ reqs[r].op = "doomed"
  /\ seats' = [seats EXCEPT ![e] = [@ EXCEPT !.state = state, !.key = NoKey, !.at = 0]]
  /\ acts' = WithoutDevicesOf(e)
  /\ reqs' = [reqs EXCEPT ![r] = Idle]
  /\ UNCHANGED <<licenseKey, serial, standing, terms, hasSeats, opening, upgrade>>

\* MUTANT: the devices stay behind.
RemoveSeat_KeepsDevices(e) ==
  /\ seats[e].state # "none"
  /\ seats' = [seats EXCEPT ![e] = [@ EXCEPT !.state = "removed", !.key = NoKey]]
  /\ UNCHANGED <<licenseKey, serial, standing, terms, hasSeats, acts, opening, upgrade, reqs>>

\* Store.RemoveSeat, for the owner or an admin, whatever the standing.
RemoveSeat(e) ==
  /\ seats[e].state # "none"
  /\ seats' = [seats EXCEPT ![e] = [@ EXCEPT !.state = "removed", !.key = NoKey]]
  /\ acts' = WithoutDevicesOf(e)
  /\ UNCHANGED <<licenseKey, serial, standing, terms, hasSeats, opening, upgrade, reqs>>

\* The server stops, or the request's context ends, between two steps.
Crash(r) ==
  /\ reqs[r] # Idle
  /\ reqs' = [reqs EXCEPT ![r] = Idle]
  /\ UNCHANGED <<licenseKey, serial, standing, terms, hasSeats, seats, acts, opening, upgrade>>

-----------------------------------------------------------------------------
(***************************************************************************)
(* A replica of the version before members had keys, still running during *)
(* a rolling upgrade: it removes a seat by its date alone, and invites it  *)
(* back without clearing anything.  The sweep of this version repairs it.  *)
(***************************************************************************)
OlderRemoveSeat(e) ==
  /\ OlderReplica
  /\ e \in Live
  /\ seats' = [seats EXCEPT ![e].state = "removed"]
  /\ UNCHANGED <<licenseKey, serial, standing, terms, hasSeats, acts, opening, upgrade, reqs>>

OlderReinvite(e) ==
  /\ OlderReplica
  /\ seats[e].state = "removed"
  /\ seats' = [seats EXCEPT ![e] = [@ EXCEPT !.state = "pending", !.token = TRUE, !.at = 0]]
  /\ UNCHANGED <<licenseKey, serial, standing, terms, hasSeats, acts, opening, upgrade, reqs>>

OffTeam(e) == seats[e].state \in {"none", "pending", "removed"}

\* FindSeatLeftovers: what a seat off the team still holds.
HoldsAnything(e) ==
  \/ seats[e].key # NoKey
  \/ \E d \in Devices : acts[d].held /\ acts[d].seat = e

\* MUTANT: only seats still removed are looked at.
ClearSeatLeftovers_RemovedOnly(e) ==
  /\ seats[e].state = "removed"
  /\ HoldsAnything(e)
  /\ seats' = [seats EXCEPT ![e].key = NoKey]
  /\ acts' = WithoutDevicesOf(e)
  /\ UNCHANGED <<licenseKey, serial, standing, terms, hasSeats, opening, upgrade, reqs>>

\* ExpiryChecker.FinishSeatRemovals: one seat found, one ClearSeatLeftovers.
ClearSeatLeftovers(e) ==
  /\ OffTeam(e)
  /\ HoldsAnything(e)
  /\ seats' = [seats EXCEPT ![e].key = NoKey]
  /\ acts' = WithoutDevicesOf(e)
  /\ UNCHANGED <<licenseKey, serial, standing, terms, hasSeats, opening, upgrade, reqs>>

-----------------------------------------------------------------------------
(***************************************************************************)
(* The licence's terms                                                     *)
(***************************************************************************)

\* A read of the Stripe subscription sets whatever it is paid for.
ReadTerms(t) ==
  /\ t # terms
  /\ terms' = t
  /\ UNCHANGED <<licenseKey, serial, standing, hasSeats, seats, acts, opening, upgrade, reqs>>

\* Store.SetLicenseQuantity: lowered only to what is in use.
SetLicenseQuantity(q) ==
  LET p == terms.plan IN
  /\ p.perSeat
  /\ q \in p.minQuantity .. p.maxQuantity
  /\ q < terms.quantity =>
       /\ People <= q
       /\ p.maxActivations * q > 0 => Cardinality(HeldDevices) <= p.maxActivations * q
  /\ terms' = [terms EXCEPT !.quantity = q]
  /\ UNCHANGED <<licenseKey, serial, standing, hasSeats, seats, acts, opening, upgrade, reqs>>

\* StartUpgrade up to the checkout: the people are counted under
\* UpgradeLockKey, which is kept until the upgrade row commits.
BeginUpgrade(p) ==
  LET limit == SeatLimit(p, p.maxQuantity) IN
  /\ ~opening.open
  /\ terms.plan.free
  /\ ~p.free
  /\ standing \in {"usable", "lapsed", "expired"}
  /\ limit > 0 => People <= limit
  /\ opening' = [open |-> TRUE, plan |-> p,
                 seats |-> IF p.perSeat THEN MaxOf(People, p.minQuantity) ELSE 0]
  /\ UNCHANGED <<licenseKey, serial, standing, terms, hasSeats, seats, acts, upgrade, reqs>>

\* The checkout is created, the one before it closed, the row committed.
OpenUpgrade ==
  /\ opening.open
  /\ upgrade' = opening
  /\ opening' = NoUpgrade
  /\ UNCHANGED <<licenseKey, serial, standing, terms, hasSeats, seats, acts, reqs>>

\* Stripe fails, or the server stops: the transaction is rolled back.
AbortUpgrade ==
  /\ opening.open
  /\ opening' = NoUpgrade
  /\ UNCHANGED <<licenseKey, serial, standing, terms, hasSeats, seats, acts, upgrade, reqs>>

\* The checkout is abandoned: it expires, and the hold on invites with it.
LapseUpgrade ==
  /\ upgrade.open
  /\ upgrade' = NoUpgrade
  /\ UNCHANGED <<licenseKey, serial, standing, terms, hasSeats, seats, acts, opening, reqs>>

\* The checkout is paid, for the seats it was opened for or more; the row
\* is locked, so it waits for a checkout being opened in its place.
FulfillUpgrade(q) ==
  /\ upgrade.open
  /\ ~opening.open
  /\ IF upgrade.plan.perSeat THEN q \in upgrade.seats .. upgrade.plan.maxQuantity ELSE q = 1
  /\ terms' = [plan |-> upgrade.plan, quantity |-> q]
  /\ upgrade' = NoUpgrade
  /\ UNCHANGED <<licenseKey, serial, standing, hasSeats, seats, acts, opening, reqs>>

-----------------------------------------------------------------------------
(***************************************************************************)
(* The licence's status and the product's type                             *)
(***************************************************************************)
StandingTo(s) ==
  /\ standing' = s
  /\ UNCHANGED <<licenseKey, serial, terms, hasSeats, seats, opening, upgrade, reqs>>

\* Time passes the end of the grace period; no sweep has run yet.
Lapse == standing = "usable" /\ StandingTo("lapsed") /\ acts' = acts

\* ExpireLicenseAfterGrace
Expire == standing = "lapsed" /\ StandingTo("expired") /\ acts' = acts

SuspendLicense == standing \in {"usable", "lapsed"} /\ StandingTo("suspended") /\ acts' = acts

\* A suspended licence whatever its date; an expired one gets a new date
\* first (SetLicenseValidUntil).
ReinstateLicense == standing = "suspended" /\ acts' = acts /\ \E s \in {"usable", "lapsed"} : StandingTo(s)

SetLicenseValidUntil == standing \in {"lapsed", "expired"} /\ StandingTo("usable") /\ acts' = acts

RevokeLicense == standing # "revoked" /\ StandingTo("revoked") /\ acts' = [d \in Devices |-> Free]

\* UpdateProduct: the type loses its seats only while no plan of the product
\* has a seat limit of its own.
SetProductType ==
  /\ hasSeats => \A p \in Plans : p.maxSeats = 0 \/ p.perSeat
  /\ hasSeats' = ~hasSeats
  /\ UNCHANGED <<licenseKey, serial, standing, terms, seats, acts, opening, upgrade, reqs>>

-----------------------------------------------------------------------------
DeviceNext ==
  \/ \E r \in Requests, s \in Members \cup {Owner}, d \in Devices : LoadActivate(r, s, d)
  \/ \E r \in Requests : CommitActivate(r)
  \/ \E s \in Members \cup {Owner}, d \in Devices : Deactivate(s, d)
  \/ DeleteExpiredActivations

TeamNext ==
  \/ \E e \in Members : MintMemberKey(e)
  \/ \E e \in Members : RotateMemberKey(e)
  \/ RotateLicenseKey
  \/ \E r \in Requests, e \in Members : LoadInvite(r, e)
  \/ \E r \in Requests : CommitInvite(r)
  \/ \E r \in Requests, e \in Members, at \in Stamps : AcceptSeatInvite(r, e, at)
  \/ \E r \in Requests : CheckAccept(r)
  \/ \E r \in Requests : RollbackSeatAccept(r)
  \/ \E e \in Members : RemoveSeat(e)
  \/ \E r \in Requests : Crash(r)

OlderNext ==
  \/ \E e \in Members : OlderRemoveSeat(e)
  \/ \E e \in Members : OlderReinvite(e)
  \/ \E e \in Members : ClearSeatLeftovers(e)

TermsNext ==
  \/ \E t \in [plan : Plans, quantity : Quantities] : ReadTerms(t)
  \/ \E q \in Quantities : SetLicenseQuantity(q)
  \/ \E p \in Plans : BeginUpgrade(p)
  \/ OpenUpgrade
  \/ AbortUpgrade
  \/ LapseUpgrade
  \/ \E q \in Quantities : FulfillUpgrade(q)

StandingNext ==
  \/ Lapse
  \/ Expire
  \/ SuspendLicense
  \/ ReinstateLicense
  \/ SetLicenseValidUntil
  \/ RevokeLicense
  \/ SetProductType

Next == DeviceNext \/ TeamNext \/ OlderNext \/ TermsNext \/ StandingNext

Spec == Init /\ [][Next]_vars

-----------------------------------------------------------------------------
(***************************************************************************)
(* Properties                                                              *)
(***************************************************************************)
TypeOK ==
  /\ licenseKey \in Nat
  /\ serial \in Nat
  /\ standing \in Standings
  /\ terms \in [plan : Plans, quantity : Nat]
  /\ hasSeats \in BOOLEAN
  /\ seats \in [Members -> SeatType]
  /\ acts \in [Devices -> ActType]
  /\ opening \in UpgradeType
  /\ upgrade \in UpgradeType
  /\ reqs \in [Requests -> ReqType]

\* "No device is left on a key that no longer works" (ActivateForKey): the
\* holder of every activated device is still on the team, or the owner, and
\* the key that activated it is the key they hold now, however an activation
\* that read the key before a rotation, a removal or a rolled-back accept is
\* interleaved with it.
DevicesOnLiveKeys ==
  ~OlderReplica =>
    \A d \in Devices : acts[d].held =>
      /\ acts[d].key = KeyOf(acts[d].seat)
      /\ acts[d].seat # Owner => acts[d].seat \in Joined

\* "This version never leaves any on such a seat" (FindSeatLeftovers):
\* without an older replica, a seat off the team holds no key and no device,
\* so the sweep has nothing to find.
NoLeftovers == ~OlderReplica => \A e \in Members : OffTeam(e) => ~HoldsAnything(e)

\* A member's key was made in their present time on the team: coming back
\* never brings an old key back to life, even one an older replica left.
KeyFromThisJoin == \A e \in Joined : seats[e].key # NoKey => seats[e].key > seats[e].join

\* seatPausedSQL gives out every place and no more: with the limit n, exactly
\* the first n - 1 members work, whatever the servers' clocks said.
PlacesFilled ==
  HeldSeats > 0 =>
    Cardinality({e \in Joined : ~Paused(e)}) = MinOf(Cardinality(Joined), HeldSeats - 1)

\* An upgrade checkout never leaves the team over its limit from the first
\* day: from the count on, the people fit the seats being paid for, or the
\* limit of the plan, until it is paid or closed.
TeamFits(u) ==
  u.open => /\ u.plan.perSeat => People <= u.seats
            /\ (~u.plan.perSeat /\ u.plan.maxSeats > 0) => People <= u.plan.maxSeats
UpgradeHoldsTeam == ~OlderReplica => TeamFits(opening) /\ TeamFits(upgrade)

\* A slot is never taken past the limit the licence has when it is taken,
\* though the request read an older limit: not a device, not an invite.
NoSlotPastLimit ==
  [][/\ Cardinality(HeldDevices)' > Cardinality(HeldDevices) =>
          Cardinality(HeldDevices)' <= HeldActivations
     /\ (People' > People /\ ~OlderReplica /\ HeldSeats > 0) => People' <= HeldSeats]_vars

\* "A revoke, suspend, expiry or end of subscription that committed in
\* between must not be followed by a new device" (keyHeldIn): a device is
\* taken, or changes hands, only while the licence is not stopped, and to a
\* member only while their key opens the licence and they are not paused.
NewDeviceOnWorkingKey ==
  [][\A d \in Devices :
       (acts'[d].held /\ (~acts[d].held \/ acts'[d].seat # acts[d].seat)) =>
         /\ standing \in {"usable", "lapsed"}
         /\ Opens(acts'[d].seat)
         /\ ~Paused(acts'[d].seat)]_vars

\* Accepting an invite pauses nobody, the new member included, even when the
\* server that accepts it has a clock behind the others'.
JoinPausesNobody ==
  [][\A e \in Members :
       (seats[e].state # "joined" /\ seats'[e].state = "joined") =>
         \A m \in Members : ~Paused(m)']_vars
=============================================================================
