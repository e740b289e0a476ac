-------------------------- MODULE BackgroundProofs --------------------------
(***************************************************************************)
(* Proofs about Background: a team, for any number of members, devices,    *)
(* requests, plans and quantities, and then metered billing and webhook    *)
(* deliveries, for any number of calls, passes, senders and faults.        *)
(***************************************************************************)
EXTENDS Background, FiniteSetTheorems, FunctionTheorems, SequenceTheorems, WellFoundedInduction, TLAPS

-----------------------------------------------------------------------------
(***************************************************************************)
(* Team                                                                    *)
(*                                                                         *)
(* First the types of its helpers.                                         *)
(***************************************************************************)

\* The product of two naturals is one: the device limit of a plan sold per
\* seat multiplies.
LEMMA ProductNat == ASSUME NEW a \in Nat, NEW b \in Nat PROVE a * b \in Nat
  OBVIOUS

\* The limits Plan.Limits gives are naturals.
LEMMA LimitsNat ==
  ASSUME NEW p \in PlanType, NEW q \in Nat
  PROVE  SeatLimit(p, q) \in Nat /\ ActivationLimit(p, q) \in Nat
<1>1. MaxOf(q, 1) \in Nat
  BY DEF MaxOf
<1>2. p.maxActivations \in Nat /\ p.maxSeats \in Nat
  BY DEF PlanType
<1>3. p.maxActivations * MaxOf(q, 1) \in Nat
  BY <1>1, <1>2, ProductNat
<1> QED
  BY <1>1, <1>2, <1>3 DEF SeatLimit, ActivationLimit

\* A count of people is a natural.
LEMMA PeopleNat == People \in Nat
<1>1. Live \subseteq Members
  BY DEF Live
<1>2. Cardinality(Live) \in Nat
  BY <1>1, TeamAssumption, FS_Subset, FS_CardinalityType
<1> QED
  BY <1>2 DEF People

\* The constant rows have their types.
LEMMA ConstantRows ==
  /\ NoSeat \in SeatType
  /\ Free \in ActType
  /\ NoUpgrade \in UpgradeType
  /\ Idle \in ReqType
<1>1. (CHOOSE p \in Plans : TRUE) \in Plans
  BY TeamAssumption
<1> QED
  BY <1>1 DEF NoSeat, SeatType, Free, ActType, NoUpgrade, UpgradeType, Idle, ReqType, NoKey, Owner

\* Deleting the devices of a seat leaves activation rows.
LEMMA WithoutDevicesType ==
  ASSUME TypeOK, NEW s
  PROVE  WithoutDevicesOf(s) \in [Devices -> ActType]
  BY ConstantRows DEF TypeOK, WithoutDevicesOf

\* What the licence holds now, as the requests read it.
LEMMA HeldNat == TypeOK => HeldSeats \in Nat /\ HeldActivations \in Nat
  BY LimitsNat, TeamAssumption DEF TypeOK, HeldSeats, HeldActivations

-----------------------------------------------------------------------------
(***************************************************************************)
(* Type correctness                                                        *)
(***************************************************************************)
LEMMA TypeInit == Init => TypeOK
<1> SUFFICES ASSUME Init PROVE TypeOK
  OBVIOUS
<1>1. acts \in [Devices -> ActType]
  <2>1. PICK legacy \in SUBSET Devices :
          acts = [d \in Devices |->
                    IF d \in legacy
                    THEN [held |-> TRUE, seat |-> Owner, key |-> licenseKey, predates |-> TRUE]
                    ELSE Free]
    BY DEF Init
  <2>2. [held |-> TRUE, seat |-> Owner, key |-> licenseKey, predates |-> TRUE] \in ActType
    BY DEF Init, ActType
  <2> QED
    BY <2>1, <2>2, ConstantRows
<1>2. seats \in [Members -> SeatType] /\ reqs \in [Requests -> ReqType]
  BY ConstantRows DEF Init
<1>3. terms \in [plan : Plans, quantity : Nat]
  BY TeamAssumption DEF Init
<1> QED
  BY <1>1, <1>2, <1>3, ConstantRows DEF Init, TypeOK, Standings

\* The request an accept leaves for its check.
LEMMA AcceptedReq ==
  ASSUME NEW e \in Members, NEW n \in Nat
  PROVE  [Idle EXCEPT !.op = "accepted", !.seat = e, !.join = n] \in ReqType
  BY DEF Idle, ReqType, Owner, NoKey

\* Every step keeps the types.
LEMMA TypeStep == TypeOK /\ [Next]_vars => TypeOK'
<1> SUFFICES ASSUME TypeOK, [Next]_vars PROVE TypeOK'
  OBVIOUS
<1>1. ASSUME NEW r \in Requests, NEW s \in Members \cup {Owner}, NEW d \in Devices, LoadActivate(r, s, d) PROVE TypeOK'
  BY <1>1, HeldNat, ConstantRows DEF TypeOK, LoadActivate, Opens, KeyOf, Joined, ReqType, SeatType
<1>2. ASSUME NEW r \in Requests, CommitActivate(r) PROVE TypeOK'
  BY <1>2, ConstantRows DEF TypeOK, CommitActivate, Activated, ActType, ReqType
<1>3. ASSUME NEW s \in Members \cup {Owner}, NEW d \in Devices, Deactivate(s, d) PROVE TypeOK'
  BY <1>3, ConstantRows DEF TypeOK, Deactivate
<1>4. ASSUME DeleteExpiredActivations PROVE TypeOK'
  BY <1>4, ConstantRows DEF TypeOK, DeleteExpiredActivations
<1>5. ASSUME NEW e \in Members, MintMemberKey(e) PROVE TypeOK'
  BY <1>5 DEF TypeOK, MintMemberKey, SeatType
<1>6. ASSUME NEW e \in Members, RotateMemberKey(e) PROVE TypeOK'
  BY <1>6, WithoutDevicesType DEF TypeOK, RotateMemberKey, SeatType
<1>7. ASSUME RotateLicenseKey PROVE TypeOK'
  BY <1>7, WithoutDevicesType DEF TypeOK, RotateLicenseKey
<1>8. ASSUME NEW r \in Requests, NEW e \in Members, LoadInvite(r, e) PROVE TypeOK'
  BY <1>8, HeldNat, ConstantRows DEF TypeOK, LoadInvite, ReqType
<1>9. ASSUME NEW r \in Requests, CommitInvite(r) PROVE TypeOK'
  <2>1. reqs' \in [Requests -> ReqType]
    BY <1>9, ConstantRows DEF CommitInvite, TypeOK
  <2>2. seats' \in [Members -> SeatType]
    <3> DEFINE e == reqs[r].seat
    <3>1. CASE UNCHANGED seats
      BY <3>1 DEF TypeOK
    <3>2. CASE seats' = [seats EXCEPT ![e].token = TRUE]
      BY <3>2 DEF TypeOK, SeatType
    <3>3. CASE seats' = [seats EXCEPT ![e] = [@ EXCEPT !.state = "pending", !.token = TRUE,
                                                       !.key = NoKey, !.at = 0]]
      BY <3>3 DEF TypeOK, SeatType, NoKey
    <3> QED
      BY <1>9, <3>1, <3>2, <3>3 DEF CommitInvite
  <2>3. acts' \in [Devices -> ActType]
    BY <1>9, WithoutDevicesType DEF CommitInvite, TypeOK
  <2> QED
    BY <1>9, <2>1, <2>2, <2>3 DEF CommitInvite, TypeOK
<1>10. ASSUME NEW r \in Requests, NEW e \in Members, NEW at \in Stamps, AcceptSeatInvite(r, e, at) PROVE TypeOK'
  <2>1. [state |-> "joined", token |-> FALSE, key |-> NoKey, at |-> at, join |-> serial + 1] \in SeatType
    BY TeamAssumption DEF TypeOK, SeatType, NoKey
  <2>2. [Idle EXCEPT !.op = "accepted", !.seat = e, !.join = serial + 1] \in ReqType
    <3>1. serial + 1 \in Nat
      BY DEF TypeOK
    <3> QED
      BY <3>1, AcceptedReq
  <2>3. seats' \in [Members -> SeatType]
    <3> DEFINE seat == [state |-> "joined", token |-> FALSE, key |-> NoKey, at |-> at, join |-> serial + 1]
    <3>1. seats' = [seats EXCEPT ![e] = seat]
      BY <1>10 DEF AcceptSeatInvite
    <3>2. seat \in SeatType
      BY <2>1
    <3> HIDE DEF seat
    <3> QED
      BY <3>1, <3>2 DEF TypeOK
  <2>4. reqs' \in [Requests -> ReqType]
    <3> DEFINE req == [Idle EXCEPT !.op = "accepted", !.seat = e, !.join = serial + 1]
    <3>1. reqs' = [reqs EXCEPT ![r] = req]
      BY <1>10 DEF AcceptSeatInvite
    <3>2. req \in ReqType
      BY <2>2
    <3> HIDE DEF req
    <3> QED
      BY <3>1, <3>2 DEF TypeOK
  <2> QED
    BY <1>10, <2>3, <2>4 DEF TypeOK, AcceptSeatInvite
<1>11. ASSUME NEW r \in Requests, CheckAccept(r) PROVE TypeOK'
  BY <1>11, ConstantRows DEF TypeOK, CheckAccept, ReqType
<1>12. ASSUME NEW r \in Requests, RollbackSeatAccept(r) PROVE TypeOK'
  <2>1. seats' \in [Members -> SeatType]
    <3> DEFINE e == reqs[r].seat
               st == IF seats[e].state = "joined" THEN "pending" ELSE seats[e].state
               seat == [seats[e] EXCEPT !.state = st, !.key = NoKey, !.at = 0]
    <3>1. seats' = [seats EXCEPT ![e] = seat]
      BY <1>12 DEF RollbackSeatAccept
    <3>2. e \in Members => seat \in SeatType
      <4> SUFFICES ASSUME e \in Members PROVE seat \in SeatType
        OBVIOUS
      <4>1. seats[e] \in SeatType
        BY DEF TypeOK
      <4>2. st \in {"none", "pending", "joined", "removed"}
        BY <4>1 DEF SeatType
      <4> HIDE DEF st, e
      <4> QED
        BY <4>1, <4>2 DEF SeatType, NoKey
    <3> HIDE DEF seat
    <3> QED
      BY <3>1, <3>2 DEF TypeOK
  <2> QED
    BY <1>12, <2>1, ConstantRows, WithoutDevicesType DEF RollbackSeatAccept, TypeOK
<1>13. ASSUME NEW e \in Members, RemoveSeat(e) PROVE TypeOK'
  BY <1>13, WithoutDevicesType DEF TypeOK, RemoveSeat, SeatType, NoKey
<1>14. ASSUME NEW r \in Requests, Crash(r) PROVE TypeOK'
  BY <1>14, ConstantRows DEF TypeOK, Crash
<1>15. ASSUME NEW e \in Members, OlderRemoveSeat(e) PROVE TypeOK'
  BY <1>15 DEF TypeOK, OlderRemoveSeat, SeatType
<1>16. ASSUME NEW e \in Members, OlderReinvite(e) PROVE TypeOK'
  BY <1>16 DEF TypeOK, OlderReinvite, SeatType
<1>17. ASSUME NEW e \in Members, ClearSeatLeftovers(e) PROVE TypeOK'
  BY <1>17, WithoutDevicesType DEF TypeOK, ClearSeatLeftovers, SeatType, NoKey
<1>18. ASSUME NEW t \in [plan : Plans, quantity : Quantities], ReadTerms(t) PROVE TypeOK'
  BY <1>18, TeamAssumption DEF TypeOK, ReadTerms
<1>19. ASSUME NEW q \in Quantities, SetLicenseQuantity(q) PROVE TypeOK'
  BY <1>19, TeamAssumption DEF TypeOK, SetLicenseQuantity
<1>20. ASSUME NEW p \in Plans, BeginUpgrade(p) PROVE TypeOK'
  <2>1. p.minQuantity \in Nat /\ p.perSeat \in BOOLEAN
    BY TeamAssumption DEF PlanType
  <2>2. MaxOf(People, p.minQuantity) \in Nat
    BY <2>1, PeopleNat DEF MaxOf
  <2>3. opening' \in UpgradeType
    BY <1>20, <2>1, <2>2 DEF BeginUpgrade, UpgradeType
  <2> QED
    BY <1>20, <2>3 DEF BeginUpgrade, TypeOK
<1>21. ASSUME OpenUpgrade PROVE TypeOK'
  BY <1>21, ConstantRows DEF TypeOK, OpenUpgrade
<1>22. ASSUME AbortUpgrade PROVE TypeOK'
  BY <1>22, ConstantRows DEF TypeOK, AbortUpgrade
<1>23. ASSUME LapseUpgrade PROVE TypeOK'
  BY <1>23, ConstantRows DEF TypeOK, LapseUpgrade
<1>24. ASSUME NEW q \in Quantities, FulfillUpgrade(q) PROVE TypeOK'
  BY <1>24, ConstantRows, TeamAssumption DEF TypeOK, FulfillUpgrade, UpgradeType
<1>25. ASSUME Lapse PROVE TypeOK'
  BY <1>25 DEF TypeOK, Lapse, StandingTo, Standings
<1>26. ASSUME Expire PROVE TypeOK'
  BY <1>26 DEF TypeOK, Expire, StandingTo, Standings
<1>27. ASSUME SuspendLicense PROVE TypeOK'
  BY <1>27 DEF TypeOK, SuspendLicense, StandingTo, Standings
<1>28. ASSUME ReinstateLicense PROVE TypeOK'
  BY <1>28 DEF TypeOK, ReinstateLicense, StandingTo, Standings
<1>29. ASSUME SetLicenseValidUntil PROVE TypeOK'
  BY <1>29 DEF TypeOK, SetLicenseValidUntil, StandingTo, Standings
<1>30. ASSUME RevokeLicense PROVE TypeOK'
  BY <1>30, ConstantRows DEF TypeOK, RevokeLicense, StandingTo, Standings
<1>31. ASSUME SetProductType PROVE TypeOK'
  BY <1>31 DEF TypeOK, SetProductType
<1>32. CASE UNCHANGED vars
  BY <1>32 DEF vars, TypeOK
<1> QED
  BY <1>1, <1>2, <1>3, <1>4, <1>5, <1>6, <1>7, <1>8, <1>9, <1>10, <1>11, <1>12, <1>13, <1>14, <1>15, <1>16, <1>17, <1>18, <1>19, <1>20, <1>21, <1>22, <1>23, <1>24, <1>25, <1>26, <1>27, <1>28, <1>29, <1>30, <1>31, <1>32
     DEF Next, DeviceNext, TeamNext, OlderNext, TermsNext, StandingNext

\* Every row keeps its type, whatever the members, devices, requests and
\* plans: in particular a request's limits and keys are numbers its
\* transaction can compare.
THEOREM TypeCorrect == Spec => []TypeOK
<1> QED
  BY TypeInit, TypeStep, PTL DEF Spec

-----------------------------------------------------------------------------
(***************************************************************************)
(* Keys and devices                                                        *)
(*                                                                         *)
(* DevicesOnLiveKeys is not inductive: a member's first key would strand a *)
(* device that had been activated with no key, and an accepted invite one  *)
(* that the seat held before.  So the invariant adds that requests and     *)
(* devices carry real keys, and that a seat off the team has none.         *)
(***************************************************************************)
RealKeys ==
  /\ licenseKey # NoKey
  /\ \A r \in Requests : reqs[r].op = "activate" => reqs[r].key # NoKey
  /\ \A d \in Devices : acts[d].held => acts[d].key # NoKey

OffTeamKeyless == \A e \in Members : OffTeam(e) => seats[e].key = NoKey

KeyInv == TypeOK /\ RealKeys /\ (~OlderReplica => OffTeamKeyless) /\ DevicesOnLiveKeys

\* A serial number is never the number that stands for no key.
LEMMA FreshKey == TypeOK => serial + 1 # NoKey
  BY DEF TypeOK, NoKey

\* No device is active yet.
LEMMA KeyInit == Init => KeyInv
<1> SUFFICES ASSUME Init PROVE KeyInv
  OBVIOUS
<1>1. TypeOK
  BY TypeInit
<1>2. PICK legacy \in SUBSET Devices :
        acts = [d \in Devices |->
                  IF d \in legacy
                  THEN [held |-> TRUE, seat |-> Owner, key |-> licenseKey, predates |-> TRUE]
                  ELSE Free]
  BY DEF Init
<1>3. \A d \in Devices : acts[d].held => acts[d].seat = Owner /\ acts[d].key = licenseKey
  BY <1>2 DEF Free
<1>4. licenseKey # NoKey /\ \A r \in Requests : reqs[r].op # "activate"
  BY DEF Init, NoKey, Idle
<1>5. OffTeamKeyless
  BY DEF Init, OffTeamKeyless, NoSeat
<1> QED
  BY <1>1, <1>3, <1>4, <1>5 DEF KeyInv, RealKeys, DevicesOnLiveKeys, KeyOf

\* Steps that leave the keys, the team and the devices alone, and give no
\* request a key.
LEMMA KeysUntouched ==
  ASSUME KeyInv, TypeOK', UNCHANGED <<licenseKey, seats, acts>>,
         \A r \in Requests : reqs'[r].op = "activate" => reqs'[r].key # NoKey
  PROVE  KeyInv'
  BY DEF KeyInv, RealKeys, OffTeamKeyless, OffTeam, DevicesOnLiveKeys, KeyOf, Joined


\* What is left after a seat's devices are deleted is as it was, and another
\* holder's.
LEMMA WithoutDevicesHeld ==
  ASSUME NEW s, NEW d \in Devices, WithoutDevicesOf(s)[d].held
  PROVE  WithoutDevicesOf(s)[d] = acts[d] /\ acts[d].held /\ acts[d].seat # s
  BY DEF WithoutDevicesOf, Free

\* A seat change of one member whose devices are deleted with it, and whose
\* new row has no key while off the team.
LEMMA SeatCleared ==
  ASSUME KeyInv, TypeOK', NEW e,
         UNCHANGED licenseKey,
         acts' = WithoutDevicesOf(e),
         \A m \in Members \ {e} : seats'[m] = seats[m],
         e \in Members => (OffTeam(e)' => seats'[e].key = NoKey),
         \A r \in Requests : reqs'[r].op = "activate" => reqs'[r].key # NoKey
  PROVE  KeyInv'
<1>1. \A d \in Devices : acts'[d].held => acts'[d] = acts[d] /\ acts[d].held /\ acts[d].seat # e
  BY WithoutDevicesHeld
<1>2. RealKeys'
  BY <1>1 DEF KeyInv, RealKeys
<1>3. ~OlderReplica => OffTeamKeyless'
  BY DEF KeyInv, OffTeamKeyless, OffTeam
<1>4. DevicesOnLiveKeys'
  <2> SUFFICES ASSUME ~OlderReplica, NEW d \in Devices, acts'[d].held
               PROVE  /\ acts'[d].key = KeyOf(acts[d].seat)'
                      /\ acts'[d].seat # Owner => acts'[d].seat \in Joined'
    BY DEF DevicesOnLiveKeys
  <2> DEFINE h == acts[d].seat
  <2>1. acts'[d] = acts[d] /\ acts[d].held /\ h # e
    BY <1>1
  <2>2. acts[d].key = KeyOf(h) /\ (h # Owner => h \in Joined)
    BY <2>1 DEF KeyInv, DevicesOnLiveKeys
  <2>3. h # Owner => h \in Members /\ seats'[h] = seats[h]
    BY <2>1, <2>2 DEF Joined
  <2> QED
    BY <2>1, <2>2, <2>3 DEF KeyOf, Joined
<1> QED
  BY <1>2, <1>3, <1>4 DEF KeyInv

\* Every step keeps the keys apart and the devices on live ones.
LEMMA KeyStep == KeyInv /\ [Next]_vars => KeyInv'
<1> SUFFICES ASSUME KeyInv, [Next]_vars PROVE KeyInv'
  OBVIOUS
<1>0. TypeOK /\ TypeOK'
  BY TypeStep DEF KeyInv
<1>1. ASSUME NEW r \in Requests, NEW s \in Members \cup {Owner}, NEW d \in Devices, LoadActivate(r, s, d) PROVE KeyInv'
  <2>1. KeyOf(s) # NoKey
    BY <1>1 DEF LoadActivate, Opens, KeyOf, KeyInv, RealKeys
  <2>2. \A q \in Requests : reqs'[q].op = "activate" => reqs'[q].key # NoKey
    BY <1>1, <1>0, <2>1 DEF LoadActivate, KeyInv, RealKeys, TypeOK, Idle
  <2> QED
    BY <1>1, <1>0, <2>2, KeysUntouched DEF LoadActivate
<1>2. ASSUME NEW r \in Requests, CommitActivate(r) PROVE KeyInv'
  <2> DEFINE q == reqs[r]
  <2>1. \A x \in Requests : reqs'[x].op = "activate" => reqs'[x].key # NoKey
    BY <1>2, <1>0 DEF CommitActivate, KeyInv, RealKeys, TypeOK, Idle
  <2>2. CASE ~KeyHeld(q.seat, q.key)
    BY <1>2, <1>0, <2>1, <2>2, KeysUntouched DEF CommitActivate
  <2>3. CASE KeyHeld(q.seat, q.key)
    <3>1. q.key # NoKey /\ q.key = KeyOf(q.seat) /\ (q.seat # Owner => q.seat \in Joined)
      BY <1>2, <2>3 DEF CommitActivate, KeyInv, RealKeys, KeyHeld, KeyOf
    <3>2. ASSUME NEW d \in Devices, acts'[d].held
          PROVE  \/ acts'[d] = acts[d]
                 \/ acts'[d].seat = q.seat /\ acts'[d].key = q.key
      BY <1>2, <1>0, <2>3, <3>2 DEF CommitActivate, Activated, TypeOK
    <3>3. RealKeys'
      BY <1>2, <2>1, <3>1, <3>2 DEF CommitActivate, KeyInv, RealKeys
    <3>4. DevicesOnLiveKeys'
      BY <1>2, <3>1, <3>2 DEF CommitActivate, KeyInv, DevicesOnLiveKeys, KeyOf, Joined
    <3> QED
      BY <1>2, <1>0, <3>3, <3>4 DEF CommitActivate, KeyInv, OffTeamKeyless, OffTeam
  <2> QED
    BY <2>2, <2>3
<1>3. ASSUME NEW s \in Members \cup {Owner}, NEW d \in Devices, Deactivate(s, d) PROVE KeyInv'
  <2>1. \A x \in Devices : acts'[x].held => acts'[x] = acts[x]
    BY <1>3, <1>0 DEF Deactivate, TypeOK, Free
  <2> QED
    BY <1>3, <1>0, <2>1 DEF Deactivate, KeyInv, RealKeys, OffTeamKeyless, OffTeam, DevicesOnLiveKeys, KeyOf, Joined
<1>4. ASSUME DeleteExpiredActivations PROVE KeyInv'
  <2>1. \A x \in Devices : acts'[x].held => acts'[x] = acts[x]
    BY <1>4, <1>0 DEF DeleteExpiredActivations, TypeOK, Free
  <2> QED
    BY <1>4, <1>0, <2>1 DEF DeleteExpiredActivations, KeyInv, RealKeys, OffTeamKeyless, OffTeam, DevicesOnLiveKeys, KeyOf, Joined
<1>5. ASSUME NEW e \in Members, MintMemberKey(e) PROVE KeyInv'
  <2>1. serial + 1 # NoKey
    BY <1>0, FreshKey
  <2>2. seats' = [seats EXCEPT ![e].key = serial + 1] /\ seats[e].state = "joined" /\ seats[e].key = NoKey
    BY <1>5 DEF MintMemberKey, Joined
  <2>3. \A m \in Members : seats'[m].state = seats[m].state /\ (m # e => seats'[m] = seats[m])
    BY <1>0, <2>2 DEF TypeOK, SeatType
  <2>4. \A d \in Devices : acts[d].held /\ ~OlderReplica => acts[d].seat # e
    BY <2>2, TeamAssumption DEF KeyInv, RealKeys, DevicesOnLiveKeys, KeyOf, Owner
  <2>5. RealKeys'
    BY <1>5 DEF MintMemberKey, KeyInv, RealKeys
  <2>6. ~OlderReplica => OffTeamKeyless'
    BY <2>2, <2>3 DEF KeyInv, OffTeamKeyless, OffTeam
  <2>7. DevicesOnLiveKeys'
    BY <1>5, <2>3, <2>4 DEF MintMemberKey, KeyInv, DevicesOnLiveKeys, KeyOf, Joined
  <2> QED
    BY <1>0, <2>5, <2>6, <2>7 DEF KeyInv
<1>6. ASSUME NEW e \in Members, RotateMemberKey(e) PROVE KeyInv'
  <2>1. \A m \in Members \ {e} : seats'[m] = seats[m]
    BY <1>6, <1>0 DEF RotateMemberKey, TypeOK
  <2>2. OffTeam(e)' => seats'[e].key = NoKey
    BY <1>6, <1>0 DEF RotateMemberKey, TypeOK, SeatType, OffTeam, Joined
  <2> QED
    BY <1>6, <1>0, <2>1, <2>2, SeatCleared DEF RotateMemberKey, KeyInv, RealKeys
<1>7. ASSUME RotateLicenseKey PROVE KeyInv'
  <2>1. \A d \in Devices : acts'[d].held => acts'[d] = acts[d] /\ acts[d].held /\ acts[d].seat # Owner
    BY <1>7, WithoutDevicesHeld DEF RotateLicenseKey
  <2>2. licenseKey' # NoKey
    BY <1>7, <1>0, FreshKey DEF RotateLicenseKey
  <2> QED
    BY <1>7, <1>0, <2>1, <2>2 DEF RotateLicenseKey, KeyInv, RealKeys, OffTeamKeyless, OffTeam, DevicesOnLiveKeys, KeyOf, Joined
<1>8. ASSUME NEW r \in Requests, NEW e \in Members, LoadInvite(r, e) PROVE KeyInv'
  <2>1. \A x \in Requests : reqs'[x].op = "activate" => reqs'[x].key # NoKey
    BY <1>8, <1>0 DEF LoadInvite, KeyInv, RealKeys, TypeOK, ReqType, Idle
  <2> QED
    BY <1>8, <1>0, <2>1, KeysUntouched DEF LoadInvite
<1>9. ASSUME NEW r \in Requests, CommitInvite(r) PROVE KeyInv'
  <2> DEFINE e == reqs[r].seat
  <2>1. \A x \in Requests : reqs'[x].op = "activate" => reqs'[x].key # NoKey
    BY <1>9, <1>0 DEF CommitInvite, KeyInv, RealKeys, TypeOK, Idle
  <2>2. CASE UNCHANGED <<seats, acts>>
    BY <1>9, <1>0, <2>1, <2>2, KeysUntouched DEF CommitInvite
  <2>3. CASE seats' = [seats EXCEPT ![e].token = TRUE] /\ acts' = acts
    <3>1. \A m \in Members : seats'[m].state = seats[m].state /\ seats'[m].key = seats[m].key
      BY <1>0, <2>3 DEF TypeOK, SeatType
    <3>2. RealKeys'
      BY <1>9, <2>1, <2>3 DEF CommitInvite, KeyInv, RealKeys
    <3>3. ~OlderReplica => OffTeamKeyless'
      BY <3>1 DEF KeyInv, OffTeamKeyless, OffTeam
    <3>4. DevicesOnLiveKeys'
      BY <1>9, <1>0, <2>3, <3>1 DEF CommitInvite, KeyInv, DevicesOnLiveKeys, KeyOf, Joined, TypeOK, ActType
    <3> QED
      BY <1>0, <3>2, <3>3, <3>4 DEF KeyInv
  <2>4. CASE /\ seats' = [seats EXCEPT ![e] = [@ EXCEPT !.state = "pending", !.token = TRUE,
                                                         !.key = NoKey, !.at = 0]]
             /\ acts' = WithoutDevicesOf(e)
    <3>1. \A m \in Members \ {e} : seats'[m] = seats[m]
      BY <1>0, <2>4 DEF TypeOK
    <3>2. e \in Members => seats'[e].key = NoKey
      BY <1>0, <2>4 DEF TypeOK, SeatType
    <3> QED
      BY <1>9, <1>0, <2>1, <2>4, <3>1, <3>2, SeatCleared DEF CommitInvite
  <2> QED
    BY <1>9, <2>2, <2>3, <2>4 DEF CommitInvite
<1>10. ASSUME NEW r \in Requests, NEW e \in Members, NEW at \in Stamps, AcceptSeatInvite(r, e, at) PROVE KeyInv'
  <2>1. \A x \in Requests : reqs'[x].op = "activate" => reqs'[x].key # NoKey
    BY <1>10, <1>0 DEF AcceptSeatInvite, KeyInv, RealKeys, TypeOK, Idle
  <2>2. /\ seats'[e].state = "joined" /\ seats[e].state = "pending"
        /\ \A m \in Members \ {e} : seats'[m] = seats[m]
    BY <1>10, <1>0 DEF AcceptSeatInvite, TypeOK
  <2>3. \A d \in Devices : acts[d].held /\ ~OlderReplica => acts[d].seat # e
    BY <2>2, TeamAssumption DEF KeyInv, DevicesOnLiveKeys, Joined, Owner
  <2>4. RealKeys'
    BY <1>10, <2>1 DEF AcceptSeatInvite, KeyInv, RealKeys
  <2>5. ~OlderReplica => OffTeamKeyless'
    BY <2>2 DEF KeyInv, OffTeamKeyless, OffTeam
  <2>6. DevicesOnLiveKeys'
    BY <1>10, <2>2, <2>3 DEF AcceptSeatInvite, KeyInv, DevicesOnLiveKeys, KeyOf, Joined
  <2> QED
    BY <1>0, <2>4, <2>5, <2>6 DEF KeyInv
<1>11. ASSUME NEW r \in Requests, CheckAccept(r) PROVE KeyInv'
  <2>1. \A x \in Requests : reqs'[x].op = "activate" => reqs'[x].key # NoKey
    BY <1>11, <1>0 DEF CheckAccept, KeyInv, RealKeys, TypeOK, ReqType, Idle
  <2> QED
    BY <1>11, <1>0, <2>1, KeysUntouched DEF CheckAccept
<1>12. ASSUME NEW r \in Requests, RollbackSeatAccept(r) PROVE KeyInv'
  <2> DEFINE e == reqs[r].seat
  <2>1. \A x \in Requests : reqs'[x].op = "activate" => reqs'[x].key # NoKey
    BY <1>12, <1>0 DEF RollbackSeatAccept, KeyInv, RealKeys, TypeOK, Idle
  <2>2. \A m \in Members \ {e} : seats'[m] = seats[m]
    BY <1>12, <1>0 DEF RollbackSeatAccept, TypeOK
  <2>3. e \in Members => seats'[e].key = NoKey
    BY <1>12, <1>0 DEF RollbackSeatAccept, TypeOK, SeatType
  <2> QED
    BY <1>12, <1>0, <2>1, <2>2, <2>3, SeatCleared DEF RollbackSeatAccept
<1>13. ASSUME NEW e \in Members, RemoveSeat(e) PROVE KeyInv'
  <2>1. \A m \in Members \ {e} : seats'[m] = seats[m]
    BY <1>13, <1>0 DEF RemoveSeat, TypeOK
  <2>2. OffTeam(e)' => seats'[e].key = NoKey
    BY <1>13, <1>0 DEF RemoveSeat, TypeOK, SeatType, OffTeam, Joined
  <2> QED
    BY <1>13, <1>0, <2>1, <2>2, SeatCleared DEF RemoveSeat, KeyInv, RealKeys
<1>14. ASSUME NEW r \in Requests, Crash(r) PROVE KeyInv'
  <2>1. \A x \in Requests : reqs'[x].op = "activate" => reqs'[x].key # NoKey
    BY <1>14, <1>0 DEF Crash, KeyInv, RealKeys, TypeOK, ReqType, Idle
  <2> QED
    BY <1>14, <1>0, <2>1, KeysUntouched DEF Crash
<1>15. ASSUME NEW e \in Members, OlderRemoveSeat(e) PROVE KeyInv'
  BY <1>15, <1>0 DEF OlderRemoveSeat, KeyInv, RealKeys, DevicesOnLiveKeys
<1>16. ASSUME NEW e \in Members, OlderReinvite(e) PROVE KeyInv'
  BY <1>16, <1>0 DEF OlderReinvite, KeyInv, RealKeys, DevicesOnLiveKeys
<1>17. ASSUME NEW e \in Members, ClearSeatLeftovers(e) PROVE KeyInv'
  <2>1. \A m \in Members \ {e} : seats'[m] = seats[m]
    BY <1>17, <1>0 DEF ClearSeatLeftovers, TypeOK
  <2>2. OffTeam(e)' => seats'[e].key = NoKey
    BY <1>17, <1>0 DEF ClearSeatLeftovers, TypeOK, SeatType, OffTeam, Joined
  <2> QED
    BY <1>17, <1>0, <2>1, <2>2, SeatCleared DEF ClearSeatLeftovers, KeyInv, RealKeys
<1>18. ASSUME NEW t \in [plan : Plans, quantity : Quantities], ReadTerms(t) PROVE KeyInv'
  BY <1>18, <1>0, KeysUntouched DEF ReadTerms, KeyInv, RealKeys
<1>19. ASSUME NEW q \in Quantities, SetLicenseQuantity(q) PROVE KeyInv'
  BY <1>19, <1>0, KeysUntouched DEF SetLicenseQuantity, KeyInv, RealKeys
<1>20. ASSUME NEW p \in Plans, BeginUpgrade(p) PROVE KeyInv'
  BY <1>20, <1>0, KeysUntouched DEF BeginUpgrade, KeyInv, RealKeys
<1>21. ASSUME OpenUpgrade PROVE KeyInv'
  BY <1>21, <1>0, KeysUntouched DEF OpenUpgrade, KeyInv, RealKeys
<1>22. ASSUME AbortUpgrade PROVE KeyInv'
  BY <1>22, <1>0, KeysUntouched DEF AbortUpgrade, KeyInv, RealKeys
<1>23. ASSUME LapseUpgrade PROVE KeyInv'
  BY <1>23, <1>0, KeysUntouched DEF LapseUpgrade, KeyInv, RealKeys
<1>24. ASSUME NEW q \in Quantities, FulfillUpgrade(q) PROVE KeyInv'
  BY <1>24, <1>0, KeysUntouched DEF FulfillUpgrade, KeyInv, RealKeys
<1>25. ASSUME Lapse PROVE KeyInv'
  BY <1>25, <1>0, KeysUntouched DEF Lapse, StandingTo, KeyInv, RealKeys
<1>26. ASSUME Expire PROVE KeyInv'
  BY <1>26, <1>0, KeysUntouched DEF Expire, StandingTo, KeyInv, RealKeys
<1>27. ASSUME SuspendLicense PROVE KeyInv'
  BY <1>27, <1>0, KeysUntouched DEF SuspendLicense, StandingTo, KeyInv, RealKeys
<1>28. ASSUME ReinstateLicense PROVE KeyInv'
  BY <1>28, <1>0, KeysUntouched DEF ReinstateLicense, StandingTo, KeyInv, RealKeys
<1>29. ASSUME SetLicenseValidUntil PROVE KeyInv'
  BY <1>29, <1>0, KeysUntouched DEF SetLicenseValidUntil, StandingTo, KeyInv, RealKeys
<1>30. ASSUME RevokeLicense PROVE KeyInv'
  <2>1. \A x \in Devices : acts'[x].held => acts'[x] = acts[x]
    BY <1>30, <1>0 DEF RevokeLicense, StandingTo, TypeOK, Free
  <2> QED
    BY <1>30, <1>0, <2>1 DEF RevokeLicense, StandingTo, KeyInv, RealKeys, OffTeamKeyless, OffTeam, DevicesOnLiveKeys, KeyOf, Joined
<1>31. ASSUME SetProductType PROVE KeyInv'
  BY <1>31, <1>0, KeysUntouched DEF SetProductType, KeyInv, RealKeys
<1>32. CASE UNCHANGED vars
  BY <1>32, <1>0, KeysUntouched DEF vars, KeyInv, RealKeys
<1> QED
  BY <1>1, <1>2, <1>3, <1>4, <1>5, <1>6, <1>7, <1>8, <1>9, <1>10, <1>11, <1>12, <1>13, <1>14, <1>15, <1>16, <1>17, <1>18, <1>19, <1>20, <1>21, <1>22, <1>23, <1>24, <1>25, <1>26, <1>27, <1>28, <1>29, <1>30, <1>31, <1>32
     DEF Next, DeviceNext, TeamNext, OlderNext, TermsNext, StandingNext

\* The invariant of the keys holds in every reachable state.
LEMMA KeyInductive == Spec => []KeyInv
<1> QED
  BY KeyInit, KeyStep, PTL DEF Spec

\* "No device is left on a key that no longer works": for any number of
\* members, devices and requests, every activated device is on the key its
\* holder has now, and its holder is still on the team.
THEOREM DevicesOnLiveKeysHolds == Spec => []DevicesOnLiveKeys
<1>1. KeyInv => DevicesOnLiveKeys
  BY DEF KeyInv
<1> QED
  BY <1>1, KeyInductive, PTL

\* A seat off the team holds no key and no device: what FindSeatLeftovers
\* looks for only an older replica can leave.
THEOREM NoLeftoversHolds == Spec => []NoLeftovers
<1>1. ASSUME KeyInv, ~OlderReplica, NEW e \in Members, OffTeam(e) PROVE ~HoldsAnything(e)
  <2>1. seats[e].key = NoKey
    BY <1>1 DEF KeyInv, OffTeamKeyless
  <2>2. \A d \in Devices : acts[d].held => acts[d].seat # e
    BY <1>1, TeamAssumption DEF KeyInv, DevicesOnLiveKeys, OffTeam, Joined, Owner
  <2> QED
    BY <2>1, <2>2 DEF HoldsAnything
<1>2. KeyInv => NoLeftovers
  BY <1>1 DEF NoLeftovers
<1> QED
  BY <1>2, KeyInductive, PTL


-----------------------------------------------------------------------------
(***************************************************************************)
(* Keys and joins                                                          *)
(*                                                                         *)
(* A key is newer than the join because both are numbered by one counter:  *)
(* the invariant adds that no join is ahead of it.                         *)
(***************************************************************************)
JoinInv == TypeOK /\ KeyFromThisJoin /\ \A e \in Members : seats[e].join <= serial

\* No seat is asked for yet, so no key is a join ahead.
LEMMA JoinInit == Init => JoinInv
<1> SUFFICES ASSUME Init PROVE JoinInv
  OBVIOUS
<1>1. TypeOK
  BY TypeInit
<1>2. \A e \in Members : seats[e].join = 0 /\ seats[e].state = "none"
  BY DEF Init, NoSeat
<1> QED
  BY <1>1, <1>2 DEF JoinInv, KeyFromThisJoin, Joined, Init

\* A step preserves JoinInv when every member keeps their join and, unless
\* the key is cleared or they are off the team, their key.
LEMMA JoinKept ==
  ASSUME JoinInv, TypeOK', serial' >= serial,
         \A m \in Members :
           /\ seats'[m].join = seats[m].join
           /\ \/ seats'[m].state # "joined"
              \/ seats'[m].key = NoKey
              \/ seats'[m].state = seats[m].state /\ seats'[m].key = seats[m].key
              \/ seats'[m].key > serial
  PROVE  JoinInv'
<1>1. \A m \in Members : seats[m].join \in Nat /\ seats'[m].key \in Nat /\ serial \in Nat /\ serial' \in Nat
  BY DEF JoinInv, TypeOK, SeatType
<1> QED
  BY <1>1 DEF JoinInv, KeyFromThisJoin, Joined

\* Every step keeps a key of the join it was minted for.
LEMMA JoinStep == JoinInv /\ [Next]_vars => JoinInv'
<1> SUFFICES ASSUME JoinInv, [Next]_vars PROVE JoinInv'
  OBVIOUS
<1>0. TypeOK /\ TypeOK'
  BY TypeStep DEF JoinInv
<1>1. ASSUME NEW r \in Requests, NEW s \in Members \cup {Owner}, NEW d \in Devices, LoadActivate(r, s, d) PROVE JoinInv'
  BY <1>1, <1>0, JoinKept DEF LoadActivate, TypeOK
<1>2. ASSUME NEW r \in Requests, CommitActivate(r) PROVE JoinInv'
  BY <1>2, <1>0, JoinKept DEF CommitActivate, TypeOK
<1>3. ASSUME NEW s \in Members \cup {Owner}, NEW d \in Devices, Deactivate(s, d) PROVE JoinInv'
  BY <1>3, <1>0, JoinKept DEF Deactivate, TypeOK
<1>4. ASSUME DeleteExpiredActivations PROVE JoinInv'
  BY <1>4, <1>0, JoinKept DEF DeleteExpiredActivations, TypeOK
<1>5. ASSUME NEW e \in Members, MintMemberKey(e) PROVE JoinInv'
  BY <1>5, <1>0, JoinKept DEF MintMemberKey, TypeOK, SeatType
<1>6. ASSUME NEW e \in Members, RotateMemberKey(e) PROVE JoinInv'
  BY <1>6, <1>0, JoinKept DEF RotateMemberKey, TypeOK, SeatType
<1>7. ASSUME RotateLicenseKey PROVE JoinInv'
  BY <1>7, <1>0, JoinKept DEF RotateLicenseKey, TypeOK
<1>8. ASSUME NEW r \in Requests, NEW e \in Members, LoadInvite(r, e) PROVE JoinInv'
  BY <1>8, <1>0, JoinKept DEF LoadInvite, TypeOK
<1>9. ASSUME NEW r \in Requests, CommitInvite(r) PROVE JoinInv'
  <2> DEFINE e == reqs[r].seat
  <2>1. CASE UNCHANGED seats
    BY <1>9, <1>0, <2>1, JoinKept DEF CommitInvite, TypeOK
  <2>2. CASE seats' = [seats EXCEPT ![e].token = TRUE]
    BY <1>9, <1>0, <2>2, JoinKept DEF CommitInvite, TypeOK, SeatType
  <2>3. CASE seats' = [seats EXCEPT ![e] = [@ EXCEPT !.state = "pending", !.token = TRUE,
                                                     !.key = NoKey, !.at = 0]]
    <3>1. \A m \in Members : /\ seats'[m].join = seats[m].join
                             /\ seats'[m] = seats[m] \/ seats'[m].state # "joined"
      BY <1>0, <2>3 DEF TypeOK, SeatType
    <3> QED
      BY <1>9, <1>0, <3>1, JoinKept DEF CommitInvite, TypeOK
  <2> QED
    BY <1>9, <2>1, <2>2, <2>3 DEF CommitInvite
<1>10. ASSUME NEW r \in Requests, NEW e \in Members, NEW at \in Stamps, AcceptSeatInvite(r, e, at) PROVE JoinInv'
  <2>1. seats'[e] = [state |-> "joined", token |-> FALSE, key |-> NoKey, at |-> at, join |-> serial + 1]
    BY <1>10, <1>0 DEF AcceptSeatInvite, TypeOK
  <2>2. serial' = serial + 1 /\ \A m \in Members \ {e} : seats'[m] = seats[m]
    BY <1>10, <1>0 DEF AcceptSeatInvite, TypeOK
  <2> QED
    BY <1>0, <2>1, <2>2 DEF JoinInv, KeyFromThisJoin, Joined, TypeOK, SeatType
<1>11. ASSUME NEW r \in Requests, CheckAccept(r) PROVE JoinInv'
  BY <1>11, <1>0, JoinKept DEF CheckAccept, TypeOK
<1>12. ASSUME NEW r \in Requests, RollbackSeatAccept(r) PROVE JoinInv'
  <2>1. \A m \in Members : /\ seats'[m].join = seats[m].join
                           /\ seats'[m] = seats[m] \/ seats'[m].key = NoKey
    BY <1>12, <1>0 DEF RollbackSeatAccept, TypeOK, SeatType
  <2> QED
    BY <1>12, <1>0, <2>1, JoinKept DEF RollbackSeatAccept, TypeOK
<1>13. ASSUME NEW e \in Members, RemoveSeat(e) PROVE JoinInv'
  BY <1>13, <1>0, JoinKept DEF RemoveSeat, TypeOK, SeatType
<1>14. ASSUME NEW r \in Requests, Crash(r) PROVE JoinInv'
  BY <1>14, <1>0, JoinKept DEF Crash, TypeOK
<1>15. ASSUME NEW e \in Members, OlderRemoveSeat(e) PROVE JoinInv'
  BY <1>15, <1>0, JoinKept DEF OlderRemoveSeat, TypeOK, SeatType
<1>16. ASSUME NEW e \in Members, OlderReinvite(e) PROVE JoinInv'
  BY <1>16, <1>0, JoinKept DEF OlderReinvite, TypeOK, SeatType
<1>17. ASSUME NEW e \in Members, ClearSeatLeftovers(e) PROVE JoinInv'
  BY <1>17, <1>0, JoinKept DEF ClearSeatLeftovers, TypeOK, SeatType
<1>18. ASSUME NEW t \in [plan : Plans, quantity : Quantities], ReadTerms(t) PROVE JoinInv'
  BY <1>18, <1>0, JoinKept DEF ReadTerms, TypeOK
<1>19. ASSUME NEW q \in Quantities, SetLicenseQuantity(q) PROVE JoinInv'
  BY <1>19, <1>0, JoinKept DEF SetLicenseQuantity, TypeOK
<1>20. ASSUME NEW p \in Plans, BeginUpgrade(p) PROVE JoinInv'
  BY <1>20, <1>0, JoinKept DEF BeginUpgrade, TypeOK
<1>21. ASSUME OpenUpgrade PROVE JoinInv'
  BY <1>21, <1>0, JoinKept DEF OpenUpgrade, TypeOK
<1>22. ASSUME AbortUpgrade PROVE JoinInv'
  BY <1>22, <1>0, JoinKept DEF AbortUpgrade, TypeOK
<1>23. ASSUME LapseUpgrade PROVE JoinInv'
  BY <1>23, <1>0, JoinKept DEF LapseUpgrade, TypeOK
<1>24. ASSUME NEW q \in Quantities, FulfillUpgrade(q) PROVE JoinInv'
  BY <1>24, <1>0, JoinKept DEF FulfillUpgrade, TypeOK
<1>25. ASSUME Lapse PROVE JoinInv'
  BY <1>25, <1>0, JoinKept DEF Lapse, StandingTo, TypeOK
<1>26. ASSUME Expire PROVE JoinInv'
  BY <1>26, <1>0, JoinKept DEF Expire, StandingTo, TypeOK
<1>27. ASSUME SuspendLicense PROVE JoinInv'
  BY <1>27, <1>0, JoinKept DEF SuspendLicense, StandingTo, TypeOK
<1>28. ASSUME ReinstateLicense PROVE JoinInv'
  BY <1>28, <1>0, JoinKept DEF ReinstateLicense, StandingTo, TypeOK
<1>29. ASSUME SetLicenseValidUntil PROVE JoinInv'
  BY <1>29, <1>0, JoinKept DEF SetLicenseValidUntil, StandingTo, TypeOK
<1>30. ASSUME RevokeLicense PROVE JoinInv'
  BY <1>30, <1>0, JoinKept DEF RevokeLicense, StandingTo, TypeOK
<1>31. ASSUME SetProductType PROVE JoinInv'
  BY <1>31, <1>0, JoinKept DEF SetProductType, TypeOK
<1>32. CASE UNCHANGED vars
  BY <1>32, <1>0, JoinKept DEF vars, TypeOK
<1> QED
  BY <1>1, <1>2, <1>3, <1>4, <1>5, <1>6, <1>7, <1>8, <1>9, <1>10, <1>11, <1>12, <1>13, <1>14, <1>15, <1>16, <1>17, <1>18, <1>19, <1>20, <1>21, <1>22, <1>23, <1>24, <1>25, <1>26, <1>27, <1>28, <1>29, <1>30, <1>31, <1>32
     DEF Next, DeviceNext, TeamNext, OlderNext, TermsNext, StandingNext

\* A member's key was made in their present time on the team, for any number
\* of members and requests, and with replicas of the older version running.
THEOREM KeyFromThisJoinHolds == Spec => []KeyFromThisJoin
<1>1. JoinInv => KeyFromThisJoin
  BY DEF JoinInv
<1> QED
  BY <1>1, JoinInit, JoinStep, PTL DEF Spec

-----------------------------------------------------------------------------
(***************************************************************************)
(* New devices                                                             *)
(***************************************************************************)

\* Only the transaction that activates takes a device or hands it over.
LEMMA NewDeviceStep ==
  ASSUME KeyInv, [Next]_vars, NEW d \in Devices,
         acts'[d].held, ~acts[d].held \/ acts'[d].seat # acts[d].seat
  PROVE  /\ standing \in {"usable", "lapsed"}
         /\ Opens(acts'[d].seat)
         /\ ~Paused(acts'[d].seat)
<1> DEFINE Goal == /\ standing \in {"usable", "lapsed"}
                   /\ Opens(acts'[d].seat)
                   /\ ~Paused(acts'[d].seat)
<1>0. TypeOK
  BY DEF KeyInv
<1>1. ASSUME NEW r \in Requests, NEW s \in Members \cup {Owner}, NEW x \in Devices, LoadActivate(r, s, x) PROVE Goal
  BY <1>1 DEF LoadActivate
<1>2. ASSUME NEW r \in Requests, CommitActivate(r) PROVE Goal
  <2> DEFINE q == reqs[r]
  <2>1. KeyHeld(q.seat, q.key)
    BY <1>2 DEF CommitActivate
  <2>2. acts'[d].seat = q.seat
    BY <1>2, <1>0, <2>1 DEF CommitActivate, Activated, TypeOK
  <2>3. q.key # NoKey
    BY <1>2 DEF CommitActivate, KeyInv, RealKeys
  <2>4. ~Paused(Owner)
    BY TeamAssumption DEF Paused, Joined, Owner
  <2> QED
    BY <2>1, <2>2, <2>3, <2>4 DEF KeyHeld, Opens
<1>3. ASSUME NEW s \in Members \cup {Owner}, NEW x \in Devices, Deactivate(s, x) PROVE Goal
  BY <1>3, <1>0 DEF Deactivate, TypeOK, Free
<1>4. ASSUME DeleteExpiredActivations PROVE Goal
  BY <1>4, <1>0 DEF DeleteExpiredActivations, TypeOK, Free
<1>5. ASSUME NEW e \in Members, MintMemberKey(e) PROVE Goal
  BY <1>5 DEF MintMemberKey
<1>6. ASSUME NEW e \in Members, RotateMemberKey(e) PROVE Goal
  BY <1>6, WithoutDevicesHeld DEF RotateMemberKey
<1>7. ASSUME RotateLicenseKey PROVE Goal
  BY <1>7, WithoutDevicesHeld DEF RotateLicenseKey
<1>8. ASSUME NEW r \in Requests, NEW e \in Members, LoadInvite(r, e) PROVE Goal
  BY <1>8 DEF LoadInvite
<1>9. ASSUME NEW r \in Requests, CommitInvite(r) PROVE Goal
  BY <1>9, WithoutDevicesHeld DEF CommitInvite
<1>10. ASSUME NEW r \in Requests, NEW e \in Members, NEW at \in Stamps, AcceptSeatInvite(r, e, at) PROVE Goal
  BY <1>10 DEF AcceptSeatInvite
<1>11. ASSUME NEW r \in Requests, CheckAccept(r) PROVE Goal
  BY <1>11 DEF CheckAccept
<1>12. ASSUME NEW r \in Requests, RollbackSeatAccept(r) PROVE Goal
  BY <1>12, WithoutDevicesHeld DEF RollbackSeatAccept
<1>13. ASSUME NEW e \in Members, RemoveSeat(e) PROVE Goal
  BY <1>13, WithoutDevicesHeld DEF RemoveSeat
<1>14. ASSUME NEW r \in Requests, Crash(r) PROVE Goal
  BY <1>14 DEF Crash
<1>15. ASSUME NEW e \in Members, OlderRemoveSeat(e) PROVE Goal
  BY <1>15 DEF OlderRemoveSeat
<1>16. ASSUME NEW e \in Members, OlderReinvite(e) PROVE Goal
  BY <1>16 DEF OlderReinvite
<1>17. ASSUME NEW e \in Members, ClearSeatLeftovers(e) PROVE Goal
  BY <1>17, WithoutDevicesHeld DEF ClearSeatLeftovers
<1>18. ASSUME NEW t \in [plan : Plans, quantity : Quantities], ReadTerms(t) PROVE Goal
  BY <1>18 DEF ReadTerms
<1>19. ASSUME NEW q \in Quantities, SetLicenseQuantity(q) PROVE Goal
  BY <1>19 DEF SetLicenseQuantity
<1>20. ASSUME NEW p \in Plans, BeginUpgrade(p) PROVE Goal
  BY <1>20 DEF BeginUpgrade
<1>21. ASSUME OpenUpgrade PROVE Goal
  BY <1>21 DEF OpenUpgrade
<1>22. ASSUME AbortUpgrade PROVE Goal
  BY <1>22 DEF AbortUpgrade
<1>23. ASSUME LapseUpgrade PROVE Goal
  BY <1>23 DEF LapseUpgrade
<1>24. ASSUME NEW q \in Quantities, FulfillUpgrade(q) PROVE Goal
  BY <1>24 DEF FulfillUpgrade
<1>25. ASSUME Lapse PROVE Goal
  BY <1>25 DEF Lapse, StandingTo
<1>26. ASSUME Expire PROVE Goal
  BY <1>26 DEF Expire, StandingTo
<1>27. ASSUME SuspendLicense PROVE Goal
  BY <1>27 DEF SuspendLicense, StandingTo
<1>28. ASSUME ReinstateLicense PROVE Goal
  BY <1>28 DEF ReinstateLicense, StandingTo
<1>29. ASSUME SetLicenseValidUntil PROVE Goal
  BY <1>29 DEF SetLicenseValidUntil, StandingTo
<1>30. ASSUME RevokeLicense PROVE Goal
  BY <1>30 DEF RevokeLicense, Free
<1>31. ASSUME SetProductType PROVE Goal
  BY <1>31 DEF SetProductType
<1>32. CASE UNCHANGED vars
  BY <1>32 DEF vars
<1> QED
  BY <1>1, <1>2, <1>3, <1>4, <1>5, <1>6, <1>7, <1>8, <1>9, <1>10, <1>11, <1>12, <1>13, <1>14, <1>15, <1>16, <1>17, <1>18, <1>19, <1>20, <1>21, <1>22, <1>23, <1>24, <1>25, <1>26, <1>27, <1>28, <1>29, <1>30, <1>31, <1>32
     DEF Next, DeviceNext, TeamNext, OlderNext, TermsNext, StandingNext

\* Whatever was read before it, a device is taken or changes hands only while
\* the licence is not stopped, by a key that opens it and is not paused.
THEOREM NewDeviceOnWorkingKeyHolds == Spec => NewDeviceOnWorkingKey
<1>1. KeyInv /\ [Next]_vars =>
        [\A d \in Devices :
           (acts'[d].held /\ (~acts[d].held \/ acts'[d].seat # acts[d].seat)) =>
             /\ standing \in {"usable", "lapsed"}
             /\ Opens(acts'[d].seat)
             /\ ~Paused(acts'[d].seat)]_vars
  BY NewDeviceStep
<1> QED
  BY <1>1, KeyInductive, PTL DEF Spec, NewDeviceOnWorkingKey

-----------------------------------------------------------------------------
(***************************************************************************)
(* People                                                                  *)
(***************************************************************************)

\* People is the number of seats in use, so it falls with them, and one new
\* seat adds at most one person.
LEMMA PeopleMonotone ==
  /\ Live' \subseteq Live => People' <= People
  /\ \A e : Live' \subseteq Live \cup {e} => People' <= People + 1
<1>1. IsFiniteSet(Live) /\ IsFiniteSet(Live')
  BY TeamAssumption, FS_Subset DEF Live
<1>2. Cardinality(Live) \in Nat /\ Cardinality(Live') \in Nat
  BY <1>1, FS_CardinalityType
<1>3. Live' \subseteq Live => People' <= People
  BY <1>1, <1>2, FS_Subset DEF People
<1>4. ASSUME NEW e, Live' \subseteq Live \cup {e} PROVE People' <= People + 1
  <2>1. /\ IsFiniteSet(Live \cup {e})
        /\ \/ Cardinality(Live \cup {e}) = Cardinality(Live)
           \/ Cardinality(Live \cup {e}) = Cardinality(Live) + 1
    BY <1>1, FS_AddElement
  <2>2. Cardinality(Live') <= Cardinality(Live \cup {e})
    BY <1>4, <2>1, FS_Subset
  <2> QED
    BY <1>2, <2>1, <2>2 DEF People
<1> QED
  BY <1>3, <1>4

\* A step that adds nobody keeps a checkout that stays as it was, or is
\* closed, within its seats.
LEMMA FitsKept ==
  ASSUME TypeOK, Live' \subseteq Live, NEW u \in UpgradeType, TeamFits(u)
  PROVE  u.open => /\ u.plan.perSeat => People' <= u.seats
                   /\ (~u.plan.perSeat /\ u.plan.maxSeats > 0) => People' <= u.plan.maxSeats
<1>1. People' <= People
  BY PeopleMonotone
<1>2. People \in Nat /\ People' \in Nat
  BY PeopleNat, TeamAssumption, FS_Subset, FS_CardinalityType DEF People, Live
<1>3. u.seats \in Nat /\ u.plan.maxSeats \in Nat
  BY TeamAssumption DEF UpgradeType, PlanType
<1> QED
  BY <1>1, <1>2, <1>3 DEF TeamFits

-----------------------------------------------------------------------------
(***************************************************************************)
(* Upgrade checkouts                                                       *)
(***************************************************************************)
UpgradeInv == TypeOK /\ UpgradeHoldsTeam

\* A step that adds nobody, and leaves each of the two checkouts as it was,
\* closes it, or opens the one that was being opened.
LEMMA UpgradeKept ==
  ASSUME UpgradeInv, TypeOK', Live' \subseteq Live,
         opening' \in {opening, NoUpgrade}, upgrade' \in {upgrade, opening, NoUpgrade}
  PROVE  UpgradeInv'
<1>1. TypeOK /\ opening \in UpgradeType /\ upgrade \in UpgradeType
  BY DEF UpgradeInv, TypeOK
<1>2. ~NoUpgrade.open
  BY DEF NoUpgrade
<1>3. ASSUME ~OlderReplica PROVE TeamFits(opening)' /\ TeamFits(upgrade)'
  <2>1. TeamFits(opening) /\ TeamFits(upgrade)
    BY <1>3 DEF UpgradeInv, UpgradeHoldsTeam
  <2> QED
    BY <1>1, <1>2, <2>1, FitsKept DEF TeamFits
<1> QED
  BY <1>3 DEF UpgradeInv, UpgradeHoldsTeam

\* Every step keeps the team within the places of an upgrade under way.
LEMMA UpgradeStep == UpgradeInv /\ [Next]_vars => UpgradeInv'
<1> SUFFICES ASSUME UpgradeInv, [Next]_vars PROVE UpgradeInv'
  OBVIOUS
<1>0. TypeOK /\ TypeOK'
  BY TypeStep DEF UpgradeInv
<1>1. ASSUME NEW r \in Requests, NEW s \in Members \cup {Owner}, NEW d \in Devices, LoadActivate(r, s, d) PROVE UpgradeInv'
  BY <1>1, <1>0, UpgradeKept DEF LoadActivate, Live
<1>2. ASSUME NEW r \in Requests, CommitActivate(r) PROVE UpgradeInv'
  BY <1>2, <1>0, UpgradeKept DEF CommitActivate, Live
<1>3. ASSUME NEW s \in Members \cup {Owner}, NEW d \in Devices, Deactivate(s, d) PROVE UpgradeInv'
  BY <1>3, <1>0, UpgradeKept DEF Deactivate, Live
<1>4. ASSUME DeleteExpiredActivations PROVE UpgradeInv'
  BY <1>4, <1>0, UpgradeKept DEF DeleteExpiredActivations, Live
<1>5. ASSUME NEW e \in Members, MintMemberKey(e) PROVE UpgradeInv'
  <2>1. Live' \subseteq Live
    BY <1>5, <1>0 DEF MintMemberKey, Live, Joined, TypeOK, SeatType
  <2> QED
    BY <1>5, <1>0, <2>1, UpgradeKept DEF MintMemberKey
<1>6. ASSUME NEW e \in Members, RotateMemberKey(e) PROVE UpgradeInv'
  <2>1. Live' \subseteq Live
    BY <1>6, <1>0 DEF RotateMemberKey, Live, Joined, TypeOK, SeatType
  <2> QED
    BY <1>6, <1>0, <2>1, UpgradeKept DEF RotateMemberKey
<1>7. ASSUME RotateLicenseKey PROVE UpgradeInv'
  BY <1>7, <1>0, UpgradeKept DEF RotateLicenseKey, Live
<1>8. ASSUME NEW r \in Requests, NEW e \in Members, LoadInvite(r, e) PROVE UpgradeInv'
  BY <1>8, <1>0, UpgradeKept DEF LoadInvite, Live
<1>9. ASSUME NEW r \in Requests, CommitInvite(r) PROVE UpgradeInv'
  <2> DEFINE e == reqs[r].seat
  <2>1. CASE UNCHANGED seats
    BY <1>9, <1>0, <2>1, UpgradeKept DEF CommitInvite, Live
  <2>2. CASE seats[e].state = "pending" /\ seats' = [seats EXCEPT ![e].token = TRUE]
    <3>1. Live' \subseteq Live
      BY <1>0, <2>2 DEF Live, TypeOK, SeatType
    <3> QED
      BY <1>9, <1>0, <3>1, UpgradeKept DEF CommitInvite
  <2>3. CASE /\ ~opening.open
             /\ \E max : MayJoin(max)
             /\ seats' = [seats EXCEPT ![e] = [@ EXCEPT !.state = "pending", !.token = TRUE,
                                                       !.key = NoKey, !.at = 0]]
    <3>1. Live' \subseteq Live \cup {e}
      BY <1>0, <2>3 DEF Live, TypeOK
    <3>2. People' <= People + 1
      BY <3>1, PeopleMonotone
    <3>3. People \in Nat /\ People' \in Nat
      BY PeopleNat, TeamAssumption, FS_Subset, FS_CardinalityType DEF People, Live
    <3>4. upgrade.plan.maxSeats \in Nat
      BY <1>0, TeamAssumption DEF TypeOK, UpgradeType, PlanType
    <3>5. UNCHANGED <<opening, upgrade>>
      BY <1>9 DEF CommitInvite
    <3>6. TeamFits(opening)'
      BY <2>3, <3>5 DEF TeamFits
    <3>7. TeamFits(upgrade)'
      BY <2>3, <3>2, <3>3, <3>4, <3>5 DEF TeamFits, MayJoin
    <3> QED
      BY <1>0, <3>6, <3>7 DEF UpgradeInv, UpgradeHoldsTeam
  <2> QED
    BY <1>9, <2>1, <2>2, <2>3 DEF CommitInvite, UpgradeLockFree
<1>10. ASSUME NEW r \in Requests, NEW e \in Members, NEW at \in Stamps, AcceptSeatInvite(r, e, at) PROVE UpgradeInv'
  <2>1. Live' \subseteq Live
    BY <1>10, <1>0 DEF AcceptSeatInvite, Live, Joined, TypeOK, SeatType
  <2> QED
    BY <1>10, <1>0, <2>1, UpgradeKept DEF AcceptSeatInvite
<1>11. ASSUME NEW r \in Requests, CheckAccept(r) PROVE UpgradeInv'
  BY <1>11, <1>0, UpgradeKept DEF CheckAccept, Live
<1>12. ASSUME NEW r \in Requests, RollbackSeatAccept(r) PROVE UpgradeInv'
  <2>1. \A m \in Members : seats'[m].state = seats[m].state \/ seats[m].state = "joined"
    BY <1>12, <1>0 DEF RollbackSeatAccept, TypeOK, SeatType
  <2>2. Live' \subseteq Live
    BY <2>1 DEF Live
  <2> QED
    BY <1>12, <1>0, <2>2, UpgradeKept DEF RollbackSeatAccept
<1>13. ASSUME NEW e \in Members, RemoveSeat(e) PROVE UpgradeInv'
  <2>1. Live' \subseteq Live
    BY <1>13, <1>0 DEF RemoveSeat, Live, Joined, TypeOK, SeatType
  <2> QED
    BY <1>13, <1>0, <2>1, UpgradeKept DEF RemoveSeat
<1>14. ASSUME NEW r \in Requests, Crash(r) PROVE UpgradeInv'
  BY <1>14, <1>0, UpgradeKept DEF Crash, Live
<1>15. ASSUME NEW e \in Members, OlderRemoveSeat(e) PROVE UpgradeInv'
  <2>1. Live' \subseteq Live
    BY <1>15, <1>0 DEF OlderRemoveSeat, Live, Joined, TypeOK, SeatType
  <2> QED
    BY <1>15, <1>0, <2>1, UpgradeKept DEF OlderRemoveSeat
<1>16. ASSUME NEW e \in Members, OlderReinvite(e) PROVE UpgradeInv'
  BY <1>16, <1>0 DEF OlderReinvite, UpgradeInv, UpgradeHoldsTeam
<1>17. ASSUME NEW e \in Members, ClearSeatLeftovers(e) PROVE UpgradeInv'
  <2>1. Live' \subseteq Live
    BY <1>17, <1>0 DEF ClearSeatLeftovers, Live, Joined, TypeOK, SeatType
  <2> QED
    BY <1>17, <1>0, <2>1, UpgradeKept DEF ClearSeatLeftovers
<1>18. ASSUME NEW t \in [plan : Plans, quantity : Quantities], ReadTerms(t) PROVE UpgradeInv'
  BY <1>18, <1>0, UpgradeKept DEF ReadTerms, Live
<1>19. ASSUME NEW q \in Quantities, SetLicenseQuantity(q) PROVE UpgradeInv'
  BY <1>19, <1>0, UpgradeKept DEF SetLicenseQuantity, Live
<1>20. ASSUME NEW p \in Plans, BeginUpgrade(p) PROVE UpgradeInv'
  <2>1. p \in PlanType /\ p.minQuantity \in Nat /\ p.maxSeats \in Nat
    BY TeamAssumption DEF PlanType
  <2>2. People \in Nat /\ People' = People
    BY <1>20, PeopleNat DEF BeginUpgrade, People, Live
  <2>3. ~p.perSeat => SeatLimit(p, p.maxQuantity) = p.maxSeats
    BY DEF SeatLimit
  <2>4. People <= MaxOf(People, p.minQuantity)
    BY <2>1, <2>2 DEF MaxOf
  <2>5. TeamFits(opening)'
    BY <1>20, <2>2, <2>3, <2>4 DEF BeginUpgrade, TeamFits
  <2>6. ~OlderReplica => TeamFits(upgrade)'
    BY <1>20, <2>2 DEF BeginUpgrade, UpgradeInv, UpgradeHoldsTeam, TeamFits
  <2> QED
    BY <1>0, <2>5, <2>6 DEF UpgradeInv, UpgradeHoldsTeam
<1>21. ASSUME OpenUpgrade PROVE UpgradeInv'
  BY <1>21, <1>0, UpgradeKept DEF OpenUpgrade, Live
<1>22. ASSUME AbortUpgrade PROVE UpgradeInv'
  BY <1>22, <1>0, UpgradeKept DEF AbortUpgrade, Live
<1>23. ASSUME LapseUpgrade PROVE UpgradeInv'
  BY <1>23, <1>0, UpgradeKept DEF LapseUpgrade, Live
<1>24. ASSUME NEW q \in Quantities, FulfillUpgrade(q) PROVE UpgradeInv'
  BY <1>24, <1>0, UpgradeKept DEF FulfillUpgrade, Live
<1>25. ASSUME Lapse PROVE UpgradeInv'
  BY <1>25, <1>0, UpgradeKept DEF Lapse, StandingTo, Live
<1>26. ASSUME Expire PROVE UpgradeInv'
  BY <1>26, <1>0, UpgradeKept DEF Expire, StandingTo, Live
<1>27. ASSUME SuspendLicense PROVE UpgradeInv'
  BY <1>27, <1>0, UpgradeKept DEF SuspendLicense, StandingTo, Live
<1>28. ASSUME ReinstateLicense PROVE UpgradeInv'
  BY <1>28, <1>0, UpgradeKept DEF ReinstateLicense, StandingTo, Live
<1>29. ASSUME SetLicenseValidUntil PROVE UpgradeInv'
  BY <1>29, <1>0, UpgradeKept DEF SetLicenseValidUntil, StandingTo, Live
<1>30. ASSUME RevokeLicense PROVE UpgradeInv'
  BY <1>30, <1>0, UpgradeKept DEF RevokeLicense, StandingTo, Live
<1>31. ASSUME SetProductType PROVE UpgradeInv'
  BY <1>31, <1>0, UpgradeKept DEF SetProductType, Live
<1>32. CASE UNCHANGED vars
  BY <1>32, <1>0, UpgradeKept DEF vars, Live
<1> QED
  BY <1>1, <1>2, <1>3, <1>4, <1>5, <1>6, <1>7, <1>8, <1>9, <1>10, <1>11, <1>12, <1>13, <1>14, <1>15, <1>16, <1>17, <1>18, <1>19, <1>20, <1>21, <1>22, <1>23, <1>24, <1>25, <1>26, <1>27, <1>28, <1>29, <1>30, <1>31, <1>32
     DEF Next, DeviceNext, TeamNext, OlderNext, TermsNext, StandingNext

\* An upgrade checkout never leaves the team over what it is paid for: from
\* the moment the people are counted until the checkout is paid or closed,
\* however invites, accepts and removals are interleaved with it.
THEOREM UpgradeHoldsTeamHolds == Spec => []UpgradeHoldsTeam
<1>1. Init => UpgradeInv
  BY TypeInit DEF Init, NoUpgrade, UpgradeInv, UpgradeHoldsTeam, TeamFits
<1>2. UpgradeInv => UpgradeHoldsTeam
  BY DEF UpgradeInv
<1> QED
  BY <1>1, <1>2, UpgradeStep, PTL DEF Spec
-----------------------------------------------------------------------------
(***************************************************************************)
(* Places                                                                  *)
(*                                                                         *)
(* Dates and row numbers order the members joined, so the number of those  *)
(* before a member is their rank: no two share one, and the ranks are      *)
(* 0 .. n-1.  The members below a limit are therefore as many as it has    *)
(* places, or all of them.                                                 *)
(***************************************************************************)
Ahead(e) == {o \in Joined : JoinedBefore(o, e)}

\* Members with ranks of their own, each below their number, fill the first
\* k ranks, or all of them.
LEMMA RanksFill ==
  ASSUME NEW S, IsFiniteSet(S), NEW rank \in [S -> Nat], NEW k \in Nat,
         \A x \in S : rank[x] < Cardinality(S),
         \A x, y \in S : x # y => rank[x] # rank[y]
  PROVE  Cardinality({x \in S : rank[x] < k}) = MinOf(Cardinality(S), k)
<1> DEFINE n == Cardinality(S)
           m == MinOf(n, k)
           W == {x \in S : rank[x] < k}
           f == [x \in W |-> rank[x]]
<1>1. n \in Nat /\ m \in Nat /\ m <= n /\ m <= k /\ (m = n \/ m = k)
  BY FS_CardinalityType DEF MinOf
<1> HIDE DEF n, m
<1>2. IsFiniteSet(0 .. n-1) /\ Cardinality(0 .. n-1) = n
  <2>1. 0 \in Int /\ n-1 \in Int /\ (0 > n-1 => n = 0) /\ (n-1) - 0 + 1 = n
    BY <1>1
  <2> QED
    BY <2>1, FS_Interval
<1>3. IsFiniteSet(0 .. m-1) /\ Cardinality(0 .. m-1) = m
  <2>1. 0 \in Int /\ m-1 \in Int /\ (0 > m-1 => m = 0) /\ (m-1) - 0 + 1 = m
    BY <1>1
  <2> QED
    BY <2>1, FS_Interval
<1>4. rank \in Surjection(S, 0 .. n-1)
  <2>1. \A x \in S : rank[x] \in 0 .. n-1
    BY <1>1 DEF n
  <2>2. rank \in Injection(S, 0 .. n-1)
    BY <2>1 DEF Injection, IsInjective
  <2> QED
    BY <2>2, <1>2, FS_Injection DEF n
<1>5. f \in Bijection(W, 0 .. m-1)
  <2>1. \A x \in W : f[x] \in 0 .. m-1
    BY <1>1 DEF n
  <2>2. \A i \in 0 .. m-1 : \E x \in W : f[x] = i
    <3> TAKE i \in 0 .. m-1
    <3>1. i \in 0 .. n-1 /\ i < k
      BY <1>1
    <3>2. PICK x \in S : rank[x] = i
      BY <1>4, <3>1 DEF Surjection
    <3> QED
      BY <3>1, <3>2
  <2>3. f \in [W -> 0 .. m-1] /\ \A x, y \in W : x # y => f[x] # f[y]
    BY <2>1
  <2> QED
    BY <2>2, <2>3 DEF Bijection, Injection, Surjection, IsInjective
<1>6. IsFiniteSet(W)
  BY FS_Subset
<1> HIDE DEF W, f
<1>7. Cardinality(W) = m
  BY <1>3, <1>5, <1>6, FS_Bijection DEF ExistsBijection
<1> QED
  BY <1>7 DEF W, m, n

\* The members ahead of one are joined, finite in number, and not that one.
LEMMA AheadFinite ==
  ASSUME TypeOK, NEW e \in Members
  PROVE  /\ IsFiniteSet(Joined)
         /\ IsFiniteSet(Ahead(e))
         /\ Cardinality(Joined) \in Nat
         /\ Cardinality(Ahead(e)) \in Nat
         /\ e \notin Ahead(e)
<1>1. IsFiniteSet(Joined)
  BY TeamAssumption, FS_Subset DEF Joined
<1>2. IsFiniteSet(Ahead(e))
  BY <1>1, FS_Subset DEF Ahead
<1>3. e \in Nat /\ seats[e].at \in Nat
  BY TeamAssumption DEF TypeOK, SeatType
<1> QED
  BY <1>1, <1>2, <1>3, FS_CardinalityType DEF Ahead, JoinedBefore

\* Of two members joined, one is ahead of the other, with everyone ahead of
\* that one: their ranks differ.
LEMMA RanksDiffer ==
  ASSUME TypeOK, NEW o \in Joined, NEW e \in Joined, JoinedBefore(o, e)
  PROVE  Cardinality(Ahead(o)) < Cardinality(Ahead(e))
<1>1. o \in Members /\ e \in Members
  BY DEF Joined
<1>2. /\ \A x \in Members : x \in Nat /\ seats[x].at \in Nat
      /\ \A x \in Joined : x \in Members
  BY TeamAssumption DEF TypeOK, SeatType, Joined
<1>3. Ahead(o) \cup {o} \subseteq Ahead(e)
  BY <1>1, <1>2 DEF Ahead, JoinedBefore
<1>4. Cardinality(Ahead(o) \cup {o}) = Cardinality(Ahead(o)) + 1
  BY <1>1, AheadFinite, FS_AddElement
<1>5. Cardinality(Ahead(o) \cup {o}) <= Cardinality(Ahead(e))
  BY <1>1, <1>3, AheadFinite, FS_Subset
<1> QED
  BY <1>1, <1>4, <1>5, AheadFinite

\* Every place is given out, in each state.
LEMMA PlacesStep == TypeOK => PlacesFilled
<1> SUFFICES ASSUME TypeOK, HeldSeats > 0
             PROVE  Cardinality({e \in Joined : ~Paused(e)}) = MinOf(Cardinality(Joined), HeldSeats - 1)
  BY DEF PlacesFilled
<1> DEFINE rank == [e \in Joined |-> Cardinality(Ahead(e))]
<1>1. Joined \subseteq Members /\ HeldSeats - 1 \in Nat
  BY HeldNat DEF Joined
<1>2. rank \in [Joined -> Nat]
  BY <1>1, AheadFinite
<1>3. IsFiniteSet(Joined)
  BY TeamAssumption, <1>1, FS_Subset
<1>4. \A x \in Joined : rank[x] < Cardinality(Joined)
  <2> TAKE x \in Joined
  <2>1. Ahead(x) \cup {x} \subseteq Joined
    BY DEF Ahead
  <2>2. Cardinality(Ahead(x) \cup {x}) = Cardinality(Ahead(x)) + 1
    BY <1>1, AheadFinite, FS_AddElement
  <2>3. Cardinality(Ahead(x) \cup {x}) <= Cardinality(Joined)
    BY <2>1, <1>3, FS_Subset
  <2> QED
    BY <1>1, <2>2, <2>3, AheadFinite
<1>5. \A x, y \in Joined : x # y => rank[x] # rank[y]
  <2> SUFFICES ASSUME NEW x \in Joined, NEW y \in Joined, x # y PROVE rank[x] # rank[y]
    OBVIOUS
  <2>1. x \in Nat /\ y \in Nat /\ seats[x].at \in Nat /\ seats[y].at \in Nat
    BY <1>1, TeamAssumption DEF TypeOK, SeatType
  <2>2. JoinedBefore(x, y) \/ JoinedBefore(y, x)
    BY <2>1 DEF JoinedBefore
  <2>3. Cardinality(Ahead(x)) # Cardinality(Ahead(y))
    BY <2>2, <1>1, RanksDiffer, AheadFinite
  <2> QED
    BY <2>3
<1>6. {e \in Joined : ~Paused(e)} = {e \in Joined : rank[e] < HeldSeats - 1}
  <2>1. ASSUME NEW e \in Joined PROVE ~Paused(e) <=> rank[e] < HeldSeats - 1
    <3>1. Cardinality(Ahead(e)) \in Nat /\ HeldSeats \in Nat
      BY <1>1, AheadFinite, HeldNat
    <3> QED
      BY <3>1 DEF Paused, Ahead
  <2> QED
    BY <2>1
<1> HIDE DEF rank
<1> QED
  BY <1>1, <1>2, <1>3, <1>4, <1>5, <1>6, RanksFill

\* The places of the licence are all given out and no more, for any number of
\* members and whatever times their joins were stamped with.
THEOREM PlacesFilledHolds == Spec => []PlacesFilled
  BY TypeCorrect, PlacesStep, PTL

-----------------------------------------------------------------------------
(***************************************************************************)
(* Slots                                                                   *)
(*                                                                         *)
(* A step takes a slot in three ways only: a device activated, a person    *)
(* invited, an invite accepted.  Each reads its limit under the licence    *)
(* lock, so none takes one the licence does not have.                      *)
(***************************************************************************)
SlotsGoal ==
  /\ Cardinality(HeldDevices)' > Cardinality(HeldDevices) =>
       Cardinality(HeldDevices)' <= HeldActivations
  /\ (People' > People /\ ~OlderReplica /\ HeldSeats > 0) => People' <= HeldSeats
  /\ \A e \in Members :
       (seats[e].state # "joined" /\ seats'[e].state = "joined") =>
         \A m \in Members : ~Paused(m)'

\* The devices held and the people counted are finite sets, before and after
\* a step.
LEMMA CountsNat ==
  /\ IsFiniteSet(HeldDevices) /\ IsFiniteSet(HeldDevices')
  /\ Cardinality(HeldDevices) \in Nat /\ Cardinality(HeldDevices') \in Nat
  /\ Cardinality(HeldDevices)' = Cardinality(HeldDevices')
  /\ People \in Nat /\ People' \in Nat
<1>1. IsFiniteSet(HeldDevices) /\ IsFiniteSet(HeldDevices')
  BY TeamAssumption, FS_Subset DEF HeldDevices
<1>2. IsFiniteSet(Live) /\ IsFiniteSet(Live')
  BY TeamAssumption, FS_Subset DEF Live
<1>3. Cardinality(Live) \in Nat /\ Cardinality(Live') \in Nat
  BY <1>2, FS_CardinalityType
<1> QED
  BY <1>1, <1>3, FS_CardinalityType DEF People

\* A step that takes no device and moves nobody but off the team takes no
\* slot.
LEMMA SlotsKept ==
  ASSUME \A d \in Devices : acts'[d].held => acts[d].held,
         \A m \in Members : \/ seats'[m].state = seats[m].state
                            \/ seats'[m].state = "removed"
                            \/ seats[m].state = "joined" /\ seats'[m].state = "pending"
  PROVE  SlotsGoal
<1>1. HeldDevices' \subseteq HeldDevices
  BY DEF HeldDevices
<1>2. Live' \subseteq Live
  BY DEF Live
<1>3. Cardinality(HeldDevices') <= Cardinality(HeldDevices)
  BY <1>1, CountsNat, FS_Subset
<1>4. People' <= People
  BY <1>2, PeopleMonotone
<1>5. ~(Cardinality(HeldDevices)' > Cardinality(HeldDevices)) /\ ~(People' > People)
  BY <1>3, <1>4, CountsNat
<1>6. ~\E e \in Members : seats[e].state # "joined" /\ seats'[e].state = "joined"
  OBVIOUS
<1> QED
  BY <1>5, <1>6 DEF SlotsGoal

\* A device is taken within the limit the licence has now.
LEMMA DeviceTaken ==
  ASSUME TypeOK, UNCHANGED seats, NEW r \in Requests,
         acts' = [acts EXCEPT ![reqs[r].device] = Activated(reqs[r], reqs[r].device)]
  PROVE  SlotsGoal
<1> DEFINE d == reqs[r].device
           q == reqs[r]
<1>1. \A x \in Devices : x # d => acts'[x] = acts[x]
  BY DEF TypeOK
<1>2. HeldActivations \in Nat /\ q.max \in Nat
  BY HeldNat DEF TypeOK, ReqType
<1>3. ~(People' > People)
  BY CountsNat DEF People, Live
<1>4. CASE d \in Devices => (acts'[d].held => acts[d].held)
  BY <1>1, <1>4, SlotsKept
<1>5. CASE d \in Devices /\ acts'[d].held /\ ~acts[d].held
  <2>1. acts'[d] = Activated(q, d)
    BY <1>5 DEF TypeOK
  <2>2. Cardinality(HeldDevices) < MinOf(q.max, HeldActivations)
    BY <1>5, <2>1 DEF Activated
  <2>3. Cardinality(HeldDevices) + 1 <= HeldActivations
    BY <2>2, <1>2, CountsNat DEF MinOf
  <2>4. HeldDevices' \subseteq HeldDevices \cup {d}
    BY <1>1 DEF HeldDevices
  <2>5. /\ IsFiniteSet(HeldDevices \cup {d})
        /\ \/ Cardinality(HeldDevices \cup {d}) = Cardinality(HeldDevices)
           \/ Cardinality(HeldDevices \cup {d}) = Cardinality(HeldDevices) + 1
    BY CountsNat, FS_AddElement
  <2>6. Cardinality(HeldDevices') <= Cardinality(HeldDevices \cup {d})
    BY <2>4, <2>5, FS_Subset
  <2>7. Cardinality(HeldDevices)' <= HeldActivations
    BY <2>3, <2>5, <2>6, <1>2, CountsNat
  <2> QED
    BY <1>3, <2>7 DEF SlotsGoal
<1> QED
  BY <1>4, <1>5

\* A person is invited within the seats the licence has now.
LEMMA PersonInvited ==
  ASSUME TypeOK, \A d \in Devices : acts'[d].held => acts[d].held,
         NEW n \in Nat, MayJoin(StricterSeatLimit(n, HeldSeats)),
         NEW e, \A m \in Members : \/ seats'[m].state = seats[m].state
                                   \/ m = e /\ seats'[m].state = "pending"
  PROVE  SlotsGoal
<1> DEFINE max == StricterSeatLimit(n, HeldSeats)
<1>1. HeldSeats \in Nat
  BY HeldNat
<1>2. HeldSeats > 0 => max \in Nat /\ max > 0 /\ max <= HeldSeats
  BY <1>1 DEF StricterSeatLimit, MinOf
<1>3. Live' \subseteq Live \cup {e}
  BY DEF Live
<1>4. People' <= People + 1
  BY <1>3, PeopleMonotone
<1>5. max > 0 => People < max
  BY DEF MayJoin
<1> HIDE DEF max
<1>6. HeldSeats > 0 => People' <= HeldSeats
  BY <1>1, <1>2, <1>4, <1>5, CountsNat
<1>7. HeldDevices' \subseteq HeldDevices
  BY DEF HeldDevices
<1>8. Cardinality(HeldDevices') <= Cardinality(HeldDevices)
  BY <1>7, CountsNat, FS_Subset
<1>9. ~(Cardinality(HeldDevices)' > Cardinality(HeldDevices))
  BY <1>8, CountsNat
<1>10. ~\E m \in Members : seats[m].state # "joined" /\ seats'[m].state = "joined"
  OBVIOUS
<1> QED
  BY <1>6, <1>9, <1>10 DEF SlotsGoal

\* With a place free for the person joining, nobody is paused by it: those
\* ahead of any member are fewer than the places.
LEMMA PersonJoins ==
  ASSUME TypeOK, TypeOK', UNCHANGED <<acts, terms>>, PlaceFree,
         NEW e \in Members, seats[e].state = "pending", seats'[e].state = "joined",
         \A m \in Members \ {e} : seats'[m] = seats[m]
  PROVE  SlotsGoal
<1>1. HeldSeats \in Nat /\ HeldSeats' = HeldSeats
  BY HeldNat DEF HeldSeats
<1>2. Joined \subseteq Members /\ Joined' = Joined \cup {e} /\ e \notin Joined
  BY DEF Joined
<1>3. IsFiniteSet(Joined) /\ IsFiniteSet(Joined')
  BY TeamAssumption, FS_Subset DEF Joined
<1>4. Cardinality(Joined') = Cardinality(Joined) + 1 /\ Cardinality(Joined) \in Nat
  BY <1>2, <1>3, FS_AddElement, FS_CardinalityType
<1>5. ASSUME NEW m \in Members, Paused(m)' PROVE FALSE
  <2> DEFINE A == {o \in Joined' : JoinedBefore(o, m)'}
  <2>1. m \in Joined' /\ HeldSeats' > 0 /\ Cardinality(A) >= HeldSeats' - 1
    BY <1>5 DEF Paused
  <2>2. m \in Nat /\ seats'[m].at \in Nat
    BY TeamAssumption DEF TypeOK, SeatType
  <2>3. A \subseteq Joined' \ {m}
    BY <2>2 DEF JoinedBefore
  <2> HIDE DEF A
  <2>4. IsFiniteSet(Joined' \ {m}) /\ Cardinality(Joined' \ {m}) = Cardinality(Joined') - 1
    BY <1>3, <2>1, FS_RemoveElement
  <2>5. Cardinality(A) <= Cardinality(Joined' \ {m}) /\ Cardinality(A) \in Nat
    BY <2>3, <2>4, FS_Subset, FS_CardinalityType
  <2>6. Cardinality(Joined) + 1 < HeldSeats
    BY <1>1, <2>1 DEF PlaceFree
  <2> QED
    BY <1>1, <1>4, <2>1, <2>4, <2>5, <2>6
<1>6. Live' \subseteq Live
  BY DEF Live
<1>7. People' <= People
  BY <1>6, PeopleMonotone
<1>8. ~(People' > People) /\ ~(Cardinality(HeldDevices)' > Cardinality(HeldDevices))
  BY <1>7, CountsNat DEF HeldDevices
<1> QED
  BY <1>5, <1>8 DEF SlotsGoal

\* No step takes a slot the licence does not have, or pauses anyone by a join.
LEMMA SlotsStep == TypeOK /\ [Next]_vars => SlotsGoal
<1> SUFFICES ASSUME TypeOK, [Next]_vars PROVE SlotsGoal
  OBVIOUS
<1>0. TypeOK /\ TypeOK'
  BY TypeStep
<1>1. ASSUME NEW r \in Requests, NEW s \in Members \cup {Owner}, NEW d \in Devices, LoadActivate(r, s, d) PROVE SlotsGoal
  BY <1>1, <1>0, SlotsKept DEF LoadActivate, TypeOK
<1>2. ASSUME NEW r \in Requests, CommitActivate(r) PROVE SlotsGoal
  <2>1. UNCHANGED seats
    BY <1>2 DEF CommitActivate
  <2>2. CASE acts' = acts
    BY <2>1, <2>2, <1>0, SlotsKept DEF TypeOK
  <2>3. CASE acts' = [acts EXCEPT ![reqs[r].device] = Activated(reqs[r], reqs[r].device)]
    BY <2>1, <2>3, <1>0, DeviceTaken
  <2> QED
    BY <1>2, <2>2, <2>3 DEF CommitActivate
<1>3. ASSUME NEW s \in Members \cup {Owner}, NEW d \in Devices, Deactivate(s, d) PROVE SlotsGoal
  BY <1>3, <1>0, SlotsKept DEF Deactivate, Free, TypeOK
<1>4. ASSUME DeleteExpiredActivations PROVE SlotsGoal
  BY <1>4, <1>0, SlotsKept DEF DeleteExpiredActivations, Free, TypeOK
<1>5. ASSUME NEW e \in Members, MintMemberKey(e) PROVE SlotsGoal
  BY <1>5, <1>0, SlotsKept DEF MintMemberKey, TypeOK
<1>6. ASSUME NEW e \in Members, RotateMemberKey(e) PROVE SlotsGoal
  BY <1>6, <1>0, SlotsKept, WithoutDevicesHeld DEF RotateMemberKey, TypeOK, SeatType
<1>7. ASSUME RotateLicenseKey PROVE SlotsGoal
  BY <1>7, <1>0, SlotsKept, WithoutDevicesHeld DEF RotateLicenseKey, TypeOK, SeatType
<1>8. ASSUME NEW r \in Requests, NEW e \in Members, LoadInvite(r, e) PROVE SlotsGoal
  BY <1>8, <1>0, SlotsKept DEF LoadInvite, TypeOK
<1>9. ASSUME NEW r \in Requests, CommitInvite(r) PROVE SlotsGoal
  <2> DEFINE e == reqs[r].seat
             max == StricterSeatLimit(reqs[r].max, HeldSeats)
  <2>1. \A x \in Devices : acts'[x].held => acts[x].held
    BY <1>9, <1>0, WithoutDevicesHeld DEF CommitInvite
  <2>2. CASE UNCHANGED seats
    BY <2>1, <2>2, <1>0, SlotsKept
  <2>3. CASE seats' = [seats EXCEPT ![e].token = TRUE]
    BY <2>1, <2>3, <1>0, SlotsKept DEF TypeOK, SeatType
  <2>4. CASE MayJoin(max) /\ seats' = [seats EXCEPT ![e] = [@ EXCEPT !.state = "pending", !.token = TRUE,
                                                                    !.key = NoKey, !.at = 0]]
    <3>1. \A m \in Members : seats'[m].state = seats[m].state \/ (m = e /\ seats'[m].state = "pending")
      BY <1>0, <2>4 DEF TypeOK, SeatType
    <3>2. reqs[r].max \in Nat
      BY <1>0 DEF TypeOK, ReqType
    <3> QED
      BY <1>0, <2>1, <2>4, <3>1, <3>2, PersonInvited
  <2> QED
    BY <1>9, <2>2, <2>3, <2>4 DEF CommitInvite
<1>10. ASSUME NEW r \in Requests, NEW e \in Members, NEW at \in Stamps, AcceptSeatInvite(r, e, at) PROVE SlotsGoal
  <2>1. UNCHANGED <<acts, terms>> /\ seats[e].state = "pending" /\ PlaceFree
    BY <1>10 DEF AcceptSeatInvite
  <2>2. seats'[e].state = "joined" /\ \A m \in Members \ {e} : seats'[m] = seats[m]
    BY <1>10, <1>0 DEF AcceptSeatInvite, TypeOK
  <2> QED
    BY <1>0, <2>1, <2>2, PersonJoins
<1>11. ASSUME NEW r \in Requests, CheckAccept(r) PROVE SlotsGoal
  BY <1>11, <1>0, SlotsKept DEF CheckAccept, TypeOK
<1>12. ASSUME NEW r \in Requests, RollbackSeatAccept(r) PROVE SlotsGoal
  BY <1>12, <1>0, SlotsKept, WithoutDevicesHeld DEF RollbackSeatAccept, TypeOK, SeatType
<1>13. ASSUME NEW e \in Members, RemoveSeat(e) PROVE SlotsGoal
  BY <1>13, <1>0, SlotsKept, WithoutDevicesHeld DEF RemoveSeat, TypeOK, SeatType
<1>14. ASSUME NEW r \in Requests, Crash(r) PROVE SlotsGoal
  BY <1>14, <1>0, SlotsKept DEF Crash, TypeOK
<1>15. ASSUME NEW e \in Members, OlderRemoveSeat(e) PROVE SlotsGoal
  BY <1>15, <1>0, SlotsKept DEF OlderRemoveSeat, TypeOK
<1>16. ASSUME NEW e \in Members, OlderReinvite(e) PROVE SlotsGoal
  <2>1. OlderReplica /\ acts' = acts
    BY <1>16 DEF OlderReinvite
  <2>2. \A m \in Members : seats'[m].state = "joined" => seats[m].state = "joined"
    BY <1>16, <1>0 DEF OlderReinvite, TypeOK, SeatType
  <2>3. ~(Cardinality(HeldDevices)' > Cardinality(HeldDevices))
    BY <2>1, CountsNat DEF HeldDevices
  <2> QED
    BY <2>1, <2>2, <2>3 DEF SlotsGoal
<1>17. ASSUME NEW e \in Members, ClearSeatLeftovers(e) PROVE SlotsGoal
  BY <1>17, <1>0, SlotsKept, WithoutDevicesHeld DEF ClearSeatLeftovers, TypeOK, SeatType
<1>18. ASSUME NEW t \in [plan : Plans, quantity : Quantities], ReadTerms(t) PROVE SlotsGoal
  BY <1>18, <1>0, SlotsKept DEF ReadTerms, TypeOK
<1>19. ASSUME NEW q \in Quantities, SetLicenseQuantity(q) PROVE SlotsGoal
  BY <1>19, <1>0, SlotsKept DEF SetLicenseQuantity, TypeOK
<1>20. ASSUME NEW p \in Plans, BeginUpgrade(p) PROVE SlotsGoal
  BY <1>20, <1>0, SlotsKept DEF BeginUpgrade, TypeOK
<1>21. ASSUME OpenUpgrade PROVE SlotsGoal
  BY <1>21, <1>0, SlotsKept DEF OpenUpgrade, TypeOK
<1>22. ASSUME AbortUpgrade PROVE SlotsGoal
  BY <1>22, <1>0, SlotsKept DEF AbortUpgrade, TypeOK
<1>23. ASSUME LapseUpgrade PROVE SlotsGoal
  BY <1>23, <1>0, SlotsKept DEF LapseUpgrade, TypeOK
<1>24. ASSUME NEW q \in Quantities, FulfillUpgrade(q) PROVE SlotsGoal
  BY <1>24, <1>0, SlotsKept DEF FulfillUpgrade, TypeOK
<1>25. ASSUME Lapse PROVE SlotsGoal
  BY <1>25, <1>0, SlotsKept DEF Lapse, StandingTo, TypeOK
<1>26. ASSUME Expire PROVE SlotsGoal
  BY <1>26, <1>0, SlotsKept DEF Expire, StandingTo, TypeOK
<1>27. ASSUME SuspendLicense PROVE SlotsGoal
  BY <1>27, <1>0, SlotsKept DEF SuspendLicense, StandingTo, TypeOK
<1>28. ASSUME ReinstateLicense PROVE SlotsGoal
  BY <1>28, <1>0, SlotsKept DEF ReinstateLicense, StandingTo, TypeOK
<1>29. ASSUME SetLicenseValidUntil PROVE SlotsGoal
  BY <1>29, <1>0, SlotsKept DEF SetLicenseValidUntil, StandingTo, TypeOK
<1>30. ASSUME RevokeLicense PROVE SlotsGoal
  BY <1>30, <1>0, SlotsKept DEF RevokeLicense, StandingTo, Free, TypeOK
<1>31. ASSUME SetProductType PROVE SlotsGoal
  BY <1>31, <1>0, SlotsKept DEF SetProductType, TypeOK
<1>32. CASE UNCHANGED vars
  BY <1>32, <1>0, SlotsKept DEF vars, TypeOK
<1> QED
  BY <1>1, <1>2, <1>3, <1>4, <1>5, <1>6, <1>7, <1>8, <1>9, <1>10, <1>11, <1>12, <1>13, <1>14, <1>15, <1>16, <1>17, <1>18, <1>19, <1>20, <1>21, <1>22, <1>23, <1>24, <1>25, <1>26, <1>27, <1>28, <1>29, <1>30, <1>31, <1>32
     DEF Next, DeviceNext, TeamNext, OlderNext, TermsNext, StandingNext

\* A device or a seat is only taken within the limit the licence has at that
\* moment, whatever the request read before: for any number of requests.
THEOREM NoSlotPastLimitHolds == Spec => NoSlotPastLimit
<1>1. TypeOK /\ [Next]_vars =>
        [/\ Cardinality(HeldDevices)' > Cardinality(HeldDevices) =>
              Cardinality(HeldDevices)' <= HeldActivations
         /\ (People' > People /\ ~OlderReplica /\ HeldSeats > 0) => People' <= HeldSeats]_vars
  BY SlotsStep DEF SlotsGoal
<1> QED
  BY <1>1, TypeCorrect, PTL DEF Spec, NoSlotPastLimit

\* Accepting an invite pauses nobody, whatever time it is stamped with.
THEOREM JoinPausesNobodyHolds == Spec => JoinPausesNobody
<1>1. TypeOK /\ [Next]_vars =>
        [\A e \in Members :
           (seats[e].state # "joined" /\ seats'[e].state = "joined") =>
             \A m \in Members : ~Paused(m)']_vars
  BY SlotsStep DEF SlotsGoal
<1> QED
  BY <1>1, TypeCorrect, PTL DEF Spec, JoinPausesNobody

-----------------------------------------------------------------------------
(***************************************************************************)
(* Metering                                                                *)
(*                                                                         *)
(* A pass about to record a row as sent has had Stripe count the row's     *)
(* identifier, and Stripe counts one again only after forgetting it.       *)
(***************************************************************************)

\* A pass has rows in hand while it pushes, and Stripe has counted the one it
\* is about to record.
InHand(p) ==
  /\ passes[p].pc \in {"push", "mark", "failed"} => passes[p].batch # {}
  /\ passes[p].pc = "mark" => billed[Metering!Row(p)] >= 1
\* Stripe counts what is queued, and nothing else.
Uncounted == \A k \in Metering!Calls : k \notin DOMAIN rows => billed[k] = 0
MeteringInv == Metering!BilledOnce /\ Uncounted /\ \A p \in Passes : InHand(p)

\* The naturals below a natural come to an end.
LEMMA NatLess == IsWellFoundedOn({p \in Nat \X Nat : p[1] < p[2]}, Nat)
<1>1. {p \in Nat \X Nat : p[1] < p[2]} = OpToRel(<, Nat)
  BY DEF OpToRel
<1> QED BY <1>1, NatLessThanWellFounded

\* A set of naturals that is not empty has a least one.
LEMMA LowestOfAll ==
  ASSUME NEW S, S \subseteq Nat, S # {}
  PROVE  \E x \in S : \A y \in S : x <= y
<1>1. PICK x \in S : \A y \in S : ~(<<y, x>> \in {p \in Nat \X Nat : p[1] < p[2]})
  BY NatLess, WFMin
<1>2. \A y \in S : x <= y
  <2> TAKE y \in S
  <2>1. x \in Nat /\ y \in Nat /\ ~(<<y, x>> \in {p \in Nat \X Nat : p[1] < p[2]})
    BY <1>1
  <2>2. <<y, x>> \in Nat \X Nat /\ <<y, x>>[1] = y /\ <<y, x>>[2] = x
    BY <2>1
  <2>3. ~(y < x)
    BY <2>1, <2>2
  <2> QED
    BY <2>1, <2>3
<1> QED
  BY <1>1, <1>2

\* The lowest row of a batch is one of it.
LEMMA LowestRow ==
  ASSUME NEW S, S \subseteq Nat, S # {}
  PROVE  Metering!Min(S) \in S
  BY LowestOfAll DEF Metering!Min

\* The lesser of a count and the cap on it.
LEMMA CappedCount ==
  ASSUME NEW n \in Nat, NEW m \in Nat
  PROVE  Metering!Min({n, m}) = IF n <= m THEN n ELSE m
<1>1. \E x \in {n, m} : \A y \in {n, m} : x <= y
  OBVIOUS
<1>2. /\ Metering!Min({n, m}) \in {n, m}
      /\ \A y \in {n, m} : Metering!Min({n, m}) <= y
  BY <1>1 DEF Metering!Min
<1> QED
  BY <1>2

\* And the last row of a batch.
LEMMA HighestRow ==
  ASSUME NEW S, S \subseteq Metering!Calls, S # {}
  PROVE  Metering!Max(S) \in S
<1>1. MaxCalls \in Nat
  BY BackgroundAssumption DEF Metering!MeteringAssumption
<1> DEFINE Left == {MaxCalls - x : x \in S}
<1>2. Left \subseteq Nat /\ Left # {}
  <2>1. PICK x \in S : TRUE
    OBVIOUS
  <2>2. \A y \in S : MaxCalls - y \in Nat
    BY <1>1 DEF Metering!Calls
  <2> QED
    BY <2>1, <2>2
<1>3. PICK i \in Left : \A j \in Left : i <= j
  BY <1>2, LowestOfAll
<1>4. PICK x \in S : i = MaxCalls - x
  BY <1>3
<1>5. \A y \in S : y \in Nat /\ y <= x
  BY <1>1, <1>3, <1>4 DEF Metering!Calls
<1>6. \E z \in S : \A y \in S : z >= y
  BY <1>4, <1>5 DEF Metering!Calls
<1> QED
  BY <1>6 DEF Metering!Max

\* The bounds of metering, as naturals.
LEMMA MeteringNats ==
  /\ MaxCalls \in Nat /\ MaxAttempts \in Nat /\ MaxMeteringFaults \in Nat
  /\ Batch \in Nat /\ Batch > 0 /\ FailuresEndPass \in Nat /\ FailuresEndPass > 0
  BY BackgroundAssumption DEF Metering!MeteringAssumption

\* Nothing is queued, nobody works.
LEMMA MeteringInit == Metering!Init => MeteringInv
<1> SUFFICES ASSUME Metering!Init PROVE MeteringInv
  OBVIOUS
<1>1. Metering!IdlePass \in Metering!PassType
  BY MeteringNats DEF Metering!IdlePass, Metering!PassType
<1>2. rows \in Seq(Metering!RowType) /\ Len(rows) = 0 /\ DOMAIN rows = {}
  BY DEF Metering!Init
<1>3. passes \in [Passes -> Metering!PassType] /\ \A p \in Passes : passes[p] = Metering!IdlePass
  BY <1>1 DEF Metering!Init
<1>4. billed \in [Metering!Calls -> 0..Metering!Twice]
  BY DEF Metering!Init, Metering!Twice
<1>5. Metering!TypeOK
  BY <1>2, <1>3, <1>4, MeteringNats DEF Metering!Init, Metering!TypeOK, Metering!IdlePass
<1>6. Uncounted
  BY DEF Metering!Init, Uncounted
<1> QED
  BY <1>2, <1>3, <1>5, <1>6 DEF MeteringInv, Metering!BilledOnce, InHand, Metering!IdlePass

\* A step of one pass that keeps the queue and Stripe's counts, and leaves
\* the pass with rows of the queue, keeps the invariant.
LEMMA MeteringKept ==
  ASSUME MeteringInv, NEW p, NEW rec \in Metering!PassType,
         passes' = [passes EXCEPT ![p] = rec],
         rec.batch \subseteq DOMAIN rows,
         rec.pc \in {"push", "mark", "failed"} => rec.batch # {},
         rec.pc = "mark" => billed'[Metering!Min(rec.batch)] >= 1,
         metered' \in BOOLEAN, lock' \subseteq Passes, faults' \in 0..MaxMeteringFaults,
         rows' \in Seq(Metering!RowType), Len(rows') <= MaxCalls, DOMAIN rows \subseteq DOMAIN rows',
         late \subseteq late', late' \subseteq Metering!Calls,
         billed' \in [Metering!Calls -> 0..Metering!Twice],
         \A i \in Metering!Calls : billed'[i] >= billed[i],
         \A k \in DOMAIN rows' : /\ rows'[k].synced = "sent" => billed'[k] >= 1
                                 /\ k \notin late' => billed'[k] <= 1,
         \A k \in Metering!Calls : k \notin DOMAIN rows' => billed'[k] = 0
  PROVE  MeteringInv'
<1>1. Metering!TypeOK /\ passes \in [Passes -> Metering!PassType]
  BY DEF MeteringInv, Metering!BilledOnce, Metering!TypeOK
<1>2. \A q \in Passes : passes'[q] = IF q = p THEN rec ELSE passes[q]
  BY <1>1
<1>3. passes' \in [Passes -> Metering!PassType]
  BY <1>1
<1>4. \A q \in Passes : passes'[q].batch \subseteq DOMAIN rows'
  BY <1>1, <1>2 DEF Metering!TypeOK
<1>5. Metering!TypeOK'
  BY <1>3, <1>4 DEF Metering!TypeOK
<1>6. ASSUME NEW q \in Passes PROVE InHand(q)'
  <2>1. CASE q = p
    BY <1>2, <2>1 DEF InHand, Metering!Row
  <2>2. CASE q # p
    <3>1. passes'[q] = passes[q] /\ InHand(q)
      BY <1>2, <2>2 DEF MeteringInv
    <3>2. passes[q].pc = "mark" => Metering!Row(q) \in Metering!Calls
      <4> SUFFICES ASSUME passes[q].pc = "mark" PROVE Metering!Row(q) \in Metering!Calls
        OBVIOUS
      <4>1. passes[q].batch \subseteq Metering!Calls /\ passes[q].batch # {}
        BY <1>1, <3>1 DEF Metering!PassType, InHand
      <4>2. passes[q].batch \subseteq Nat
        BY <4>1 DEF Metering!Calls
      <4> QED
        BY <4>1, <4>2, LowestRow DEF Metering!Row
    <3>3. \A i \in Metering!Calls : billed[i] \in Nat /\ billed'[i] \in Nat
      BY <1>1 DEF Metering!TypeOK, Metering!Twice
    <3>4. Metering!Row(q)' = Metering!Row(q)
      BY <3>1 DEF Metering!Row
    <3> QED
      BY <3>1, <3>2, <3>3, <3>4 DEF InHand
  <2> QED
    BY <2>1, <2>2
<1> QED
  BY <1>5, <1>6 DEF MeteringInv, Metering!BilledOnce, Uncounted

\* The same of a step that touches no pass.
LEMMA MeteringUnheld ==
  ASSUME MeteringInv, UNCHANGED passes,
         metered' \in BOOLEAN, lock' \subseteq Passes, faults' \in 0..MaxMeteringFaults,
         rows' \in Seq(Metering!RowType), Len(rows') <= MaxCalls, DOMAIN rows \subseteq DOMAIN rows',
         late \subseteq late', late' \subseteq Metering!Calls,
         UNCHANGED billed,
         \A k \in DOMAIN rows' : /\ rows'[k].synced = "sent" => billed[k] >= 1
                                 /\ k \notin late' => billed[k] <= 1
  PROVE  MeteringInv'
<1>1. Metering!TypeOK'
  BY DEF MeteringInv, Metering!BilledOnce, Metering!TypeOK
<1>2. Uncounted'
  BY DEF MeteringInv, Uncounted
<1> QED
  BY <1>1, <1>2 DEF MeteringInv, Metering!BilledOnce, InHand, Metering!Row

\* What the invariant says of the row a pass has in hand.
LEMMA RowInHand ==
  ASSUME MeteringInv, NEW p \in Passes, passes[p].pc \in {"push", "mark", "failed"}
  PROVE  /\ passes[p].batch # {} /\ passes[p].batch \subseteq DOMAIN rows
         /\ Metering!Row(p) \in DOMAIN rows /\ Metering!Row(p) \in Metering!Calls
<1>1. passes[p].batch # {} /\ passes[p].batch \subseteq DOMAIN rows /\ passes[p].batch \subseteq Metering!Calls
  BY DEF MeteringInv, InHand, Metering!BilledOnce, Metering!TypeOK, Metering!PassType
<1>2. Metering!Row(p) \in passes[p].batch
  BY <1>1, LowestRow DEF Metering!Row, Metering!Calls
<1> QED
  BY <1>1, <1>2

\* A pass goes on to the rows left of its batch, or to the next, or ends.
LEMMA OnwardPass ==
  ASSUME MeteringInv, NEW p \in Passes, passes[p].pc \in {"push", "mark", "failed"},
         NEW n \in Nat, Metering!Onward(p, n)
  PROVE  /\ lock' \subseteq Passes
         /\ \E rec \in Metering!PassType :
              /\ passes' = [passes EXCEPT ![p] = rec]
              /\ rec.batch \subseteq DOMAIN rows
              /\ rec.pc \in {"idle", "list", "push"}
              /\ rec.pc = "push" => rec.batch # {}
<1>1. Metering!TypeOK /\ passes[p] \in Metering!PassType /\ lock \subseteq Passes
  BY DEF MeteringInv, Metering!BilledOnce, Metering!TypeOK
<1>2. Metering!IdlePass \in Metering!PassType
  BY MeteringNats DEF Metering!IdlePass, Metering!PassType
<1>3. CASE Metering!EndPass(p)
  BY <1>1, <1>2, <1>3 DEF Metering!EndPass, Metering!IdlePass
<1>4. CASE /\ ~(n >= FailuresEndPass)
           /\ passes' = [passes EXCEPT
                ![p].pc = IF passes[p].batch \ {Metering!Row(p)} = {} THEN "list" ELSE "push",
                ![p].batch = passes[p].batch \ {Metering!Row(p)}, ![p].row = "down", ![p].inARow = n]
           /\ UNCHANGED lock
  <2> DEFINE rest == passes[p].batch \ {Metering!Row(p)}
             rec == [passes[p] EXCEPT !.pc = IF rest = {} THEN "list" ELSE "push",
                                      !.batch = rest, !.row = "down", !.inARow = n]
  <2>1. passes' = [passes EXCEPT ![p] = rec]
    BY <1>1, <1>4 DEF Metering!TypeOK
  <2>2. n \in 0..FailuresEndPass
    <3>1. ~(n >= FailuresEndPass)
      BY <1>4
    <3> QED
      BY <3>1, MeteringNats
  <2>3. rest \subseteq Metering!Calls /\ rest \subseteq DOMAIN rows
    BY <1>1 DEF Metering!TypeOK, Metering!PassType
  <2>4. rec \in Metering!PassType
    BY <1>1, <2>2, <2>3 DEF Metering!PassType
  <2>5. rec.batch = rest /\ rec.pc = IF rest = {} THEN "list" ELSE "push"
    BY <1>1 DEF Metering!PassType
  <2> HIDE DEF rec
  <2> QED
    BY <1>1, <1>4, <2>1, <2>3, <2>4, <2>5
<1> QED
  BY <1>3, <1>4 DEF Metering!Onward

\* Stripe counts an identifier once more only if it does not know it.
LEMMA CountedOnce ==
  ASSUME MeteringInv, NEW i \in Metering!Calls, Metering!StripeCounts(i)
  PROVE  /\ billed' \in [Metering!Calls -> 0..Metering!Twice]
         /\ \A k \in Metering!Calls : /\ billed'[k] \in Nat /\ billed[k] \in Nat /\ billed'[k] >= billed[k]
                                      /\ k \notin late /\ billed[k] <= 1 => billed'[k] <= 1
         /\ billed'[i] >= 1
         /\ \A k \in Metering!Calls : k # i => billed'[k] = billed[k]
         /\ late' = late
<1>1. billed \in [Metering!Calls -> 0..2] /\ billed[i] \in Nat /\ billed[i] <= 2
  BY DEF MeteringInv, Metering!BilledOnce, Metering!TypeOK, Metering!Twice
<1>2. Metering!Min({billed[i] + 1, 2}) = IF billed[i] + 1 <= 2 THEN billed[i] + 1 ELSE 2
  BY <1>1, CappedCount
<1>3. CASE Metering!Recognised(i)
  BY <1>1, <1>3 DEF Metering!StripeCounts, Metering!Recognised, Metering!Twice
<1>4. CASE ~Metering!Recognised(i)
  <2> DEFINE c == Metering!Min({billed[i] + 1, 2})
  <2>1. billed' = [billed EXCEPT ![i] = c] /\ late' = late
    BY <1>4 DEF Metering!StripeCounts, Metering!Twice
  <2>2. c \in 0..2 /\ c >= 1 /\ c >= billed[i] /\ (billed[i] = 0 => c = 1)
    BY <1>1, <1>2
  <2>3. i \notin late => billed[i] = 0
    BY <1>1, <1>4 DEF Metering!Recognised
  <2> HIDE DEF c
  <2>4. billed' \in [Metering!Calls -> 0..2] /\ \A k \in Metering!Calls : billed'[k] = IF k = i THEN c ELSE billed[k]
    BY <1>1, <2>1, <2>2
  <2> QED
    BY <1>1, <2>1, <2>2, <2>3, <2>4 DEF Metering!Twice
<1> QED
  BY <1>3, <1>4

\* A change of one row keeps the queue.
LEMMA RowChanged ==
  ASSUME rows \in Seq(Metering!RowType), NEW k \in DOMAIN rows, NEW r \in Metering!RowType,
         rows' = [rows EXCEPT ![k] = r]
  PROVE  /\ rows' \in Seq(Metering!RowType)
         /\ Len(rows') = Len(rows) /\ DOMAIN rows' = DOMAIN rows
         /\ \A j \in DOMAIN rows : rows'[j] = IF j = k THEN r ELSE rows[j]
<1>1. k \in 1..Len(rows)
  OBVIOUS
<1>2. /\ rows' \in Seq(Metering!RowType) /\ Len(rows') = Len(rows)
      /\ \A j \in 1..Len(rows) : rows'[j] = IF j = k THEN r ELSE rows[j]
  BY <1>1, ExceptSeq
<1> QED
  BY <1>2

\* What the invariant says of the queue and of Stripe's counts.
LEMMA MeteringFacts ==
  ASSUME MeteringInv
  PROVE  /\ Metering!TypeOK
         /\ rows \in Seq(Metering!RowType) /\ Len(rows) \in Nat /\ Len(rows) <= MaxCalls
         /\ DOMAIN rows = 1..Len(rows) /\ DOMAIN rows \subseteq Metering!Calls
         /\ passes \in [Passes -> Metering!PassType]
         /\ \A p \in Passes : passes[p].batch \subseteq DOMAIN rows
         /\ metered \in BOOLEAN /\ lock \subseteq Passes /\ faults \in 0..MaxMeteringFaults
         /\ late \subseteq Metering!Calls /\ billed \in [Metering!Calls -> 0..Metering!Twice]
         /\ \A i \in Metering!Calls : billed[i] \in Nat
         /\ \A k \in DOMAIN rows : /\ rows[k].synced = "sent" => billed[k] >= 1
                                   /\ k \notin late => billed[k] <= 1
         /\ \A k \in Metering!Calls : k \notin DOMAIN rows => billed[k] = 0
<1>1. Metering!TypeOK
  BY DEF MeteringInv, Metering!BilledOnce
<1>2. rows \in Seq(Metering!RowType) /\ Len(rows) \in Nat /\ Len(rows) <= MaxCalls /\ DOMAIN rows = 1..Len(rows)
  BY <1>1 DEF Metering!TypeOK
<1>3. DOMAIN rows \subseteq Metering!Calls
  BY <1>2, MeteringNats DEF Metering!Calls
<1> QED
  BY <1>1, <1>2, <1>3 DEF Metering!TypeOK, MeteringInv, Uncounted, Metering!BilledOnce, Metering!Twice

\* A pass that only moves on within a row.
LEMMA PassMoves ==
  ASSUME MeteringInv, NEW p \in Passes, NEW pc \in {"push", "mark", "failed"}, NEW why \in {"refused", "down"},
         passes[p].pc \in {"push", "mark", "failed"},
         passes' = [passes EXCEPT ![p].pc = pc, ![p].row = why],
         UNCHANGED <<metered, rows, lock>>, faults' \in 0..MaxMeteringFaults,
         late' = late, billed' \in [Metering!Calls -> 0..Metering!Twice],
         \A k \in Metering!Calls : /\ billed'[k] \in Nat /\ billed[k] \in Nat /\ billed'[k] >= billed[k]
                                   /\ k \notin late /\ billed[k] <= 1 => billed'[k] <= 1
                                   /\ k \notin DOMAIN rows => billed'[k] = billed[k],
         pc = "mark" => billed'[Metering!Row(p)] >= 1
  PROVE  MeteringInv'
<1> DEFINE rec == [passes[p] EXCEPT !.pc = pc, !.row = why]
<1>1. passes[p] \in Metering!PassType
  BY MeteringFacts
<1>2. passes' = [passes EXCEPT ![p] = rec]
  BY MeteringFacts
<1>3. rec \in Metering!PassType /\ rec.batch = passes[p].batch /\ rec.pc = pc
  BY <1>1 DEF Metering!PassType
<1> HIDE DEF rec
<1>4. rec.batch # {} /\ rec.batch \subseteq DOMAIN rows
  BY <1>3, RowInHand
<1>5. rec.pc = "mark" => billed'[Metering!Min(rec.batch)] >= 1
  BY <1>3 DEF Metering!Row
<1>6. \A k \in DOMAIN rows' : /\ rows'[k].synced = "sent" => billed'[k] >= 1
                              /\ k \notin late' => billed'[k] <= 1
  <2> TAKE k \in DOMAIN rows'
  <2>1. k \in DOMAIN rows /\ k \in Metering!Calls /\ rows' = rows
    BY MeteringFacts
  <2>2. /\ rows[k].synced = "sent" => billed[k] >= 1
        /\ k \notin late => billed[k] <= 1
    BY <2>1, MeteringFacts
  <2>3. billed'[k] \in Nat /\ billed[k] \in Nat /\ billed'[k] >= billed[k]
    BY <2>1
  <2> QED
    BY <2>1, <2>2, <2>3
<1>7. \A k \in Metering!Calls : k \notin DOMAIN rows' => billed'[k] = 0
  BY MeteringFacts
<1>8. /\ metered' \in BOOLEAN /\ lock' \subseteq Passes /\ late \subseteq late' /\ late' \subseteq Metering!Calls
      /\ rows' \in Seq(Metering!RowType) /\ Len(rows') <= MaxCalls /\ DOMAIN rows \subseteq DOMAIN rows'
      /\ \A i \in Metering!Calls : billed'[i] >= billed[i]
  BY MeteringFacts
<1> QED
  BY <1>2, <1>3, <1>4, <1>5, <1>6, <1>7, <1>8, MeteringKept

\* A row done with, or tried: Stripe's counts stay.
LEMMA RowDone ==
  ASSUME MeteringInv, NEW p \in Passes, passes[p].pc \in {"push", "mark", "failed"},
         NEW n \in Nat, Metering!Onward(p, n),
         UNCHANGED <<metered, billed, late>>, faults' \in 0..MaxMeteringFaults,
         NEW r \in Metering!RowType, rows' = rows \/ rows' = [rows EXCEPT ![Metering!Row(p)] = r],
         r.synced = "sent" => billed[Metering!Row(p)] >= 1
  PROVE  MeteringInv'
<1>1. PICK rec \in Metering!PassType :
        /\ passes' = [passes EXCEPT ![p] = rec]
        /\ rec.batch \subseteq DOMAIN rows
        /\ rec.pc \in {"idle", "list", "push"}
        /\ rec.pc = "push" => rec.batch # {}
  BY OnwardPass
<1>2. lock' \subseteq Passes
  BY OnwardPass
<1>3. /\ rows' \in Seq(Metering!RowType) /\ Len(rows') <= MaxCalls /\ DOMAIN rows' = DOMAIN rows
      /\ \A j \in DOMAIN rows : rows'[j] = rows[j] \/ (j = Metering!Row(p) /\ rows'[j] = r)
  BY RowInHand, RowChanged, MeteringFacts
<1>4. \A k \in DOMAIN rows' : /\ rows'[k].synced = "sent" => billed'[k] >= 1
                              /\ k \notin late' => billed'[k] <= 1
  BY <1>3, MeteringFacts
<1>5. \A i \in Metering!Calls : billed'[i] >= billed[i]
  BY MeteringFacts
<1>6. /\ rec.pc \in {"push", "mark", "failed"} => rec.batch # {}
      /\ rec.pc = "mark" => billed'[Metering!Min(rec.batch)] >= 1
      /\ rec.batch \subseteq DOMAIN rows /\ passes' = [passes EXCEPT ![p] = rec]
  BY <1>1
<1>7. /\ metered' \in BOOLEAN /\ late \subseteq late' /\ late' \subseteq Metering!Calls
      /\ billed' \in [Metering!Calls -> 0..Metering!Twice]
      /\ DOMAIN rows \subseteq DOMAIN rows'
      /\ \A k \in Metering!Calls : k \notin DOMAIN rows' => billed'[k] = 0
  BY <1>3, MeteringFacts
<1> QED
  BY <1>2, <1>3, <1>4, <1>5, <1>6, <1>7, MeteringKept

\* Every step of metering keeps its invariant.
LEMMA MeteringStep == MeteringInv /\ Metering!Next => MeteringInv'
<1> SUFFICES ASSUME MeteringInv, Metering!Next PROVE MeteringInv'
  OBVIOUS
<1>a. \A k \in DOMAIN rows : k \in Metering!Calls
  BY MeteringFacts
<1>b. \A i \in Metering!Calls : billed[i] >= billed[i]
  BY MeteringFacts
<1>c. Metering!IdlePass \in Metering!PassType
  BY MeteringNats DEF Metering!IdlePass, Metering!PassType
<1>1. ASSUME Metering!InsertMeteredEvent PROVE MeteringInv'
  <2> DEFINE r == [attempts |-> 0, synced |-> "no"]
  <2>1. r \in Metering!RowType /\ r.synced # "sent"
    BY MeteringNats DEF Metering!RowType
  <2>2. rows' = Append(rows, r) /\ Len(rows) < MaxCalls
    BY <1>1 DEF Metering!InsertMeteredEvent
  <2> HIDE DEF r
  <2>3. /\ rows' \in Seq(Metering!RowType) /\ Len(rows') = Len(rows) + 1
        /\ \A j \in 1..Len(rows) : rows'[j] = rows[j]
        /\ rows'[Len(rows) + 1] = r
    BY <2>1, <2>2, MeteringFacts, AppendProperties
  <2>4. Len(rows') <= MaxCalls /\ DOMAIN rows \subseteq DOMAIN rows' /\ DOMAIN rows' = 1..(Len(rows) + 1)
    BY <2>2, <2>3, MeteringFacts, MeteringNats
  <2>5. UNCHANGED <<metered, passes, lock, billed, late, faults>>
    BY <1>1 DEF Metering!InsertMeteredEvent
  <2>6. \A k \in DOMAIN rows' : /\ rows'[k].synced = "sent" => billed[k] >= 1
                                /\ k \notin late' => billed[k] <= 1
    <3> TAKE k \in DOMAIN rows'
    <3>1. CASE k \in 1..Len(rows)
      BY <2>3, <2>5, <3>1, MeteringFacts
    <3>3. Len(rows) + 1 \in Metering!Calls /\ Len(rows) + 1 \notin DOMAIN rows
      BY <2>2, MeteringFacts, MeteringNats DEF Metering!Calls
    <3>2. CASE k = Len(rows) + 1
      BY <2>1, <2>3, <2>5, <3>2, <3>3, MeteringFacts
    <3> QED
      BY <2>4, <3>1, <3>2, MeteringFacts
  <2> QED
    BY <2>3, <2>4, <2>5, <2>6, MeteringFacts, MeteringUnheld
<1>2. ASSUME Metering!ClearMeter PROVE MeteringInv'
  BY <1>2, MeteringFacts, MeteringUnheld DEF Metering!ClearMeter
<1>3. ASSUME NEW i \in Metering!Calls, Metering!StripeForgets(i) PROVE MeteringInv'
  BY <1>3, MeteringFacts, MeteringUnheld DEF Metering!StripeForgets
<1>4. ASSUME NEW p \in Passes, Metering!TryMeteredSyncLock(p) PROVE MeteringInv'
  <2> DEFINE rec == [passes[p] EXCEPT !.pc = "list"]
  <2>1. passes[p] \in Metering!PassType /\ passes[p].batch \subseteq DOMAIN rows
    BY MeteringFacts
  <2>2. rec \in Metering!PassType /\ rec.batch = passes[p].batch /\ rec.pc = "list"
    BY <2>1 DEF Metering!PassType
  <2>3. passes' = [passes EXCEPT ![p] = rec] /\ lock' = {p} /\ UNCHANGED <<metered, billed, late, rows, faults>>
    BY <1>4, MeteringFacts DEF Metering!TryMeteredSyncLock, Metering!PassTo
  <2> HIDE DEF rec
  <2> QED
    BY <2>1, <2>2, <2>3, <1>a, <1>b, MeteringFacts, MeteringKept
<1>5. ASSUME NEW p \in Passes, Metering!ListBatch(p) PROVE MeteringInv'
  <2> DEFINE found == Metering!ListUnsyncedMeteredAfter(passes[p].last)
             batch == {k \in found : Metering!Cardinality({j \in found : j < k}) < Batch}
             more == Metering!Cardinality(found) >= Batch
             rec == [passes[p] EXCEPT !.pc = "push", !.batch = batch, !.more = more, !.last = Metering!Max(batch)]
  <2>0. UNCHANGED <<metered, billed, late, rows, faults>> /\ passes[p] \in Metering!PassType
    BY <1>5, MeteringFacts DEF Metering!ListBatch
  <2>1. CASE Metering!EndPass(p)
    <3>1. passes' = [passes EXCEPT ![p] = Metering!IdlePass] /\ lock' \subseteq Passes
      BY <2>1, MeteringFacts DEF Metering!EndPass
    <3>2. Metering!IdlePass.batch = {} /\ Metering!IdlePass.pc = "idle"
      BY DEF Metering!IdlePass
    <3> QED
      BY <2>0, <3>1, <3>2, <1>a, <1>b, <1>c, MeteringFacts, MeteringKept
  <2>2. CASE /\ batch # {} /\ UNCHANGED lock
             /\ passes' = [passes EXCEPT ![p].pc = "push", ![p].batch = batch, ![p].more = more,
                                         ![p].last = Metering!Max(batch)]
    <3>1. passes' = [passes EXCEPT ![p] = rec]
      BY <2>2, MeteringFacts
    <3>2. batch \subseteq found /\ found \subseteq DOMAIN rows
      BY DEF Metering!ListUnsyncedMeteredAfter
    <3>3. more \in BOOLEAN
      OBVIOUS
    <3> HIDE DEF batch, more
    <3>4. batch \subseteq Metering!Calls
      BY <3>2, MeteringFacts
    <3>5. Metering!Max(batch) \in Metering!Calls
      BY <2>2, <3>4, HighestRow
    <3>6. Metering!Max(batch) \in 0..MaxCalls
      BY <3>5, MeteringNats DEF Metering!Calls
    <3>7. rec \in Metering!PassType /\ rec.batch = batch /\ rec.pc = "push"
      BY <2>0, <3>3, <3>4, <3>6 DEF Metering!PassType
    <3> HIDE DEF rec
    <3>8. rec.batch \subseteq DOMAIN rows /\ rec.batch # {} /\ rec.pc # "mark"
      BY <2>2, <3>2, <3>7
    <3>9. /\ rows' = rows /\ lock' \subseteq Passes /\ metered' \in BOOLEAN /\ faults' \in 0..MaxMeteringFaults
          /\ late' = late /\ billed' = billed
      BY <2>0, <2>2, MeteringFacts
    <3> QED
      BY <3>1, <3>7, <3>8, <3>9, <1>b, MeteringFacts, MeteringKept
  <2> QED
    BY <1>5, <2>1, <2>2 DEF Metering!ListBatch
<1>6. ASSUME NEW p \in Passes, Metering!DrainRow(p) PROVE MeteringInv'
  <2> DEFINE k == Metering!Row(p)
             r == [rows[k] EXCEPT !.synced = "drained"]
  <2>1. passes[p].pc = "push" /\ rows' = [rows EXCEPT ![k].synced = "drained"]
        /\ Metering!Onward(p, passes[p].inARow) /\ UNCHANGED <<metered, billed, late, faults>>
    BY <1>6 DEF Metering!DrainRow, Metering!At, Metering!MarkMeteredSynced
  <2>2. k \in DOMAIN rows /\ passes[p].inARow \in Nat
    BY <2>1, RowInHand, MeteringFacts, MeteringNats DEF Metering!PassType
  <2> HIDE DEF k
  <2>3. rows[k] \in Metering!RowType
    BY <2>2, MeteringFacts
  <2>4. r \in Metering!RowType /\ r.synced # "sent" /\ rows' = [rows EXCEPT ![k] = r]
    BY <2>1, <2>2, <2>3, MeteringFacts DEF Metering!RowType
  <2> HIDE DEF r
  <2> QED
    BY <2>1, <2>2, <2>4, MeteringFacts, RowDone DEF k
<1>7. ASSUME NEW p \in Passes, Metering!PushEvent(p) PROVE MeteringInv'
  <2> DEFINE i == Metering!Row(p)
  <2>1. passes[p].pc = "push" /\ UNCHANGED <<metered, rows, lock, faults>>
    BY <1>7 DEF Metering!PushEvent, Metering!At
  <2>2. i \in DOMAIN rows /\ i \in Metering!Calls
    BY <2>1, RowInHand
  <2>3. passes[p] \in Metering!PassType /\ passes[p].row \in {"refused", "down"}
    BY MeteringFacts DEF Metering!PassType
  <2>4. ASSUME Metering!StripeCounts(i),
               NEW pc \in {"mark", "failed"}, NEW why \in {"refused", "down"},
               passes' = [passes EXCEPT ![p].pc = pc, ![p].row = why]
        PROVE  MeteringInv'
    <3>1. \A k \in Metering!Calls : k \notin DOMAIN rows => billed'[k] = billed[k]
      BY <2>2, <2>4, CountedOnce
    <3> QED
      BY <2>1, <2>2, <2>4, <3>1, CountedOnce, MeteringFacts, PassMoves
  <2>5. CASE Metering!StripeCounts(i) /\ Metering!PassTo(p, "mark")
    <3>1. passes' = [passes EXCEPT ![p].pc = "mark", ![p].row = passes[p].row]
      BY <2>3, <2>5, MeteringFacts DEF Metering!PassTo, Metering!PassType
    <3> QED
      BY <2>3, <2>4, <2>5, <3>1
  <2>6. CASE Metering!StripeCounts(i) /\ passes' = [passes EXCEPT ![p].pc = "failed", ![p].row = "down"]
    BY <2>4, <2>6
  <2>7. CASE UNCHANGED <<billed, late>> /\ \E why \in {"refused", "down"} : passes' = [passes EXCEPT ![p].pc = "failed", ![p].row = why]
    BY <2>1, <2>7, <1>b, MeteringFacts, PassMoves
  <2> QED
    BY <1>7, <2>5, <2>6, <2>7 DEF Metering!PushEvent
<1>8. ASSUME NEW p \in Passes, Metering!RecordSynced(p) PROVE MeteringInv'
  <2> DEFINE k == Metering!Row(p)
             r == [rows[k] EXCEPT !.synced = "sent"]
  <2>1. passes[p].pc = "mark" /\ rows' = [rows EXCEPT ![k].synced = "sent"]
        /\ Metering!Onward(p, 0) /\ UNCHANGED <<metered, billed, late, faults>>
    BY <1>8 DEF Metering!RecordSynced, Metering!At, Metering!MarkMeteredSynced
  <2>2. k \in DOMAIN rows /\ billed[k] >= 1
    BY <2>1, RowInHand DEF MeteringInv, InHand
  <2> HIDE DEF k
  <2>3. rows[k] \in Metering!RowType
    BY <2>2, MeteringFacts
  <2>4. r \in Metering!RowType /\ rows' = [rows EXCEPT ![k] = r]
    BY <2>1, <2>2, <2>3, MeteringFacts DEF Metering!RowType
  <2> HIDE DEF r
  <2> QED
    BY <2>1, <2>2, <2>4, MeteringFacts, RowDone DEF k
<1>9. ASSUME NEW p \in Passes, Metering!RecordMeteredSyncFailure(p) PROVE MeteringInv'
  <2> DEFINE k == Metering!Row(p)
             a == Metering!Min({rows[k].attempts + 1, MaxAttempts})
             r == [rows[k] EXCEPT !.attempts = a]
             n == passes[p].inARow + (IF passes[p].row = "down" THEN 1 ELSE 0)
  <2>1. passes[p].pc = "failed" /\ UNCHANGED <<metered, billed, late>> /\ Metering!Onward(p, n)
    BY <1>9 DEF Metering!RecordMeteredSyncFailure, Metering!At
  <2>2. k \in DOMAIN rows
    BY <2>1, RowInHand
  <2>3. n \in Nat
    BY MeteringFacts, MeteringNats DEF Metering!PassType
  <2>4. faults' \in 0..MaxMeteringFaults
    BY <1>9, MeteringFacts, MeteringNats DEF Metering!RecordMeteredSyncFailure
  <2>5. rows' = rows \/ rows' = [rows EXCEPT ![k].attempts = a]
    BY <1>9, <2>2, MeteringFacts DEF Metering!RecordMeteredSyncFailure, Metering!Attempted
  <2> HIDE DEF k, n
  <2>6. rows[k] \in Metering!RowType
    BY <2>2, MeteringFacts
  <2>7. rows[k].attempts \in 0..MaxAttempts /\ rows[k].attempts + 1 \in Nat
    BY <2>6, MeteringNats DEF Metering!RowType
  <2>8. a \in 0..MaxAttempts
    BY <2>7, CappedCount, MeteringNats
  <2> HIDE DEF a
  <2>9. /\ r \in Metering!RowType
        /\ rows' = rows \/ rows' = [rows EXCEPT ![k] = r]
        /\ r.synced = "sent" => billed[k] >= 1
    BY <2>2, <2>5, <2>6, <2>8, MeteringFacts DEF Metering!RowType
  <2> HIDE DEF r
  <2> QED
    BY <2>1, <2>3, <2>4, <2>9, MeteringFacts, RowDone DEF k
<1>10. ASSUME NEW p \in Passes, Metering!NotMarked(p) PROVE MeteringInv'
  <2>1. passes[p].pc = "mark" /\ passes' = [passes EXCEPT ![p].pc = "failed", ![p].row = "down"]
        /\ UNCHANGED <<metered, billed, late, rows, lock>>
    BY <1>10 DEF Metering!NotMarked, Metering!At
  <2>2. faults' \in 0..MaxMeteringFaults
    BY <1>10, MeteringFacts, MeteringNats DEF Metering!NotMarked
  <2> QED
    BY <2>1, <2>2, <1>b, MeteringFacts, PassMoves
<1>11. ASSUME NEW p \in Passes, Metering!Crash(p) PROVE MeteringInv'
  <2>1. passes' = [passes EXCEPT ![p] = Metering!IdlePass] /\ lock' \subseteq Passes
        /\ UNCHANGED <<metered, billed, late, rows>>
    BY <1>11, MeteringFacts DEF Metering!Crash, Metering!EndPass
  <2>2. faults' \in 0..MaxMeteringFaults
    BY <1>11, MeteringFacts, MeteringNats DEF Metering!Crash
  <2>3. Metering!IdlePass.batch = {} /\ Metering!IdlePass.pc = "idle"
    BY DEF Metering!IdlePass
  <2> QED
    BY <2>1, <2>2, <2>3, <1>a, <1>b, <1>c, MeteringFacts, MeteringKept
<1>12. ASSUME NEW p \in Passes, Metering!LockDrops(p) PROVE MeteringInv'
  <2>1. lock' \subseteq Passes /\ UNCHANGED <<metered, billed, late, rows, passes>>
    BY <1>12, MeteringFacts DEF Metering!LockDrops
  <2>2. faults' \in 0..MaxMeteringFaults
    BY <1>12, MeteringFacts, MeteringNats DEF Metering!LockDrops
  <2> QED
    BY <2>1, <2>2, MeteringFacts, MeteringUnheld
<1> QED
  BY <1>1, <1>2, <1>3, <1>4, <1>5, <1>6, <1>7, <1>8, <1>9, <1>10, <1>11, <1>12
     DEF Metering!Next, Metering!PassStep

-----------------------------------------------------------------------------
(***************************************************************************)
(* Webhooks                                                                *)
(*                                                                         *)
(* A sender that is sending holds the row, and holds it for as long as its *)
(* request lasts: the lease it renewed before sending is the longer.  Once *)
(* the receiver has accepted, the sender that knows it holds the row.      *)
(***************************************************************************)

\* Attempts left to make: only a sender with an end to write has none.
AttemptsLeft(x) == (x.pc = "finishing" /\ x.status # "pending") \/ x.attempts < MaxRetries

\* The row a sending sender holds, while the webhook is there.
SendsHeld(s) ==
  Webhooks!Sending(s) /\ webhook # "gone" =>
    /\ Webhooks!Held(s) /\ row.status = "pending"
    /\ row.due = Lease - senders[s].age
    /\ senders[s].age <= SendTime /\ ~senders[s].heldUp

\* The sender that holds the row has the answer to write.
Knows == \E s \in Senders : /\ Webhooks!Held(s)
                            /\ senders[s].pc = "finishing" /\ senders[s].status = "delivered"

WebhooksInv ==
  /\ Webhooks!TypeOK
  /\ Webhooks!OneSender
  /\ \A s \in Senders : SendsHeld(s) /\ AttemptsLeft(senders[s])
  /\ row.status = "pending" => row.attempts < MaxRetries
  /\ row.status # "pending" => row.token = Webhooks!Nobody
  /\ webhook = "gone" => row = Webhooks!NoRow
  /\ accepted /\ row.status = "none" => webhook = "gone"
  /\ accepted /\ ~cutOff /\ row.status = "pending" => Knows

\* The constants of Webhooks.
LEMMA WebhooksConstants ==
  /\ IsFiniteSet(Senders) /\ Webhooks!Nobody \notin Senders
  /\ MaxRetries \in Nat /\ MaxRetries > 0
  /\ SendTime \in Nat /\ Lease \in Nat /\ SendTime < Lease
  /\ MaxWebhookFaults \in Nat
  BY BackgroundAssumption DEF Webhooks!WebhooksAssumption, Webhooks!IsFiniteSet, IsFiniteSet

\* Powers of two are naturals, and grow: they count the subsets of 1..n.
LEMMA PowersGrow ==
  ASSUME NEW m \in Nat, NEW n \in Nat, m <= n
  PROVE  2 ^ m \in Nat /\ 2 ^ n \in Nat /\ 2 ^ m <= 2 ^ n
<1>1. /\ IsFiniteSet(1..m) /\ Cardinality(1..m) = m
      /\ IsFiniteSet(1..n) /\ Cardinality(1..n) = n
  BY FS_Interval
<1>2. /\ IsFiniteSet(SUBSET (1..m)) /\ Cardinality(SUBSET (1..m)) = 2 ^ m
      /\ IsFiniteSet(SUBSET (1..n)) /\ Cardinality(SUBSET (1..n)) = 2 ^ n
  BY <1>1, FS_SUBSET
<1>3. SUBSET (1..m) \subseteq SUBSET (1..n)
  OBVIOUS
<1>4. Cardinality(SUBSET (1..m)) <= Cardinality(SUBSET (1..n))
  BY <1>2, <1>3, FS_Subset
<1> QED
  BY <1>2, <1>4, FS_CardinalityType

\* The longest wait of a row: a lease, or the last backoff.
LEMMA LongestWait ==
  /\ Webhooks!MaxDue \in Nat /\ Lease <= Webhooks!MaxDue
  /\ \A n \in 0..MaxRetries : 2 ^ n \in 0..Webhooks!MaxDue
<1>1. 2 ^ MaxRetries \in Nat
  BY WebhooksConstants, PowersGrow
<1>2. Webhooks!MaxDue \in Nat /\ Lease <= Webhooks!MaxDue /\ 2 ^ MaxRetries <= Webhooks!MaxDue
  BY <1>1, WebhooksConstants DEF Webhooks!MaxDue
<1>3. ASSUME NEW n \in 0..MaxRetries PROVE 2 ^ n \in Nat /\ 2 ^ n <= 2 ^ MaxRetries
  BY <1>3, WebhooksConstants, PowersGrow
<1> QED
  BY <1>1, <1>2, <1>3

\* The bounds of the fields a step writes.
LEMMA WebhooksRanges ==
  /\ 0 \in 0..MaxRetries /\ 0 \in 0..Webhooks!MaxDue /\ Lease \in 0..Webhooks!MaxDue
  /\ 0 \in 0..(Lease + 1)
  BY LongestWait, WebhooksConstants

\* What the invariant says of a sender and of the row.
LEMMA WebhooksFacts ==
  ASSUME WebhooksInv
  PROVE  /\ webhook \in {"active", "disabled", "gone"}
         /\ row \in Webhooks!RowType /\ senders \in [Senders -> Webhooks!SenderType]
         /\ row.status \in {"pending", "delivered", "failed", "none"}
         /\ row.due \in Nat /\ row.attempts \in Nat /\ row.attempts <= MaxRetries
         /\ row.token \in Senders \cup {Webhooks!Nobody}
         /\ \A s \in Senders : /\ senders[s] \in Webhooks!SenderType
                               /\ senders[s].age \in Nat /\ senders[s].attempts \in Nat
         /\ webhookFaults \in 0..MaxWebhookFaults /\ accepted \in BOOLEAN /\ cutOff \in BOOLEAN
  BY LongestWait, WebhooksConstants
     DEF WebhooksInv, Webhooks!TypeOK, Webhooks!RowType, Webhooks!SenderType, Webhooks!Statuses

\* The rows at rest have their types.
LEMMA WebhooksRows ==
  /\ Webhooks!NoRow \in Webhooks!RowType
  /\ Webhooks!Idle \in Webhooks!SenderType
  /\ AttemptsLeft(Webhooks!Idle) /\ Webhooks!Idle.pc = "idle"
  BY LongestWait, WebhooksConstants
     DEF Webhooks!NoRow, Webhooks!Idle, Webhooks!RowType, Webhooks!SenderType, Webhooks!Statuses, AttemptsLeft

\* No delivery yet.
LEMMA WebhooksInit == Webhooks!Init => WebhooksInv
<1> SUFFICES ASSUME Webhooks!Init PROVE WebhooksInv
  OBVIOUS
<1>1. Webhooks!TypeOK
  <2>1. row \in Webhooks!RowType /\ senders \in [Senders -> Webhooks!SenderType]
    BY WebhooksRows DEF Webhooks!Init
  <2>2. webhookFaults \in 0..MaxWebhookFaults
    BY WebhooksConstants DEF Webhooks!Init
  <2> QED
    BY <2>1, <2>2 DEF Webhooks!Init, Webhooks!TypeOK
<1>2. \A s \in Senders : senders[s] = Webhooks!Idle /\ ~Webhooks!Sending(s)
  BY DEF Webhooks!Init, Webhooks!Sending, Webhooks!Idle
<1>3. \A s \in Senders : SendsHeld(s) /\ AttemptsLeft(senders[s])
  BY <1>2, WebhooksRows DEF SendsHeld
<1>4. row.status = "none" /\ row.token = Webhooks!Nobody /\ webhook = "active" /\ ~accepted
  BY DEF Webhooks!Init, Webhooks!NoRow
<1> QED
  BY <1>1, <1>2, <1>3, <1>4 DEF WebhooksInv, Webhooks!OneSender

\* A step of one sender that leaves the row, and does not start sending.
LEMMA SenderKept ==
  ASSUME WebhooksInv, NEW s \in Senders, NEW rec \in Webhooks!SenderType,
         senders' = [senders EXCEPT ![s] = rec],
         UNCHANGED <<webhook, row, accepted>>,
         webhookFaults' \in 0..MaxWebhookFaults, cutOff' \in BOOLEAN, cutOff => cutOff',
         rec.pc # "sending", AttemptsLeft(rec),
         \/ cutOff' \/ ~Webhooks!Held(s) \/ senders[s].pc # "finishing"
         \/ rec.pc = "finishing" /\ rec.status = senders[s].status
  PROVE  WebhooksInv'
<1>1. \A t \in Senders : senders'[t] = IF t = s THEN rec ELSE senders[t]
  BY WebhooksFacts
<1>2. Webhooks!TypeOK'
  BY WebhooksFacts DEF Webhooks!TypeOK
<1>3. \A t \in Senders : Webhooks!Sending(t)' => t # s /\ Webhooks!Sending(t) /\ senders'[t] = senders[t]
  BY <1>1 DEF Webhooks!Sending
<1>4. Webhooks!OneSender'
  BY <1>3 DEF WebhooksInv, Webhooks!OneSender
<1>5. \A t \in Senders : SendsHeld(t)' /\ AttemptsLeft(senders'[t])
  BY <1>1, <1>3 DEF WebhooksInv, SendsHeld, Webhooks!Held
<1>6. ASSUME accepted', ~cutOff', row'.status = "pending" PROVE Knows'
  <2>1. PICK t \in Senders : /\ Webhooks!Held(t)
                             /\ senders[t].pc = "finishing" /\ senders[t].status = "delivered"
    BY <1>6 DEF WebhooksInv, Knows
  <2>2. senders'[t].pc = "finishing" /\ senders'[t].status = "delivered" /\ Webhooks!Held(t)'
    BY <1>1, <1>6, <2>1 DEF Webhooks!Held
  <2> QED
    BY <2>2 DEF Knows
<1> QED
  BY <1>2, <1>4, <1>5, <1>6 DEF WebhooksInv, AttemptsLeft

\* Every step of a delivery keeps its invariant, ends nothing twice, and has
\* it sent again only if a sender was cut off.
LEMMA WebhooksStep == WebhooksInv /\ Webhooks!Next => WebhooksInv' /\ Webhooks!ResendsOnlyIfCutOff
<1> DEFINE Quiet == (row'.status = row.status \/ row.status \notin {"delivered", "failed"} \/ row'.status = "none")
                    /\ \A s \in Senders : Webhooks!Sending(s)' => Webhooks!Sending(s)
           Goal == WebhooksInv' /\ Webhooks!ResendsOnlyIfCutOff
<1> SUFFICES ASSUME WebhooksInv, Webhooks!Next PROVE Goal
  OBVIOUS
<1>q. Quiet => Webhooks!ResendsOnlyIfCutOff
  BY DEF Webhooks!ResendsOnlyIfCutOff
\* One sender goes on to rec, the row as it was, and does not start sending.
<1>k. ASSUME NEW s \in Senders, NEW rec \in Webhooks!SenderType,
             senders' = [senders EXCEPT ![s] = rec], UNCHANGED row, rec.pc # "sending"
      PROVE  Webhooks!ResendsOnlyIfCutOff
  <2>1. \A t \in Senders : senders'[t] = IF t = s THEN rec ELSE senders[t]
    BY <1>k, WebhooksFacts
  <2>2. Quiet
    BY <1>k, <2>1 DEF Webhooks!Sending
  <2> QED
    BY <1>q, <2>2
<1> HIDE DEF Goal
<1>1. ASSUME NEW s \in Senders, Webhooks!Dispatch(s) PROVE Goal
  <2> DEFINE rec == [senders[s] EXCEPT !.pc = "waiting"]
  <2>1. /\ webhook = "active" /\ row = Webhooks!NoRow /\ senders[s].pc = "idle"
        /\ row' = [status |-> "pending", attempts |-> 0, due |-> Lease, token |-> s]
        /\ UNCHANGED <<webhook, webhookFaults, accepted, cutOff>>
    BY <1>1 DEF Webhooks!Dispatch
  <2>2. senders' = [senders EXCEPT ![s] = rec]
    BY <1>1, WebhooksFacts DEF Webhooks!Dispatch
  <2>3. rec \in Webhooks!SenderType /\ rec.pc = "waiting" /\ rec.attempts = senders[s].attempts
    BY WebhooksFacts DEF Webhooks!SenderType
  <2>4. AttemptsLeft(rec)
    BY <2>1, <2>3 DEF WebhooksInv, AttemptsLeft
  <2> HIDE DEF rec
  <2>5. \A t \in Senders : senders'[t] = IF t = s THEN rec ELSE senders[t]
    BY <2>2, WebhooksFacts
  <2>6. \A t \in Senders : ~Webhooks!Sending(t) /\ ~Webhooks!Sending(t)'
    BY <2>1, <2>3, <2>5 DEF WebhooksInv, SendsHeld, Webhooks!NoRow, Webhooks!Sending
  <2>7. ~accepted
    BY <2>1 DEF WebhooksInv, Webhooks!NoRow
  <2>8. row' \in Webhooks!RowType /\ senders' \in [Senders -> Webhooks!SenderType]
    <3>1. row' \in Webhooks!RowType
      BY <2>1, WebhooksRanges DEF Webhooks!RowType, Webhooks!Statuses
    <3>2. senders' \in [Senders -> Webhooks!SenderType]
      BY <2>2, <2>3, WebhooksFacts
    <3> QED
      BY <3>1, <3>2
  <2>9. Webhooks!TypeOK'
    BY <2>1, <2>8, WebhooksFacts DEF Webhooks!TypeOK
  <2>10. \A t \in Senders : SendsHeld(t)' /\ AttemptsLeft(senders'[t])
    BY <2>4, <2>5, <2>6 DEF WebhooksInv, SendsHeld
  <2>11. WebhooksInv'
    BY <2>1, <2>6, <2>7, <2>9, <2>10, WebhooksConstants DEF WebhooksInv, Webhooks!OneSender, AttemptsLeft
  <2>12. Quiet
    BY <2>1, <2>6 DEF Webhooks!NoRow
  <2> QED
    BY <1>q, <2>11, <2>12 DEF Goal
<1>2. ASSUME NEW s \in Senders, Webhooks!Claim(s) PROVE Goal
  <2> DEFINE rec == [Webhooks!Idle EXCEPT !.pc = "claimed", !.attempts = row.attempts]
  <2>1. /\ row.status = "pending" /\ row.due = 0 /\ senders[s].pc = "idle"
        /\ row' = [row EXCEPT !.due = Lease, !.token = s]
        /\ senders' = [senders EXCEPT ![s] = rec]
        /\ cutOff' = (cutOff \/ \E t \in Senders : Webhooks!Held(t) /\ senders[t].pc = "finishing")
        /\ UNCHANGED <<webhook, webhookFaults, accepted>>
    BY <1>2 DEF Webhooks!Claim, Webhooks!Due
  <2>2. rec \in Webhooks!SenderType /\ rec.pc = "claimed" /\ rec.attempts = row.attempts
    <3>1. row.attempts \in 0..MaxRetries /\ Webhooks!Idle \in Webhooks!SenderType
      BY WebhooksFacts, WebhooksRows DEF Webhooks!RowType
    <3> QED
      BY <3>1 DEF Webhooks!SenderType, Webhooks!Idle
  <2>3. AttemptsLeft(rec)
    BY <2>1, <2>2 DEF WebhooksInv, AttemptsLeft
  <2> HIDE DEF rec
  <2>4. \A t \in Senders : senders'[t] = IF t = s THEN rec ELSE senders[t]
    BY <2>1, WebhooksFacts
  <2>5. webhook # "gone"
    BY <2>1 DEF WebhooksInv, Webhooks!NoRow
  <2>6. ASSUME NEW t \in Senders PROVE ~Webhooks!Sending(t)
    <3>1. SendsHeld(t) /\ senders[t].age \in Nat
      BY <2>6, WebhooksFacts DEF WebhooksInv
    <3> QED
      BY <2>1, <2>5, <3>1, WebhooksConstants DEF SendsHeld
  <2>7. \A t \in Senders : ~Webhooks!Sending(t)'
    BY <2>2, <2>4, <2>6 DEF Webhooks!Sending
  <2>8. /\ row'.status = "pending" /\ row'.attempts = row.attempts /\ row'.token = s
        /\ row' \in Webhooks!RowType
    <3>1. row \in Webhooks!RowType
      BY WebhooksFacts
    <3> QED
      BY <2>1, <3>1, WebhooksRanges DEF Webhooks!RowType
  <2>9. senders' \in [Senders -> Webhooks!SenderType] /\ cutOff' \in BOOLEAN
    BY <2>1, <2>2, WebhooksFacts
  <2>10. Webhooks!TypeOK'
    BY <2>1, <2>8, <2>9, WebhooksFacts DEF Webhooks!TypeOK
  <2>11. \A t \in Senders : SendsHeld(t)' /\ AttemptsLeft(senders'[t])
    BY <2>3, <2>4, <2>7 DEF WebhooksInv, SendsHeld
  <2>12. ~(accepted' /\ ~cutOff')
    BY <2>1 DEF WebhooksInv, Knows
  <2>13. WebhooksInv'
    BY <2>1, <2>5, <2>7, <2>8, <2>10, <2>11, <2>12 DEF WebhooksInv, Webhooks!OneSender, AttemptsLeft
  <2>14. Quiet
    BY <2>1, <2>7
  <2> QED
    BY <1>q, <2>13, <2>14 DEF Goal
<1>3. ASSUME NEW s \in Senders, Webhooks!LookUp(s) PROVE Goal
  <2> DEFINE rec == IF webhook = "active" THEN [senders[s] EXCEPT !.pc = "waiting"]
                    ELSE [senders[s] EXCEPT !.pc = "finishing", !.status = "failed", !.age = 0]
  <2>1. senders[s].pc = "claimed" /\ senders' = [senders EXCEPT ![s] = rec]
        /\ UNCHANGED <<webhook, row, webhookFaults, accepted, cutOff>>
    BY <1>3 DEF Webhooks!LookUp
  <2>2. rec \in Webhooks!SenderType /\ rec.pc \in {"waiting", "finishing"}
        /\ rec.attempts = senders[s].attempts /\ (rec.pc = "finishing" => rec.status = "failed")
    <3>1. senders[s] \in Webhooks!SenderType
      BY WebhooksFacts
    <3> QED
      BY <3>1, WebhooksRanges DEF Webhooks!SenderType, Webhooks!Statuses
  <2> HIDE DEF rec
  <2>3. AttemptsLeft(rec)
    BY <2>1, <2>2 DEF WebhooksInv, AttemptsLeft
  <2>4. WebhooksInv'
    BY <2>1, <2>2, <2>3, SenderKept, WebhooksFacts
  <2> QED
    BY <1>k, <2>1, <2>2, <2>4 DEF Goal
<1>4. ASSUME NEW s \in Senders, Webhooks!LookUpFails(s) PROVE Goal
  <2> DEFINE rec == [senders[s] EXCEPT !.pc = "finishing", !.status = "failed", !.age = 0]
  <2>1. senders[s].pc = "claimed" /\ UNCHANGED <<webhook, row, accepted, cutOff>>
    BY <1>4 DEF Webhooks!LookUpFails
  <2>2. senders' = [senders EXCEPT ![s] = rec]
    BY <1>4, WebhooksFacts DEF Webhooks!LookUpFails
  <2>3. webhookFaults' \in 0..MaxWebhookFaults
    BY <1>4, WebhooksFacts, WebhooksConstants DEF Webhooks!LookUpFails, Webhooks!Fault
  <2>4. rec \in Webhooks!SenderType /\ rec.pc = "finishing" /\ rec.status = "failed"
    <3>1. senders[s] \in Webhooks!SenderType
      BY WebhooksFacts
    <3> QED
      BY <3>1, WebhooksRanges DEF Webhooks!SenderType, Webhooks!Statuses
  <2> HIDE DEF rec
  <2>5. WebhooksInv'
    BY <2>1, <2>2, <2>3, <2>4, SenderKept, WebhooksFacts DEF AttemptsLeft
  <2> QED
    BY <1>k, <2>1, <2>2, <2>4, <2>5 DEF Goal
<1>5. ASSUME NEW s \in Senders, Webhooks!Renew(s) PROVE Goal
  <2>0. senders[s].pc = "waiting" /\ UNCHANGED <<webhook, webhookFaults, accepted, cutOff>>
    BY <1>5 DEF Webhooks!Renew
  <2>a. CASE ~Webhooks!Renewable(s)
    <3>1. senders' = [senders EXCEPT ![s] = Webhooks!Idle] /\ UNCHANGED row
      BY <1>5, <2>a DEF Webhooks!Renew, Webhooks!Ends
    <3>2. WebhooksInv'
      BY <2>0, <3>1, SenderKept, WebhooksFacts, WebhooksRows
    <3> QED
      BY <1>k, <3>1, <3>2, WebhooksRows DEF Goal
  <2>b. CASE Webhooks!Renewable(s)
    <3> DEFINE rec == [senders[s] EXCEPT !.pc = "sending", !.age = 0, !.heldUp = FALSE]
    <3>1. /\ row.token = s /\ row.status = "pending" /\ row' = [row EXCEPT !.due = Lease]
      BY <1>5, <2>b DEF Webhooks!Renew, Webhooks!Renewable, Webhooks!Held
    <3>2. senders' = [senders EXCEPT ![s] = rec]
      BY <1>5, <2>b, WebhooksFacts DEF Webhooks!Renew
    <3>3. rec \in Webhooks!SenderType /\ rec.pc = "sending" /\ rec.age = 0 /\ ~rec.heldUp
         /\ rec.attempts = senders[s].attempts
      <4>1. senders[s] \in Webhooks!SenderType
        BY WebhooksFacts
      <4> QED
        BY <4>1, WebhooksRanges DEF Webhooks!SenderType
    <3> HIDE DEF rec
    <3>4. \A t \in Senders : senders'[t] = IF t = s THEN rec ELSE senders[t]
      BY <3>2, WebhooksFacts
    <3>5. webhook # "gone"
      BY <3>1, WebhooksConstants DEF WebhooksInv, Webhooks!NoRow
    <3>6. \A t \in Senders : t # s => ~Webhooks!Sending(t)
      BY <3>1, <3>5 DEF WebhooksInv, SendsHeld, Webhooks!Held
    <3>7. \A t \in Senders : Webhooks!Sending(t)' => t = s
      BY <3>4, <3>6 DEF Webhooks!Sending
    <3>8. /\ row'.status = "pending" /\ row'.attempts = row.attempts /\ row'.token = s /\ row'.due = Lease
          /\ row' \in Webhooks!RowType
      <4>1. row \in Webhooks!RowType
        BY WebhooksFacts
      <4> QED
        BY <3>1, <4>1, WebhooksRanges DEF Webhooks!RowType
    <3>9. senders' \in [Senders -> Webhooks!SenderType]
      BY <3>2, <3>3, WebhooksFacts
    <3>10. Webhooks!TypeOK'
      BY <2>0, <3>8, <3>9, WebhooksFacts DEF Webhooks!TypeOK
    <3>11. AttemptsLeft(rec)
      BY <2>0, <3>3 DEF WebhooksInv, AttemptsLeft
    <3>12. SendsHeld(s)'
      BY <3>3, <3>4, <3>8, WebhooksConstants DEF SendsHeld, Webhooks!Held
    <3>13. \A t \in Senders : SendsHeld(t)' /\ AttemptsLeft(senders'[t])
      BY <3>4, <3>7, <3>11, <3>12 DEF WebhooksInv, SendsHeld
    <3>14. ~accepted \/ cutOff
      BY <2>0, <3>1 DEF WebhooksInv, Knows, Webhooks!Held
    <3>15. WebhooksInv'
      BY <2>0, <3>1, <3>5, <3>7, <3>8, <3>10, <3>13, <3>14 DEF WebhooksInv, Webhooks!OneSender, AttemptsLeft
    <3>16. Webhooks!ResendsOnlyIfCutOff
      BY <3>1, <3>8, <3>14 DEF Webhooks!ResendsOnlyIfCutOff
    <3> QED
      BY <3>15, <3>16 DEF Goal
  <2> QED
    BY <2>a, <2>b
<1>6. ASSUME NEW s \in Senders, Webhooks!Accept(s) PROVE Goal
  <2> DEFINE out == [status |-> "delivered", attempts |-> senders[s].attempts + 1, due |-> row.due]
             rec == [Webhooks!Idle EXCEPT !.pc = "finishing", !.status = out.status,
                                          !.attempts = out.attempts, !.due = out.due]
  <2>1. /\ senders[s].pc = "sending" /\ accepted' = TRUE
        /\ UNCHANGED <<webhook, row, webhookFaults, cutOff>>
        /\ senders' = [senders EXCEPT ![s] = rec]
    BY <1>6 DEF Webhooks!Accept, Webhooks!Finishing
  <2>2. senders[s].attempts \in Nat /\ senders[s].attempts < MaxRetries
    BY <2>1, WebhooksFacts DEF WebhooksInv, AttemptsLeft
  <2>3. senders[s].attempts + 1 \in 0..MaxRetries /\ row.due \in 0..Webhooks!MaxDue
    BY <2>2, WebhooksFacts, WebhooksConstants DEF Webhooks!RowType
  <2>4. rec \in Webhooks!SenderType /\ rec.pc = "finishing" /\ rec.status = "delivered"
    BY <2>3, WebhooksRows DEF Webhooks!SenderType, Webhooks!Idle, Webhooks!Statuses
  <2> HIDE DEF rec
  <2>5. \A t \in Senders : senders'[t] = IF t = s THEN rec ELSE senders[t]
    BY <2>1, WebhooksFacts
  <2>6. \A t \in Senders : Webhooks!Sending(t)' => t # s /\ Webhooks!Sending(t) /\ senders'[t] = senders[t]
    BY <2>4, <2>5 DEF Webhooks!Sending
  <2>7. Webhooks!TypeOK'
    BY <2>1, <2>4, WebhooksFacts DEF Webhooks!TypeOK
  <2>8. Webhooks!OneSender'
    BY <2>6 DEF WebhooksInv, Webhooks!OneSender
  <2>9. \A t \in Senders : SendsHeld(t)' /\ AttemptsLeft(senders'[t])
    BY <2>1, <2>4, <2>5, <2>6 DEF WebhooksInv, SendsHeld, Webhooks!Held, AttemptsLeft
  <2>10. webhook = "gone" \/ (Webhooks!Held(s) /\ row.status = "pending")
    BY <2>1 DEF WebhooksInv, SendsHeld, Webhooks!Sending
  <2>11. webhook = "gone" \/ Knows'
    BY <2>1, <2>4, <2>5, <2>10 DEF Knows, Webhooks!Held
  <2>12. webhook = "gone" => row.status = "none"
    BY DEF WebhooksInv, Webhooks!NoRow
  <2>13. WebhooksInv'
    BY <2>1, <2>7, <2>8, <2>9, <2>10, <2>11, <2>12 DEF WebhooksInv, AttemptsLeft
  <2> QED
    BY <1>k, <2>1, <2>4, <2>13 DEF Goal
<1>7. ASSUME NEW s \in Senders, Webhooks!Refuse(s) PROVE Goal
  <2> DEFINE out == Webhooks!Outcome(senders[s].attempts + 1)
             rec == [Webhooks!Idle EXCEPT !.pc = "finishing", !.status = out.status,
                                          !.attempts = out.attempts, !.due = out.due]
  <2>1. /\ senders[s].pc = "sending"
        /\ UNCHANGED <<webhook, row, webhookFaults, accepted, cutOff>>
        /\ senders' = [senders EXCEPT ![s] = rec]
    BY <1>7 DEF Webhooks!Refuse, Webhooks!Finishing
  <2>2. senders[s].attempts \in Nat /\ senders[s].attempts < MaxRetries
    BY <2>1, WebhooksFacts DEF WebhooksInv, AttemptsLeft
  <2>3. senders[s].attempts + 1 \in 0..MaxRetries
    BY <2>2, WebhooksConstants
  <2>4. 2 ^ (senders[s].attempts + 1) \in 0..Webhooks!MaxDue
    BY <2>3, LongestWait
  <2>5. /\ out.attempts \in 0..MaxRetries /\ out.due \in 0..Webhooks!MaxDue
        /\ out.status \in {"failed", "pending"}
        /\ out.status # "pending" \/ out.attempts < MaxRetries
    <3> DEFINE n == senders[s].attempts + 1
    <3>1. CASE n >= MaxRetries
      <4>1. out = [status |-> "failed", attempts |-> n, due |-> 0]
        BY <3>1 DEF Webhooks!Outcome
      <4> QED
        BY <4>1, <2>3, WebhooksRanges
    <3>2. CASE ~(n >= MaxRetries)
      <4>1. out = [status |-> "pending", attempts |-> n, due |-> 2 ^ n]
        BY <3>2 DEF Webhooks!Outcome
      <4>2. n < MaxRetries
        BY <3>2, <2>2, WebhooksConstants
      <4> QED
        BY <4>1, <4>2, <2>3, <2>4
    <3> QED
      BY <3>1, <3>2
  <2> HIDE DEF out
  <2>6. rec \in Webhooks!SenderType /\ rec.pc = "finishing" /\ rec.status = out.status /\ rec.attempts = out.attempts
    BY <2>5, WebhooksRows DEF Webhooks!SenderType, Webhooks!Idle, Webhooks!Statuses
  <2> HIDE DEF rec
  <2>7. AttemptsLeft(rec)
    BY <2>5, <2>6 DEF AttemptsLeft
  <2>8. WebhooksInv'
    BY <2>1, <2>6, <2>7, SenderKept, WebhooksFacts
  <2> QED
    BY <1>k, <2>1, <2>6, <2>8 DEF Goal
<1>8. ASSUME NEW s \in Senders, Webhooks!Finish(s) PROVE Goal
  <2>1. /\ senders[s].pc = "finishing" /\ senders' = [senders EXCEPT ![s] = Webhooks!Idle]
        /\ UNCHANGED <<webhook, webhookFaults, accepted, cutOff>>
    BY <1>8 DEF Webhooks!Finish, Webhooks!Ends
  <2>2. CASE ~Webhooks!Held(s)
    <3>1. row' = row
      BY <1>8, <2>2 DEF Webhooks!Finish, Webhooks!Finishable
    <3>2. WebhooksInv'
      BY <2>1, <2>2, <3>1, SenderKept, WebhooksFacts, WebhooksRows
    <3> QED
      BY <1>k, <2>1, <3>1, <3>2, WebhooksRows DEF Goal
  <2>3. CASE Webhooks!Held(s)
    <3>1. row' = [status |-> senders[s].status, attempts |-> senders[s].attempts,
                  due |-> senders[s].due, token |-> Webhooks!Nobody]
      BY <1>8, <2>3 DEF Webhooks!Finish, Webhooks!Finishable
    <3>2. row.token = s /\ s # Webhooks!Nobody
      BY <2>3, WebhooksConstants DEF Webhooks!Held
    <3>3. row.status = "pending" /\ webhook # "gone"
      BY <3>2 DEF WebhooksInv, Webhooks!NoRow
    <3>4. senders[s].status \in {"pending", "delivered", "failed"} /\ senders[s] \in Webhooks!SenderType
      BY WebhooksFacts DEF Webhooks!SenderType, Webhooks!Statuses
    <3>5. row' \in Webhooks!RowType
      BY <3>1, <3>4 DEF Webhooks!RowType, Webhooks!SenderType
    <3>6. \A t \in Senders : senders'[t] = IF t = s THEN Webhooks!Idle ELSE senders[t]
      BY <2>1, WebhooksFacts
    <3>7. \A t \in Senders : ~Webhooks!Sending(t)
      BY <2>1, <3>2, <3>3 DEF WebhooksInv, SendsHeld, Webhooks!Held, Webhooks!Sending
    <3>8. \A t \in Senders : ~Webhooks!Sending(t)'
      BY <3>6, <3>7, WebhooksRows DEF Webhooks!Sending
    <3>9. Webhooks!TypeOK'
      BY <2>1, <3>5, WebhooksRows, WebhooksFacts DEF Webhooks!TypeOK
    <3>10. \A t \in Senders : SendsHeld(t)' /\ AttemptsLeft(senders'[t])
      BY <3>6, <3>8, WebhooksRows DEF WebhooksInv, SendsHeld
    <3>11. row'.status = "pending" => row'.attempts < MaxRetries
      BY <2>1, <3>1 DEF WebhooksInv, AttemptsLeft
    <3>12. ~(accepted /\ ~cutOff /\ row'.status = "pending")
      <4> SUFFICES ASSUME accepted, ~cutOff, row'.status = "pending" PROVE FALSE
        OBVIOUS
      <4>1. PICK t \in Senders : Webhooks!Held(t) /\ senders[t].status = "delivered"
        BY <3>3 DEF WebhooksInv, Knows
      <4>2. t = s
        BY <4>1, <3>2 DEF Webhooks!Held
      <4> QED
        BY <4>1, <4>2, <3>1
    <3>13. row'.token = Webhooks!Nobody /\ row'.status # "none"
      BY <3>1, <3>4
    <3>14. WebhooksInv'
      BY <2>1, <3>3, <3>8, <3>9, <3>10, <3>11, <3>12, <3>13 DEF WebhooksInv, Webhooks!OneSender, AttemptsLeft
    <3>15. Quiet
      BY <3>3, <3>8
    <3> QED
      BY <1>q, <3>14, <3>15 DEF Goal
  <2> QED
    BY <2>2, <2>3
<1>9. ASSUME NEW s \in Senders, Webhooks!Lose(s) PROVE Goal
  <2>1. senders' = [senders EXCEPT ![s] = Webhooks!Idle] /\ cutOff' = TRUE /\ UNCHANGED <<webhook, row, accepted>>
    BY <1>9 DEF Webhooks!Lose, Webhooks!Ends
  <2>2. webhookFaults' \in 0..MaxWebhookFaults
    BY <1>9, WebhooksFacts, WebhooksConstants DEF Webhooks!Lose, Webhooks!Fault
  <2>3. WebhooksInv'
    BY <2>1, <2>2, SenderKept, WebhooksRows
  <2> QED
    BY <1>k, <2>1, <2>3, WebhooksRows DEF Goal
<1>10. ASSUME NEW s \in Senders, Webhooks!HoldUp(s) PROVE Goal
  <2> DEFINE rec == [senders[s] EXCEPT !.heldUp = TRUE]
  <2>1. senders[s].pc # "sending" /\ UNCHANGED <<webhook, row, accepted, cutOff>>
    BY <1>10 DEF Webhooks!HoldUp
  <2>2. senders' = [senders EXCEPT ![s] = rec]
    BY <1>10, WebhooksFacts DEF Webhooks!HoldUp
  <2>3. webhookFaults' \in 0..MaxWebhookFaults
    BY <1>10, WebhooksFacts, WebhooksConstants DEF Webhooks!HoldUp, Webhooks!Fault
  <2>4. senders[s] \in Webhooks!SenderType
    BY WebhooksFacts
  <2>5. rec \in Webhooks!SenderType /\ rec.pc = senders[s].pc /\ rec.status = senders[s].status
        /\ rec.attempts = senders[s].attempts
    BY <2>4 DEF Webhooks!SenderType
  <2> HIDE DEF rec
  <2>6. AttemptsLeft(rec)
    BY <2>5 DEF WebhooksInv, AttemptsLeft
  <2>7. WebhooksInv'
    BY <2>1, <2>2, <2>3, <2>5, <2>6, SenderKept, WebhooksFacts
  <2> QED
    BY <1>k, <2>1, <2>2, <2>5, <2>7 DEF Goal
<1>11. ASSUME Webhooks!SetActive PROVE Goal
  <2>1. /\ webhook \in {"active", "disabled"} /\ webhook' \in {"active", "disabled"}
        /\ UNCHANGED <<row, senders, webhookFaults, accepted, cutOff>>
    BY <1>11 DEF Webhooks!SetActive
  <2>2. Webhooks!TypeOK'
    BY <2>1, WebhooksFacts DEF Webhooks!TypeOK
  <2>3. \A t \in Senders : (Webhooks!Sending(t)' <=> Webhooks!Sending(t)) /\ SendsHeld(t)' /\ AttemptsLeft(senders'[t])
    BY <2>1 DEF WebhooksInv, SendsHeld, Webhooks!Held, Webhooks!Sending
  <2>4. Webhooks!OneSender'
    BY <2>3 DEF WebhooksInv, Webhooks!OneSender
  <2>5. accepted' /\ ~cutOff' /\ row'.status = "pending" => Knows'
    BY <2>1 DEF WebhooksInv, Knows, Webhooks!Held
  <2>6. WebhooksInv'
    BY <2>1, <2>2, <2>3, <2>4, <2>5 DEF WebhooksInv, AttemptsLeft
  <2>7. Quiet
    BY <2>1, <2>3
  <2> QED
    BY <1>q, <2>6, <2>7 DEF Goal
<1>12. ASSUME Webhooks!DeleteWebhook PROVE Goal
  <2>1. webhook' = "gone" /\ row' = Webhooks!NoRow /\ UNCHANGED <<senders, webhookFaults, accepted, cutOff>>
    BY <1>12 DEF Webhooks!DeleteWebhook
  <2>2. Webhooks!TypeOK'
    BY <2>1, WebhooksFacts, WebhooksRows DEF Webhooks!TypeOK
  <2>3. \A t \in Senders : (Webhooks!Sending(t)' <=> Webhooks!Sending(t)) /\ SendsHeld(t)' /\ AttemptsLeft(senders'[t])
    BY <2>1 DEF WebhooksInv, SendsHeld, Webhooks!Sending
  <2>4. Webhooks!OneSender'
    BY <2>3 DEF WebhooksInv, Webhooks!OneSender
  <2>5. row'.status = "none" /\ row'.token = Webhooks!Nobody
    BY <2>1 DEF Webhooks!NoRow
  <2>6. WebhooksInv'
    BY <2>1, <2>2, <2>3, <2>4, <2>5 DEF WebhooksInv, AttemptsLeft
  <2>7. Quiet
    BY <2>3, <2>5
  <2> QED
    BY <1>q, <2>6, <2>7 DEF Goal
<1>13. ASSUME Webhooks!Tick PROVE Goal
  <2>1. /\ \A s \in Senders : senders[s].pc # "idle" => senders[s].age < Webhooks!Limit(s)
        /\ row' = [row EXCEPT !.due = IF @ = 0 THEN 0 ELSE @ - 1]
        /\ senders' = [s \in Senders |->
             IF senders[s].pc = "idle" THEN Webhooks!Idle ELSE [senders[s] EXCEPT !.age = @ + 1]]
        /\ UNCHANGED <<webhook, webhookFaults, accepted, cutOff>>
    BY <1>13 DEF Webhooks!Tick
  <2>2. row \in Webhooks!RowType /\ row.due \in 0..Webhooks!MaxDue /\ row.due \in Nat
    BY WebhooksFacts DEF Webhooks!RowType
  <2>3. (IF row.due = 0 THEN 0 ELSE row.due - 1) \in 0..Webhooks!MaxDue
    BY <2>2, LongestWait
  <2>4. /\ row' \in Webhooks!RowType /\ row'.status = row.status /\ row'.token = row.token
        /\ row'.attempts = row.attempts /\ row'.due = IF row.due = 0 THEN 0 ELSE row.due - 1
    BY <2>1, <2>2, <2>3 DEF Webhooks!RowType
  <2>5. ASSUME NEW s \in Senders
        PROVE  /\ senders'[s] \in Webhooks!SenderType /\ senders'[s].pc = senders[s].pc
               /\ senders[s].pc # "idle" => /\ senders'[s].status = senders[s].status
                                            /\ senders'[s].heldUp = senders[s].heldUp
                                            /\ senders'[s].age = senders[s].age + 1
                                            /\ senders[s].age < Webhooks!Limit(s)
               /\ AttemptsLeft(senders'[s])
    <3>1. senders[s] \in Webhooks!SenderType /\ senders[s].age \in Nat
      BY <2>5, WebhooksFacts
    <3>2. CASE senders[s].pc = "idle"
      BY <2>1, <3>2, WebhooksRows
    <3>3. CASE senders[s].pc # "idle"
      <4>1. senders'[s] = [senders[s] EXCEPT !.age = senders[s].age + 1] /\ senders[s].age < Webhooks!Limit(s)
        BY <2>1, <3>3
      <4>2. Webhooks!Limit(s) \in {SendTime, Lease + 1, 0}
        BY DEF Webhooks!Limit
      <4>3. senders[s].age + 1 \in 0..(Lease + 1)
        BY <3>1, <4>1, <4>2, WebhooksConstants
      <4>4. /\ senders'[s] \in Webhooks!SenderType /\ senders'[s].pc = senders[s].pc
            /\ senders'[s].status = senders[s].status /\ senders'[s].attempts = senders[s].attempts
            /\ senders'[s].age = senders[s].age + 1 /\ senders'[s].heldUp = senders[s].heldUp
        BY <3>1, <4>1, <4>3 DEF Webhooks!SenderType
      <4>5. AttemptsLeft(senders'[s])
        BY <4>4 DEF WebhooksInv, AttemptsLeft
      <4> QED
        BY <4>1, <4>4, <4>5
    <3> QED
      BY <3>2, <3>3
  <2>6. senders' \in [Senders -> Webhooks!SenderType]
    BY <2>1, <2>5
  <2>7. Webhooks!TypeOK'
    BY <2>1, <2>4, <2>6, WebhooksFacts DEF Webhooks!TypeOK
  <2>8. \A t \in Senders : Webhooks!Sending(t)' <=> Webhooks!Sending(t)
    BY <2>5 DEF Webhooks!Sending
  <2>9. Webhooks!OneSender'
    BY <2>8 DEF WebhooksInv, Webhooks!OneSender
  <2>10. ASSUME NEW t \in Senders PROVE SendsHeld(t)'
    <3> SUFFICES ASSUME Webhooks!Sending(t)', webhook # "gone"
                 PROVE  /\ Webhooks!Held(t)' /\ row'.status = "pending"
                        /\ row'.due = Lease - senders'[t].age
                        /\ senders'[t].age <= SendTime /\ ~senders'[t].heldUp
      BY <2>1 DEF SendsHeld
    <3>1. senders[t].pc = "sending" /\ Webhooks!Sending(t)
      BY <2>8 DEF Webhooks!Sending
    <3>2. /\ Webhooks!Held(t) /\ row.status = "pending" /\ row.due = Lease - senders[t].age
          /\ ~senders[t].heldUp
      BY <3>1 DEF WebhooksInv, SendsHeld
    <3>a. Webhooks!Limit(t) = SendTime
      BY <3>1, <3>2 DEF Webhooks!Limit
    <3>b. senders[t].pc # "idle"
      BY <3>1
    <3>3. senders'[t].age = senders[t].age + 1 /\ senders[t].age < SendTime
      BY <2>5, <3>a, <3>b
    <3>4. senders[t].age \in Nat
      BY WebhooksFacts
    <3>5. row.due # 0 /\ row'.due = row.due - 1
      BY <2>4, <3>2, <3>3, <3>4, WebhooksConstants
    <3>6. row'.due = Lease - senders'[t].age /\ senders'[t].age <= SendTime
      BY <3>2, <3>3, <3>4, <3>5, WebhooksConstants
    <3> QED
      BY <2>4, <2>5, <3>b, <3>2, <3>6 DEF Webhooks!Held
  <2>11. accepted' /\ ~cutOff' /\ row'.status = "pending" => Knows'
    <3> SUFFICES ASSUME accepted, ~cutOff, row.status = "pending" PROVE Knows'
      BY <2>1, <2>4
    <3>1. PICK t \in Senders : /\ Webhooks!Held(t)
                               /\ senders[t].pc = "finishing" /\ senders[t].status = "delivered"
      BY DEF WebhooksInv, Knows
    <3>2. Webhooks!Held(t)' /\ senders'[t].pc = "finishing" /\ senders'[t].status = "delivered"
      BY <2>4, <2>5, <3>1 DEF Webhooks!Held
    <3> QED
      BY <3>2 DEF Knows
  <2>12. webhook' = "gone" => row' = Webhooks!NoRow
    BY <2>1 DEF WebhooksInv, Webhooks!NoRow
  <2>13. WebhooksInv'
    BY <2>1, <2>4, <2>5, <2>7, <2>9, <2>10, <2>11, <2>12 DEF WebhooksInv, AttemptsLeft
  <2>14. Quiet
    BY <2>4, <2>8
  <2> QED
    BY <1>q, <2>13, <2>14 DEF Goal
<1> QED
  BY <1>1, <1>2, <1>3, <1>4, <1>5, <1>6, <1>7, <1>8, <1>9, <1>10, <1>11, <1>12, <1>13 DEF Webhooks!Next

-----------------------------------------------------------------------------
(***************************************************************************)
(* The composition: a step of one part leaves the others alone.            *)
(***************************************************************************)

\* What metered billing keeps, it keeps when none of its state changes.
LEMMA MeteringStill == MeteringInv /\ UNCHANGED meteringVars => MeteringInv'
  BY DEF MeteringInv, meteringVars, Metering!BilledOnce, Metering!TypeOK, Uncounted, InHand, Metering!Row

\* So does a delivery.
LEMMA WebhooksStill == WebhooksInv /\ UNCHANGED webhookVars => WebhooksInv'
  BY DEF WebhooksInv, webhookVars, Webhooks!TypeOK, Webhooks!OneSender, Webhooks!Sending, Webhooks!Held,
         SendsHeld, Knows

\* What is recorded as sent, Stripe bills, and bills once while it remembers:
\* for any number of calls, sync passes, lost answers, crashes and dropped
\* locks (syncOne's identifier, MarkMeteredSynced).
THEOREM BilledOnceHolds == Background => []BilledOnce
<1>1. BackgroundInit => MeteringInv
  BY MeteringInit DEF BackgroundInit
<1>2. MeteringInv /\ [BackgroundNext]_<<part, vars, meteringVars, webhookVars>> => MeteringInv'
  <2> SUFFICES ASSUME MeteringInv, [BackgroundNext]_<<part, vars, meteringVars, webhookVars>>
               PROVE  MeteringInv'
    OBVIOUS
  <2>1. CASE MeteringNext
    BY <2>1, MeteringStep DEF MeteringNext
  <2>2. CASE WebhooksNext
    BY <2>2, MeteringStill DEF WebhooksNext
  <2>3. CASE SeatsNext
    BY <2>3, MeteringStill DEF SeatsNext
  <2>4. CASE Rests \/ UNCHANGED <<part, vars, meteringVars, webhookVars>>
    BY <2>4, MeteringStill DEF Rests
  <2> QED
    BY <2>1, <2>2, <2>3, <2>4 DEF BackgroundNext
<1>3. MeteringInv => BilledOnce
  BY DEF MeteringInv, BilledOnce
<1> QED
  BY <1>1, <1>2, <1>3, PTL DEF Background

\* A delivery is sent by one sender at a time, stays delivered or failed, and
\* is sent again after the receiver accepted it only if a sender was cut off:
\* for any number of senders, attempts and faults, and any lease longer than a
\* request (ClaimPendingDeliveries, RenewWebhookClaim, FinishWebhookDelivery).
THEOREM ResentOnlyIfCutOffHolds == Background => ResentOnlyIfCutOff
<1>1. BackgroundInit => WebhooksInv
  BY WebhooksInit DEF BackgroundInit
<1>2. WebhooksInv /\ [BackgroundNext]_<<part, vars, meteringVars, webhookVars>> =>
        /\ WebhooksInv'
        /\ [part = "webhooks" => (Webhooks!TypeOK /\ Webhooks!OneSender)' /\ Webhooks!ResendsOnlyIfCutOff]_<<part, webhookVars>>
  <2> DEFINE Promise == part = "webhooks" => (Webhooks!TypeOK /\ Webhooks!OneSender)' /\ Webhooks!ResendsOnlyIfCutOff
  <2> SUFFICES ASSUME WebhooksInv, [BackgroundNext]_<<part, vars, meteringVars, webhookVars>>
               PROVE  WebhooksInv' /\ (Promise \/ UNCHANGED <<part, webhookVars>>)
    OBVIOUS
  <2>1. CASE WebhooksNext
    <3>1. WebhooksInv' /\ Webhooks!ResendsOnlyIfCutOff
      BY <2>1, WebhooksStep DEF WebhooksNext
    <3>2. (Webhooks!TypeOK /\ Webhooks!OneSender)'
      BY <3>1 DEF WebhooksInv
    <3> QED
      BY <3>1, <3>2
  <2>2. CASE MeteringNext
    BY <2>2, WebhooksStill DEF MeteringNext
  <2>3. CASE SeatsNext
    BY <2>3, WebhooksStill DEF SeatsNext
  <2>4. CASE Rests \/ UNCHANGED <<part, vars, meteringVars, webhookVars>>
    BY <2>4, WebhooksStill DEF Rests
  <2> QED
    BY <2>1, <2>2, <2>3, <2>4 DEF BackgroundNext
<1> QED
  BY <1>1, <1>2, PTL DEF Background, ResentOnlyIfCutOff
=============================================================================
