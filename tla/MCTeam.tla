------------------------------- MODULE MCTeam -------------------------------
(***************************************************************************)
(* Two small products for TLC, each with its own plans; a behaviour is      *)
(* about a licence of one of them.  The first has devices and one member,   *)
(* the second members, upgrades and no devices.                             *)
(***************************************************************************)
EXTENDS Team, TLC

VARIABLE part

Plan(perSeat, maxSeats, maxActivations, maxQuantity, free) ==
  [perSeat |-> perSeat, maxSeats |-> maxSeats, maxActivations |-> maxActivations,
   minQuantity |-> 1, maxQuantity |-> maxQuantity, free |-> free]

PerSeat == Plan(TRUE, 1, 1, 3, FALSE)       \* a device for each seat, up to 3
FreeForAll == Plan(FALSE, 0, 2, 0, TRUE)    \* no seat limit, two devices
PerSeatPair == Plan(TRUE, 1, 1, 2, FALSE)   \* sold for one or two seats
Pair == Plan(FALSE, 2, 2, 0, FALSE)         \* two people, two devices

\* No plan has a seat limit of its own: the product may lose its seats.
PerSeatOnly == {PerSeat}
UpgradePlans == {PerSeatPair, Pair, FreeForAll}
AllPlans == PerSeatOnly \cup UpgradePlans

BothSymmetry == Permutations(Devices) \cup Permutations(Requests)

\* The product of the devices has no other plan; it may lose its seats.
OnDevices == INSTANCE Team WITH Plans <- PerSeatOnly

-----------------------------------------------------------------------------
DevicesScope ==
  /\ terms.plan \in PerSeatOnly
  /\ \A r \in Requests : reqs[r].seat \in {Owner, 1}
  /\ \A e \in Members : seats[e].at < 2

PlacesScope ==
  /\ terms.plan \in UpgradePlans
  /\ opening.open => opening.plan \in UpgradePlans
  /\ serial < 4
  /\ HeldDevices = {}
  /\ \E r \in Requests : reqs[r] = Idle

SteadyInit ==
  /\ Init
  /\ \/ part = "devices" /\ DevicesScope
     \/ part = "places" /\ PlacesScope

\* Every replica is on this version (OlderNext is in Background's run): no
\* seat is left with anything to clear, says NoLeftovers.
DevicesNext ==
  /\ part = "devices"
  /\ DeviceNext \/ TeamNext \/ TermsNext \/ StandingNext \/ OnDevices!SetProductType
  /\ DevicesScope'

PlacesNext ==
  /\ part = "places"
  /\ TeamNext \/ TermsNext \/ StandingNext
  /\ PlacesScope'

Steady == SteadyInit /\ [][(DevicesNext \/ PlacesNext) /\ UNCHANGED part]_<<part, vars>>
=============================================================================
