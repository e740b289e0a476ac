SPECIFICATION Steady
CONSTANTS
  Members = {1, 2}
  Devices = {d1, d2}
  Requests = {r1, r2}
  Plans <- AllPlans
  Quantities = {1, 2}
  Stamps = {1, 2}
  MaxSerial = 4
  OlderReplica = FALSE
SYMMETRY BothSymmetry
CHECK_DEADLOCK FALSE
INVARIANTS DevicesOnLiveKeys NoLeftovers PlacesFilled UpgradeHoldsTeam
PROPERTIES NoSlotPastLimit NewDeviceOnWorkingKey JoinPausesNobody
