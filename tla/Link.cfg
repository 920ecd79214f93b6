SPECIFICATION Spec
CONSTANTS
  MaxRedials <- MCMaxRedials
  MaxMsgs = 2
INVARIANTS
  PhasesAgree
  AdmissionMatchesPhase
  NodeHeld
  DeviceFollowsRequest
  DyingLinkVanishes
CHECK_DEADLOCK FALSE
