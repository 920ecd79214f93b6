SPECIFICATION Spec
CONSTANTS
  IP = IP
  IPv6 = IPv6
  IFACE_IDLE_SPLIT = 4
INVARIANTS
  OpenIsServed
  FlagsAreTrue
PROPERTIES
  IdleClosesInTime
CHECK_DEADLOCK FALSE
