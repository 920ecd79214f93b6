SPECIFICATION Spec
CONSTANTS
  Links = {l1, l2}
  OutCallLinks = {l2}
  Ctrls = {1, 2}
  Sessions = {1, 2}
  None = None
  NoCtrl = 0
  gPPTPtunlimit = 2
  gL2TPtunlimit = 2
  Kinds = {"tcp", "udp", "modem", "pppoe"}
  MaxMsgs = 1
INVARIANTS
  TablesAgree
  WaitsAreTimed
  EndsAreTold
CONSTRAINT Explored
CHECK_DEADLOCK FALSE
