SPECIFICATION Spec
CONSTANTS
  Static = {s1}
  Instances = {i1, i2}
  NSlots = 2
  Ncps = {IPCP}
  Template = Template
  None = None
  MaxMsgs = 2
  MaxLost = 1
INVARIANTS
  DecisionsAreCurrent
  AssertionsHold
  InstancesVacateSlots
CHECK_DEADLOCK FALSE
