SPECIFICATION LoopFairSpec
CONSTANTS
  Msgs = {m1, m2}
  None = None
  QueueLen = 3
  QThresMin = 0
  QThresMax = 2
  Handles = {msgh, f1}
  Structs = {1, 2, 3}
  NoEvent = NoEvent
  Threads = {th1}
  msgh = msgh
INVARIANTS
  NoLostWakeup
  SleepsRightly
  HandlersMeetTheLiving
PROPERTY ImplementsFifo
CHECK_DEADLOCK FALSE
