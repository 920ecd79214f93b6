SPECIFICATION Spec
CONSTANTS
  MaxRedials <- MCMaxRedials
  MaxMsgs = 2
INVARIANT MsgSendAssertionHolds
CHECK_DEADLOCK FALSE
