SPECIFICATION PactionFairSpec
CONSTANTS
  Actions = {a1, a2, a3}
  Slots = {thread, acct_thread}
  None = None
  Loop = Loop
INVARIANTS
  ReferenceValid
  OutcomeIsSettled
  CleanupUndisturbed
PROPERTY ActionsEnd
