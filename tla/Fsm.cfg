SPECIFICATION FairSpec
CONSTANTS
  MaxConfig = 3
  MaxTerminate = 2
  MaxFailure = 2
  EchoLimit = 3
  Passive = FALSE
  IdMod = 4
INVARIANTS
  TimersMatchState
  StateRemembersEvents
PROPERTIES
  LayersFollow
  ImplementsLayer
  TerminationEnds
  NegotiationEnds
