SPECIFICATION Spec
CONSTANT AUTH_RETRIES = 2
INVARIANT StateFollowsPhase
INVARIANT AccountingFollowsSession
PROPERTY AuthenticationEnds
