SPECIFICATION Spec
CONSTANTS
  Envs <- SmallEnvs
INVARIANTS ListingSorted ListingComplete
PROPERTIES ListingEnds
CHECK_DEADLOCK FALSE
