CONSTANTS
  Names <- MCNames
  Worlds <- MCWorlds
SPECIFICATION FairSpec
INVARIANT TypeOK
INVARIANT CallsReach
PROPERTY TokensStay
PROPERTY EventuallyCoherent
CHECK_DEADLOCK FALSE
