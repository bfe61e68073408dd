SPECIFICATION FairSpec
CONSTANTS
  h1 = h1
  h2 = h2
  NONE = NONE
  Host = {h1}
  MaxAway = 2
  MaxMishaps = 2
  MaxSends = 1
CHECK_DEADLOCK FALSE
INVARIANTS
  TypeOK
  LeadIsReal
  NoOldLead
PROPERTIES
  IsALead
  LeadReturns
