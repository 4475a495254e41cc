CONSTANTS
  Guardians = 2
  MaxKills = 2
  MaxErrors = 2
  Openings = 2
  Networks = {{"electrum", "ark"}, {"fedimint"}}
SPECIFICATION Spec
CHECK_DEADLOCK FALSE
INVARIANTS TypeOK FundedMeansBacked
PROPERTIES ImplementsAtLeastOnce OnlyKnownDeadEnds
