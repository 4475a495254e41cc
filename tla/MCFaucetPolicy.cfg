CONSTANTS
  Requests = {r1, r2}
  NumWorkers = 2
  Forms <- MCForms
  Addresses <- MCAddresses
  Settings <- MCSettings
  Day = 2
  Window = 4
  MissingDay = 2
  OneBtc = 9
  InitialSubsidy = 9
  HalvingInterval = 2
  CacheTtl = 1
  Coins = 16
  Fee = 1
  MaxHeight = 4
  MaxDeposits = 1
  MaxErrors = 1
SPECIFICATION Spec
SYMMETRY Symmetry
CHECK_DEADLOCK FALSE
INVARIANTS ReserveKept WorkPaysItsPrice PriceCoversMining ScarcityNeverCheapens
