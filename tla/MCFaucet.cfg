\* Two requests of any kind, two challenges, two workers.
CONSTANTS
  Requests = {r1, r2}
  NumWorkers = 2
  Ips = {i1}
  NoIp = NoIp
  Nonces = {n1, n2}
  NoNonce = NoNonce
  DaySeconds = 2
  Ttl = 1
  MaxPerDay = 1
  OnePerDay = TRUE
  RetentionDays = 1
  RequestLife = 1
  MaxClock = 4
SPECIFICATION Spec
SYMMETRY Symmetry
INVARIANTS
  TypeOK
  SingleUseWhileValid
  PowCountExact
  SerialPowCap
  SerialDailyLimit
  UsageCountsPayouts
PROPERTIES
  ImplementsVouchers
\* Requests are finite: the system stops when each has been made.
CHECK_DEADLOCK FALSE
