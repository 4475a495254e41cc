\* Two free requests of one IP.
CONSTANTS
  Requests = {r1, r2}
  NumWorkers = 2
  Ips = {i1}
  NoIp = NoIp
  Nonces = {}
  NoNonce = NoNonce
  DaySeconds = 2
  Ttl = 1
  MaxPerDay = 1
  OnePerDay = TRUE
  RetentionDays = 1
  RequestLife = 1
  MaxClock = 2
SPECIFICATION Spec
SYMMETRY Symmetry
INVARIANT
  OneFreeClaimPerDay
\* Requests are finite: the system stops when each has been made.
CHECK_DEADLOCK FALSE
