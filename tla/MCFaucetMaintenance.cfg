\* Two workers that start one after the other; two faults.
CONSTANTS
  Workers = {w1, w2}
  Interval = 3
  MaxFaults = 2
  Staggered = TRUE
SPECIFICATION Spec
PROPERTIES
  ClaimsSpaced
  PurgeRecurs
