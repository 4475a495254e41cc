\* Two workers that start together on an empty database; no fault.
CONSTANTS
  Workers = {w1, w2}
  Interval = 2
  MaxFaults = 0
  Staggered = FALSE
SPECIFICATION Spec
PROPERTY PurgeRecurs
