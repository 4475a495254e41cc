\* Numbers set by hand, against what ports.py says of its check.
CONSTANTS
  Configs <- Clashes
  Live <- NoLive
  MaxLives = 1
  MaxFaults = 0
SPECIFICATION Spec
CHECK_DEADLOCK FALSE
INVARIANTS NoPortClash
