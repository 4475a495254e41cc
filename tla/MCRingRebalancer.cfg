\* Two payments of users and two faults, against both scripts at once.
CONSTANTS
  Cap = 10
  Reserve = 1
  Low = 35
  High = 65
  MinAmount = 2
  Tries = 2
  Amounts = {2, 3}
  MaxPayments = 2
  MaxFaults = 2
SPECIFICATION FairSpec
INVARIANTS TypeOK
PROPERTIES PaymentsPayOff SettlesInBand ComesToRest CompleteMeansBalanced
