\* lnd-setup and lnd-channels fail twice, in every order with the blocks, on
\* each kind of network; a wallet receives three channels' worth.
CONSTANTS
  Fund = 15
  Chan = 4
  Fee = 1
  MaxFaults = 2
  Modes = {"regtest", "signet", "external"}
SPECIFICATION FairSpec
INVARIANTS TypeOK OneRepeatPerFault PrivateWhileFunding
PROPERTIES RingComesUp
\* The scripts end when the ring is up.
CHECK_DEADLOCK FALSE
