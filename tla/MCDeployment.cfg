CONSTANTS
  Configs <- MCConfigs
  Live <- MCLive
  MaxLives = 3
  MaxFaults = 1
SPECIFICATION Spec
CHECK_DEADLOCK FALSE
INVARIANTS TypeOK ComposeCanStart ClashesAreByHand FirewallExact OnionExposesOnlyPublic RowsTellTheTruth LinksLeadSomewhere CredentialsFirst ResetWipesItsOwn
PROPERTIES DiskIsBounded EverythingComesUp
