SPECIFICATION FairSpec
CONSTANTS
  Request = {r1, r2}
  PoolSize = 1
  MaxCrashes = 1
  Status <- MCStatus
  Defect = {malformed}
INVARIANTS TypeOK ChatsAreWhole ToldIsStored ConnectionsAccounted
PROPERTIES ResultsAreFinal LedgerSpec EveryChatEnds
