SPECIFICATION ConnSpec
CONSTANTS
  wnums = 2
  Clients = {0, 1}
  ENums = 2
  MaxConns = 3
  MaxInbox = 2
INVARIANTS
  SendsToOwnClient
CHECK_DEADLOCK FALSE
