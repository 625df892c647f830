SPECIFICATION FairSpec
CONSTANTS
  Clients = {1, 2, 3}
  Sizes = {2, 3}
  Buffer = 1
  MaxLines = 1
INVARIANTS
    EachInOnePlace
    CommonOrder
PROPERTIES
    ClientsServed
CHECK_DEADLOCK FALSE
