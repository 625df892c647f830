SPECIFICATION AllFairSpec
CONSTANTS
  Names <- MCNames
  CopyOf <- MCCopyOf
  ArgLists <- MCArgLists
  Contents <- MCContents
  Missing = {"x"}
  Unwritable = {"u.copy"}
  CHUNK_SIZE = 2
  Capacity = 3
  MaxKills = 2
  MaxLength = 6
  Tasks <- MCTasks
  Peers <- MCPeers
  Begins <- MCBegins
  Datagrams = 2
  MaxLines <- MCMaxLines
  Kinds <- MCKinds
  Packets = 2
  MaxPackets = 3
INVARIANTS
    
    LinesAccounted
    
PROPERTIES
    ProcessesEnd
CHECK_DEADLOCK FALSE
