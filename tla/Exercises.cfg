\* The stand-alone exercises: three phone books, a queue, masks, four kernel modules.
SPECIFICATION Spec
CONSTANTS
  e1 = e1  e2 = e2  e3 = e3  e4 = e4  d1 = d1  d2 = d2
  p1 = p1  p2 = p2
  Nothing = Nothing
  Callers = {p1, p2}
  DeviceTexts <- MCDeviceTexts
  BUF_SIZE = 3
  MaxRead = 2
  MaxLoads = 2
  ProcTexts <- MCProcTexts
  MaxGot = 2
  Masks = {1, 2}
  ListEntries <- MCListEntries
  Names = {1, 2}
  Uninitialised = Uninitialised
  QueueEntries <- MCQueueEntries
  Priorities = {1, 2}
  Data = {d1, d2}
  FIRST = FIRST
  Fields = {"phones", "emails"}
  Texts = {1, 2}
  Blocks <- MCBlocks
  MaxContacts = 2
  Files = {1, 2}
  StartModes <- MCStartModes
  Numbers <- MCNumbers
  Whos <- MCWhos
  Perms <- MCPerms
SYMMETRY Swaps
INVARIANTS
    StructuresKept
    
PROPERTIES
    ContentsKept
    TreeKept
    
CHECK_DEADLOCK FALSE
