SPECIFICATION Spec
CONSTANTS
  W32 = 8
  W64 = 12
  Dotted <- MCDotted
  Operators <- MCOperators
  BadPatterns <- MCBadPatterns
  Text <- MCText
  Matched <- MCMatched
  KeyOrder <- MCKeyOrder
  Now = 1
  MaxDocumentLen = 200
  MaxMsgLen = 250
  maxNumberReturned = 3
  FetchedSliceCapacity = 2
  Requests <- MCRequests
  Ahead <- MCAhead
  Cut <- MCCut
  MaxRequests = 3
  LogSize = 3
  Debug = TRUE
CHECK_DEADLOCK FALSE
INVARIANTS
  HandledAsSent
  RepliesInOrder
  InsertKeepsPrefix
  StoreReadable
  FindExact
  FilterLaws
  
  
  
  
  RecentInOrder
  
