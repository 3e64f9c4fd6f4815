SPECIFICATION FairSpec
CONSTANTS
  MaxRows = 9
  Matching <- MCMatching
  BatchSize = 2
  ChanCap = 3
INVARIANTS NoTruncatedSuccess TxEndsIdle ErrorIsLast NoGap
PROPERTIES NoGoroutineLeak RefinesAtomicRead
