SPECIFICATION Spec
CONSTANTS
  W32 = 8
  W64 = 12
  Dotted <- MCDotted
  Operators <- MCOperators
  BadPatterns = {}
  Text <- MCText
  Matched <- MCMatched
  KeyOrder <- MCKeyOrder
  Now = 1
  Clients = {c1, c2}
  Commands <- MCCommands
  MaxCommands = 3
  MaxFaults = 1
  SchemaFrom <- DocumentSchema
  NullSchema <- NoSchema
  ToJSON <- Marshal
  Panics <- Panic
  Unencoded <- Unmarshalable
  FromJSON <- Unmarshal
  Garbled <- Undecoded
  Fits <- Conforms
  GrowsInto <- Compatible
  HasIDOf <- SameID
  Updated <- UpdateDocument
  UpsertOf <- Upserted
  Chosen <- Matches
  ResultOf <- Found
SYMMETRY MCSymmetry
CHECK_DEADLOCK FALSE
INVARIANTS
  
  
  
  InsertIsPrefix
  CountsTrueUnlessOverlap
