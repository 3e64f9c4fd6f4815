SPECIFICATION Spec
CONSTANTS
  Clients = {c1, c2}
  Colls = {l1}
  Ops = {"insert", "drop"}
  Overlap = {{"create", "insert", "find", "list", "update", "set", "drop", "dropDatabase"}}
  Spread = TRUE
  MaxDocs = 9
  Faults = {}
INVARIANT QuietRecordHasTable
