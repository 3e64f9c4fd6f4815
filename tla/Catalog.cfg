SPECIFICATION Spec
CONSTANTS
  Clients = {c1, c2, c3}
  Colls = {l1, l2}
  Ops = {"create", "insert", "find", "list", "update", "drop", "dropDatabase"}
  Overlap = {{"create", "insert", "find", "dropDatabase", "set"}, {"update", "set", "find", "list", "create", "insert"}}
  Spread = FALSE
  MaxDocs = 1
  Faults = {"create", "insert", "find", "list"}
SYMMETRY Symmetry
INVARIANT AckedReadable
INVARIANT RecordHasTable
PROPERTY RefinesNamespace
INVARIANT SettingsSingleRow
INVARIANT RecordCovered
