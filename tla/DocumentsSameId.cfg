SPECIFICATION Spec
CONSTANTS
  Clients = {c1, c2}
  Ids = {a}
  Ops = {"findAndModify"}
  ChosenIds = TRUE
  MaxConns = 3
  BatchSize = 1
  MaxStatements = 3
  Faults = FALSE
INVARIANT FindAndModifySingle
