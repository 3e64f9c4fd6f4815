SPECIFICATION Spec
CONSTANTS
  Clients = {c1, c2}
  Ids = {a, b}
  Ops = {"insert", "update", "delete", "findAndModify"}
  ChosenIds = FALSE
  MaxConns = 3
  BatchSize = 1
  MaxStatements = 3
  Faults = TRUE
SYMMETRY Symmetry
 
 
INVARIANT CountsTrue
INVARIANT OneDocument
PROPERTY LostOnlyToOverlap
