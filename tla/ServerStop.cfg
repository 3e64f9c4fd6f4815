SPECIFICATION FairSpec
CONSTANTS
  Conns = {c1, c2}
  Mode = "normal"
  AcceptFaults = TRUE
  Sent = {"query"}
  MaxRequests = 1
PROPERTY ShutdownCompletes
PROPERTY HelpersEnd
