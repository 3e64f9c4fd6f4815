SPECIFICATION FairSpec
CONSTANTS
  Conns = {c1}
  Mode = "proxy"
  AcceptFaults = FALSE
  Sent = {"msg"}
  MaxRequests = 1
PROPERTY ShutdownCompletes
