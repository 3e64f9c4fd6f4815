SPECIFICATION Spec
CONSTANTS
  Conns = {c1, c2}
  Mode = "diff-proxy"
  AcceptFaults = TRUE
  Sent = {"msg", "query"}
  MaxRequests = 2
SYMMETRY Symmetry
INVARIANT ReturnedClosed
INVARIANT CountsExact
INVARIANT NoSilentDrop
INVARIANT GraceKept
