\* A call whose answer is lost.
CONSTANTS
  c1 = c1
  c2 = c2
  c3 = c3
  NoNonce = NoNonce
  NotFound = NotFound
  Calls = {c1, c2}
  Requests <- BasicRequests
  Nonces = {"n1"}
  Limit = 1
  Capacity = 2
  SignResults = {TRUE}
  MaxBoots = 1
SPECIFICATION Spec
INVARIANT NoUpstreamCallHonest
\* Every call may be over and every boot used up.
CHECK_DEADLOCK FALSE
