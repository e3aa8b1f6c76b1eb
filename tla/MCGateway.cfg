\* Three calls compete for one permit, and their receipts for a ring of two.
CONSTANTS
  c1 = c1
  c2 = c2
  c3 = c3
  NoNonce = NoNonce
  NotFound = NotFound
  Calls = {c1, c2, c3}
  Requests <- SafetyRequests
  Nonces = {"n1"}
  Limit = 1
  Capacity = 2
  SignResults = {TRUE, FALSE}
  MaxBoots = 2
SPECIFICATION ThreeCallsSpec
INVARIANT TypeOK
INVARIANT PermitAccounting
INVARIANT ReceiptsTruthful
INVARIANT RepliesBacked
INVARIANT FetchReturnsNewest
PROPERTY ImplementsNotary
PROPERTY CallsEnd
PROPERTY PermitsReturn
PROPERTY HeaderRedeemed
\* Every call may be over and every boot used up.
CHECK_DEADLOCK FALSE
