\* Documents of up to three rules, two callers, two enclaves.
CONSTANTS
  kate = kate
  liam = liam
  None = None
  Blank = Blank
  Configs <- MCConfigs
  Requests <- MCRequests
  Callers = {kate, liam}
  Texts <- MCTexts
  Names = {"all", "kate", "capped", "small", "nothing", "noB", "noLiam", "off"}
  Unreadable = Unreadable
  MaxBoots = 2
SPECIFICATION BootSpec
INVARIANT BootTypeOK
INVARIANT VerdictFollowsPolicy
INVARIANT DiagnosticsComplete
INVARIANT CapsBind
INVARIANT ServesOnlyValid
INVARIANT OneDelivery
PROPERTY CutOffForGood
PROPERTY DeliveredComesUp
\* Without an enclave left to start there is nothing to do.
CHECK_DEADLOCK FALSE
