\* Two boots, two approvals, one registration.
CONSTANTS
  alice = alice
  k1 = k1
  k2 = k2
  Absent = Absent
  Images <- MCImages
  Measurements <- MCImages
  Published <- MCPublished
  HexLike = {"0"}
  Misread = "misread"
  Addresses = {alice}
  Keys = {k1, k2}
  Documents <- MCDocuments
  Receipts <- MCReceipts
  MaxEntries = 2
  MaxGateways = 1
SYMMETRY KeySymmetry
SPECIFICATION DeploySpec
INVARIANT DeployTypeOK
INVARIANT EventsFromAttestedBoots
INVARIANT PassIsSound
INVARIANT AlarmsJustified
INVARIANT KeyImpliesVersion
