\* Two builds, three approvals, two registrations.
CONSTANTS
  alice = alice
  bob = bob
  k1 = k1
  k2 = k2
  k3 = k3
  Absent = Absent
  Measurements <- MCMeasurements
  Addresses = {alice, bob}
  Keys = {k1, k2, k3}
  Documents <- MCDocuments
  Receipts <- MCReceipts
  MaxEntries = 3
  MaxGateways = 2
SPECIFICATION Spec
INVARIANT TypeOK
INVARIANT VersionNamesMeasurement
INVARIANT EventsAttested
PROPERTY RevocationFinal
PROPERTY ImplementsRegistry
