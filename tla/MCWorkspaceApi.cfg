SPECIFICATION Spec
CONSTANTS
  alice = alice
  bob = bob
  acme = acme
  r1 = r1
  r2 = r2
  v1 = v1
  None = None
  Default = Default
  Subjects <- Users
  Organizations <- Tenants
  Requests <- Slots
  Values <- Texts
  Rows <- Kept
INVARIANT SuspensionIsEffective
PROPERTY ActorStillManages
SYMMETRY Symmetry
