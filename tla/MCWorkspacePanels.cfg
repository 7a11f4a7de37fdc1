SPECIFICATION Spec
CONSTANTS
  acme = acme
  beta = beta
  s1 = s1
  s2 = s2
  s3 = s3
  None = None
  Malformed = "malformed"
  Values = {"active", "suspended"}
  Organizations <- Tenants
  Slots <- Three
INVARIANTS ShownIsSelected SavedIsStored
SYMMETRY Symmetry
