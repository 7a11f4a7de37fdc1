SPECIFICATION Spec
CONSTANTS
  l1 = l1
  l2 = l2
  r1 = r1
  r2 = r2
  k1 = k1
  None = None
  Keep = Keep
  Logins <- Begun
  Requests <- Slots
  Keys <- Kids
  Kid = k1
  LoginTtl = 1
  MaxSessionTtl = 1
  Lifetimes = {1, 2}
  ProxyTimeout = 1
  Skew = 2
  Drift = 1
  MaxTime = 2
INVARIANTS TypeOK ForwardedIsAccepted 
SYMMETRY Symmetry
