SPECIFICATION Spec
CONSTANTS
  alice = alice
  bob = bob
  acme = acme
  laptop = laptop
  r1 = r1
  c1 = c1
  c2 = c2
  None = None
  Subjects <- Users
  Organizations <- Tenants
  Devices <- Machines
  Records <- Ids
  Calls <- Slots
  MinTtl = 1
  MaxTtl = 1
  MaxSkew = 1
  MaxTime = 1
INVARIANTS TypeOK AnswersAgree
PROPERTIES ImplementsExchange
SYMMETRY SlotSymmetry
