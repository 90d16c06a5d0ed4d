CONSTANTS
  k1 = k1
  k2 = k2
  s1 = s1
  s2 = s2
  ta = ta
  None = None
  Checkout = {k1, k2}
  Slot = {s1, s2}
  Tenant = {ta}
  NameOf <- OneName
  Reach <- OneReach
  MaxProjects = 3
  MaxRequests = 3
SYMMETRY Symmetry
SPECIFICATION Spec
INVARIANTS TypeOK RegistrationsExact RegisteredIsBound OneProjectPerPath
PROPERTY TenantFixedUnlessOverlap
CHECK_DEADLOCK FALSE
