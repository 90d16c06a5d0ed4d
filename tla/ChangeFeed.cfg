\* Two writers and a client, one event to a page, two tenants, with fairness; no
\* symmetry, for the liveness property.
SPECIFICATION FairSpec
CONSTANTS
  w1 = w1
  w2 = w2
  r1 = r1
  t1 = t1
  t2 = t2
  None = None
  Writer = {w1, w2}
  Reader = {r1}
  Tenant = {t1, t2}
  Epoch = {1, 2}
  Limit = 1
  MaxSeq = 2
INVARIANTS
  TypeOK
  LogMatchesState
  DeliveryExact
PROPERTIES
  FeedNeverRestarts
  EventsArrive
