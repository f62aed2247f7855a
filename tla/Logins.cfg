SPECIFICATION Spec
CONSTANTS
  Actors = {a1, a2}
  t1 = t1  t2 = t2  e1 = e1  v2 = v2  m1 = m1  m2 = m2
  Tenants = {t1, t2}
  Entities = {e1, v2}
  TenantOf <- TestTenantOf
  KindOf <- TestKindOf
  Emails = {m1, m2}
  None = None
  Start <- TestStart
  MaxOps = 3
INVARIANT TypeOK
INVARIANT DoorsOpen
INVARIANT NoStrayUsers
INVARIANT CohortFits
PROPERTY TenantRoundTrip
CHECK_DEADLOCK FALSE
