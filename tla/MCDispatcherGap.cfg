CONSTANTS
  p1 = p1
  p2 = p2
  d1 = d1
  d2 = d2
  t1 = t1
  t2 = t2
  Idle = Idle
  Events = {1, 2, 3, 4}
  BatchSize = 2
  MaxFaults = 2
  Publishers = {p1, p2}
  Tenants = {t1, t2}
  TenantOf <- MCTenantOf
  Relevant = {1, 2, 4}
  Dispatchers = {d1, d2}
SPECIFICATION Spec
INVARIANT NoNotificationMissing
CHECK_DEADLOCK FALSE
