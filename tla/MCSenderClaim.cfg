CONSTANTS
  n1 = n1
  s1 = s1
  s2 = s2
  None = None
  Notices = {n1}
  LastChannel = 2
  Receipted = {1}
  Senders = {s1, s2}
  BatchSize = 1
  MaxAttempts = 2
  MaxPlanned = 1
  MaxFaults = 1
  MaxReceipts = 2
SPECIFICATION Spec
INVARIANT ClaimIsExclusive
CHECK_DEADLOCK FALSE
