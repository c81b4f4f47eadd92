CONSTANTS
  t1 = t1
  t2 = t2
  w1 = w1
  w2 = w2
  Idle = Idle
  Turns = {t1, t2}
  Workers = {w1, w2}
  Carts = {1, 2}
  Offered = {"PICKUP", "DELIVERY"}
  MaxMessages = 4
  MaxFaults = 1
  MaxLines = 2
  Members = {m1}
  MaxPlans = 2
  MaxSettings = 2
  d1 = d1
  d2 = d2
  Dishes = {d1, d2}
  Prices = {130, 260}
  Deltas <- MCDeltas
  Menus <- MCMenus
  OrganizationSettings <- MCOrganizationSettings
  BranchSettings <- MCBranchSettings
  Places = {"near", "far"}
  ZoneLists <- MCZoneLists
  MaxPriceChanges = 1
  MaxCartEdits = 2
SPECIFICATION Spec
SYMMETRY Symmetry
INVARIANTS TypeOK OrderedAsShown NoStaleOrders NumbersMeanTheScreen
  AlarmOncePerWait OneNoticeEach PricesHold
PROPERTY HandoffIsKept
CHECK_DEADLOCK FALSE
