CONSTANTS
  Streams = {1, 2, 3}
  Mine = {2, 3}
  MaxChanges = 1
  MaxLoads = 2
  Tabs = {1, 2}
  MaxSessions = 4
  MaxMishaps = 1
  Groups = {g1, g2}
  Options = {o1, o2}
  Editors = {e1, e2}
  Minimums = {0, 2}
  Maximums = {1, 2}
  MaxEdits = 3
  People = {p1, p2, p3}
  Founders = {p1, p2}
  Branches = {b1}
  MaxRequests = 3
SPECIFICATION CheckedSpec
INVARIANTS TypeOK StreamsAreHeard SessionsAreAccountedFor MenuIsCoherent
PROPERTIES BoardCatchesUp StaffIsInOrder
CHECK_DEADLOCK FALSE
