CONSTANTS
  o1 = o1
  o2 = o2
  c1 = c1
  a1 = a1
  a2 = a2
  NoTxn = NoTxn
  Orders = {o1}
  Customers = {c1}
  CustomerOf <- MCCustomerOf
  Actors = {a1, a2}
  Cancellers = {a1}
  MaxHistory = 7
SPECIFICATION Spec
PROPERTY TerminalIsFinal
CHECK_DEADLOCK FALSE
