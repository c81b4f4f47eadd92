CONSTANTS
  k1 = k1
  c1 = c1
  x1 = x1
  x2 = x1
  l1 = l1
  b1 = b1
  e1 = e1
  NoKey = NoKey
  None = None
  Requests = {1, 2, 3}
  Keys = {k1}
  Bodies = {x1}
  BodyOf <- MCBodyOf
  CartOf <- MCCartOf
  Carts = {c1}
  Lines = {l1}
  Branches = {b1}
  BranchOf <- MCBranchOf
  Editors = {e1}
  MaxQty = 1
SPECIFICATION Spec
INVARIANT OneOrderPerKey
CHECK_DEADLOCK FALSE
