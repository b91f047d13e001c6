SPECIFICATION Spec
CONSTANTS
  root = root  dir = dir  link = link  k1 = k1  k2 = k2  k3 = k3
  Node <- MCNode
  Form <- MCForm
  Kids <- MCKids
  Matching = {k1, k2, k3}
  Roots = {root, k1}
  Wanted = {k2}
  Capacity = 1
INVARIANT LinksAreFollowed
CHECK_DEADLOCK FALSE
