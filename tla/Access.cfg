SPECIFICATION Spec
CONSTANTS
  p1 = p1
  p2 = p2
  p3 = p3
  k1 = k1
  k2 = k2
  k3 = k3
  u1 = u1
  u2 = u2
  Callers = {p1}
  Minters = {p1, p2}
  Operators = {p1, p2}
  Keys = {k1, k2}
  Known = {k1}
  Capped = {}
  Patches <- Asked
  Users = {u1, u2}
  Holders = {u1}
  NoOwner = NoOwner
  MaxLive = 1
  MaxPlayground = 1
SYMMETRY Alike
INVARIANTS  OwnerCap
 
CHECK_DEADLOCK FALSE
