SPECIFICATION CloSpec
CONSTANTS
  arr = arr
  c1 = c1
  c2 = c2
  x = x
  y = y
  a = a
  e1 = e1
  e2 = e2
  k = k
  lam1 = lam1
  lam2 = lam2
  f = f
  Program = Program
  Null = Null
  Dead = Dead
  Stub = Stub
  Unset = Unset
  Object = {arr, c1, c2}
  Slot = {x, y, a, e1, e2, k}
  Closure = {x, y, e1, e2}
  Func = {f}
  Owner <- MCOwner
  MayHold <- MCMayHold
  Body <- MCBody
  AssignAny = TRUE
PROPERTIES BehavesLikeSharedFunctions
CHECK_DEADLOCK FALSE
