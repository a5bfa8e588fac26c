SPECIFICATION Spec
CONSTANTS
  p1 = p1
  p2 = p2
  Nil = Nil
INVARIANTS StatusesAgree UnitsAgree MobsAgree
CHECK_DEADLOCK FALSE
