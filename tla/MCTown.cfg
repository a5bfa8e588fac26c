SPECIFICATION Spec
CONSTANTS
  p1 = p1
  p2 = p2
  p3 = p3
  ma = ma
  mb = mb
  ann = ann
  bob = bob
  c1 = c1
  c2 = c2
  Nil = Nil
  Gone = Gone
SYMMETRY Symmetry
INVARIANTS RoomsAgree  
CHECK_DEADLOCK FALSE
