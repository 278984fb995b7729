CONSTANTS
  u1 = u1
  admin = admin
  w1 = w1
  w2 = w2
  NoUser = NoUser
  Users <- MCUsers
  DefaultAdmin = admin
  Workers <- MCWorkers
  MaxRequests = 3
SYMMETRY Symmetry
SPECIFICATION Spec
INVARIANTS
  TypeOK
  BothToldOfEnd
  OrderedUnlessCrossed
CHECK_DEADLOCK FALSE
