CONSTANTS
  u1 = u1
  u2 = u2
  p1 = p1
  p2 = p2
  w1 = w1
  w2 = w2
  NoPhone = NoPhone
  UserIds <- MCUserIds
  Phones <- MCPhones
  Workers <- MCWorkers
  MaxRequests = 2
SYMMETRY Symmetry
SPECIFICATION Spec
INVARIANTS
  TypeOK
  TablesAgree
  AnswersTrue
  HoldersNeverWait
CHECK_DEADLOCK FALSE
