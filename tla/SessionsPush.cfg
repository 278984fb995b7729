CONSTANTS
  s1 = s1
  s2 = s2
  s3 = s3
  f1 = f1
  f2 = f2
  u1 = u1
  u2 = u2
  w1 = w1
  w2 = w2
  Sessions <- MCSessions
  Fds <- MCFds
  Users <- MCUsers
  Workers <- MCWorkers
  NoSession = NoSession
  NoFd = NoFd
  NoUser = NoUser
  MaxRequests = 3

SPECIFICATION Spec
INVARIANT PushReachesUser
CHECK_DEADLOCK FALSE
