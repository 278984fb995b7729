CONSTANTS
  w1 = w1
  w2 = w2
  NoWorker = NoWorker
  Workers <- MCWorkers
  Bodies <- MCBodies
  AnswerBodies <- MCAnswerBodies
  StrayBodies <- MCStrayBodies
  HeaderSize = 2
  ReadSize = 3
  Width = 8
  SocketBuffer = 4
  MaxTraffic = 3
SPECIFICATION Spec
INVARIANTS
  TypeOK
  FramedAsSent
  WholeUnlessCut
PROPERTIES
  EveryPacketDispatched
  SendersReturn
CHECK_DEADLOCK FALSE
