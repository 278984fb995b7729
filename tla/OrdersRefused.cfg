CONSTANTS
  w1 = w1
  w2 = w2
  o1 = o1
  o2 = o2
  s1 = s1
  s2 = s2
  Workers <- MCWorkers
  OrderIds <- MCOrderIds
  Stores <- MCStores
  StoreOf <- MCStoreOf
  ItemsOf <- MCItemsOf
  NewStates <- MCNewStates
  NoOrder = NoOrder
  MaxRequests = 3
SPECIFICATION Spec
INVARIANT FailureMeansNoOrder
CHECK_DEADLOCK FALSE
