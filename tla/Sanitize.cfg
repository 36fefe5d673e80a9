SPECIFICATION FairWalkSpec
CHECK_DEADLOCK FALSE
CONSTANTS
  n1 = n1  n2 = n2  text = text  payload = payload  number = number
  empty = empty
  Inner = {n1, n2}
  Root = n1
  Leaf = {text, payload, number, empty}
  LeafOf <- MCLeafOf
  Heaps <- MCHeaps
  NoNode = NoNode
  Budget = 12
  PayloadMin = 4
  Placeholder = 3
INVARIANTS
  BudgetHolds
  NoPayloadSurvives
  CircularMeansCyclic
PROPERTY
  Finishes
