\* One node, two API threads, an operator the node has and one it has not.
SPECIFICATION FairSpec
CONSTANTS
  None = None
  Nodes = {"n1"}  Callers = {"c1", "c2"}
  Operators = {"audio", "other"}  Known = {"audio"}
  MaxAssignments = 1  MaxSecond = 2  MaxCalls = 3  MaxFaults = 1
CHECK_DEADLOCK FALSE
INVARIANTS TypeOK BooksBounded TransportsOwned BooksMatchNode DeadNodeSaysOffline
PROPERTIES DeadNodeNoticed
