SPECIFICATION FairSpec
CONSTANTS
  Managers = {"executions", "alerts"}
  Clients = {c1, c2}
  Tasks = {b1, b2}
  MaxEvents = 3
  Filtering = {c2}
  Passes <- MCPasses
INVARIANTS
  OnceEach
  EventsInOrder
PROPERTIES
  FeedDelivers
CHECK_DEADLOCK FALSE
