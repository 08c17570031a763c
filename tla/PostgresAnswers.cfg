SPECIFICATION Spec
CONSTANTS
  Subjects = {alice}
  Words = {"chat"}
  Titles <- OneTitle
  Handlers = {h1, h2, h3}
  Ops = {"create", "rename", "delete", "append", "list", "rate", "branch"}
  Times = {0}
  PoolSize = 2
  MaxRequests = 4
INVARIANTS
  NoCircularWait
PROPERTIES
  EveryRequestAnswered
