SPECIFICATION Spec
CONSTANTS
  Subjects = {alice}
  Words = {"chat"}
  Titles <- OneTitle
  Handlers = {h1, h2}
  Ops = {"create", "append", "delete", "branch"}
  Times = {0, 1}
  PoolSize = 2
  MaxRequests = 4
INVARIANTS
  BranchIsComplete
