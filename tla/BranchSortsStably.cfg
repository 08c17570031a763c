SPECIFICATION Spec
CONSTANTS
  Subjects = {alice}
  Words = {"chat"}
  Titles <- OneTitle
  Handlers = {h1}
  Ops = {"create", "append", "branch"}
  Times = {0, 1}
  PoolSize = 1
  MaxRequests = 4
INVARIANTS
  BranchSortsStably
