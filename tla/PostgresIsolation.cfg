SPECIFICATION Spec
CONSTANTS
  Subjects = {alice, bob}
  Words = {"chat"}
  Titles <- OneTitle
  Handlers = {h1, h2}
  Ops = {"create", "rename", "delete", "append", "rate", "branch"}
  Times = {0, 1}
  PoolSize = 2
  MaxRequests = 5
SYMMETRY Symmetry
INVARIANTS
  TypeOK
  RowsBelongTogether
  AnswersStayTrue
  BranchLosesNothing
PROPERTIES
  SubjectsAreIsolated
  HistoryStays
  KeepsContract
