SPECIFICATION Spec
CONSTANTS
  Subjects = {alice, bob}
  Words = {"chat"}
  Titles <- OneTitle
  Contents = {x, y}
  Texts = {"good", "meh"}
  Handlers = {h1}
  Nobody = nobody
  MaxId = 6
  MaxTime = 0
SYMMETRY Symmetry
INVARIANTS
  TypeOK
  FeedbackByOwner
  IndexMatchesLogs
  BranchSharesHistory
PROPERTIES
  SubjectsAreIsolated
  KeepsContract
  HistoryIsAppendOnly
