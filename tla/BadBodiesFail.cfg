SPECIFICATION Spec
CONSTANTS
  Subjects = {alice}
  NoSubject = nobody
  Titles <- OneTitle
  Contents = {x}
  Ratings = {good}
  Places = {1}
  Lines <- SomeLines
  Handlers = {h1}
  MaxId = 4
  MaxTime = 1
INVARIANTS
  BadBodiesFail
