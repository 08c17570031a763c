SPECIFICATION Spec
CONSTANTS
  Subjects = {alice, bob}
  NoSubject = nobody
  Titles <- OneTitle
  Contents = {x}
  Ratings = {good}
  Places = {1}
  Lines <- SomeLines
  Handlers = {h1}
  MaxId = 4
  MaxTime = 2
SYMMETRY Symmetry
INVARIANTS
  TypeOK
  HandlersHaveSubject
  StatusTellsEffect
  ForeignLooksMissing
PROPERTIES
  OnlyBearersAct
