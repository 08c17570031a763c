SPECIFICATION Spec
CONSTANTS
  Subjects = {alice, bob}
  Words = {"chat"}
  Titles <- TwoTitles
  Contents = {x, y}
  Texts = {"good", "meh"}
  Handlers = {h1}
  Nobody = nobody
  MaxId = 5
  MaxTime = 1
INVARIANTS
  CreateReplyIsStable
