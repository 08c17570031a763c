SPECIFICATION Spec
CONSTANTS
  a = a
  b = b
  nobody = nobody
  IssuerList <- TwoIssuers
  Audiences <- TwoAudiences
  Kids = {"k1", "k2"}
  FirstKids = {"k1"}
  Tokens <- MixedTokens
  Calls = {h1, h2}
  MaxCalls = 2
  Rotating = {a}
  MaxRotations = 1
  MaxTime = 2
INVARIANTS
  TypeOK
  AcceptedIsGenuine
  GenuineIsAccepted
PROPERTIES
  CallsReturn
  WithdrawnKeysAreDropped
