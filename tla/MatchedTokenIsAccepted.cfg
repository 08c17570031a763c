SPECIFICATION Spec
CONSTANTS
  a = a
  b = b
  nobody = nobody
  IssuerList <- TwoIssuers
  Audiences <- TwoAudiences
  Kids = {"k1"}
  FirstKids = {"k1"}
  Tokens <- SlashTokens
  Calls = {h1}
  MaxCalls = 1
  Rotating = {a}
  MaxRotations = 0
  MaxTime = 1
INVARIANTS
  MatchedTokenIsAccepted
