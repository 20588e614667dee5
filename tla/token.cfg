SPECIFICATION FairTokenSpec
CONSTANTS
  Callers = {c1, c2, c3}
  NoCaller = NoCaller
  MaxTokens = 2
  MaxTokenFaults = 1
INVARIANTS
  TokenTypeOK
  LoginsJustified
  RetriedWithNewToken
PROPERTIES
  NewestStored
  ImplementsTokenCache
  RequestsEnd
