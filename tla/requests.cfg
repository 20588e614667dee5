CONSTANTS
  Requests <- MCRequestSet
  Configs <- MCConfigs
  MaxAmount = 9990
  MaxLineNumber = 9
SPECIFICATION RequestSpec
INVARIANTS RequestTypeOK AcceptedIsIssuable LinesInOrder 
PROPERTY ResentUnchanged
\* A body that is refused or cannot be stored is done with.
CHECK_DEADLOCK FALSE
