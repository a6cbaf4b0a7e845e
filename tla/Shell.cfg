SPECIFICATION Spec
CONSTANTS
  Words <- MCWords
  Letters <- MCLetters
  MAXSIZE = 2
  Lines <- MCLines
  Definitions <- MCDefinitions
  AliasOf <- MCAliasOf
  ValueOf <- MCValueOf
  MAX_CMD_NUM = 2
  Pids = {1, 2}
INVARIANTS
  TypeOK
  
  DeeperFirst
  NoneLeftBehind
  WellFormedIsSafe
PROPERTIES
  AliasesSurvive
  BackToPrompt
