SPECIFICATION FairSpec
CONSTANTS
  k1 = k1
  k2 = k2
  b1 = b1
  b2 = b2
  h1 = h1
  NoOne = NoOne
  Tabs <- MCTabs
  Browsers <- MCBrowsers
  Sharings <- MCBoth
  Forms <- MCForms
  Handlers <- MCHandlers
  SendCap = 1
  ReceiveCap = 1
  MayFail = TRUE
CHECK_DEADLOCK FALSE
CONSTRAINT FewClears
INVARIANTS
  PumpsTypeOK
  ClosedByAnotherSocket
PROPERTIES
  ForgottenStays
  HandlersReturn
  GoneIsForgotten
  StopReturns
