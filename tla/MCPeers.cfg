SPECIFICATION FairSpec
CONSTANTS
  a = a
  b = b
  None = None
  Pages <- MCPages
  Caller <- MCCaller
  MaxRound = 2
  MAX_CONNECT_RETRIES = 1
  MAX_RECONNECT_ATTEMPTS = 1
CHECK_DEADLOCK FALSE
CONSTRAINT SecondIsCalm
INVARIANTS
  PeersTypeOK
  ChatIsCurrent
  GivesUp
  NeverStranded
PROPERTIES
  ChatsOrTells
