SPECIFICATION Spec
CONSTANTS
  c1 = c1
  c2 = c2
  c3 = c3
  m1 = m1
  chess = chess
  NoOne = NoOne
  Absent = Absent
  Clients <- MCTwo
  Messages <- MCNone
  Kinds <- MCNewOnly
  Senders <- MCNone
  Leavers <- MCNone
  MaxClock = 0
  MayFail = FALSE
  MayExpire = FALSE
  MayStop = FALSE
  Topics <- MCTopics
  ChatType <- MCChatType
  IsStrict <- MCIsStrict
  Interests <- MCInterests
  IdRank <- MCIdRank
CHECK_DEADLOCK FALSE
INVARIANTS
  PartnersShareIds
