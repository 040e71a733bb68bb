SPECIFICATION ScriptSpec
CONSTANTS
  c1 = c1
  c2 = c2
  c3 = c3
  c4 = c4
  chess = chess
  go = go
  NoOne = NoOne
  Absent = Absent
  MaxClock = 1
  Clients <- MCFour
  Topics <- MCTopics
  ChatType <- MCChatType
  IsStrict <- MCIsStrict
  Interests <- MCInterests
  IdRank <- MCIdRank
INVARIANTS
  ScriptTypeOK
  LoopInvariant
  NoMissedMatch
  PartnerFieldsObeyRules
PROPERTIES
  PairedLeaveQueue
  ScriptImplementsMatch
CONSTRAINT
  OneClearing
