SPECIFICATION FairSpec
CONSTANTS
  c1 = c1
  c2 = c2
  s1 = s1
  s2 = s2
  s3 = s3
  NoOne = NoOne
  Absent = Absent
  Subs <- MCSubs
  Clients <- MCClients
  Channel <- MCChannel
  MayLose = TRUE
  MaxPublished = 2
CHECK_DEADLOCK FALSE
INVARIANT
  NotifierTypeOK
PROPERTIES
  ImplementsMailbox
  EverySubscriptionEnds
