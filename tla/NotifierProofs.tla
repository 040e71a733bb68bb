--------------------------- MODULE NotifierProofs ---------------------------
(* The goroutine and the channels of SubscribeMatch are a mailbox, for any  *)
(* number of subscriptions, clients and messages.                           *)
EXTENDS Notifier, TLAPS

Types ==
  /\ waiter \in [Subs -> {"off", "wait", "using", "done"}]
  /\ sub \in [Subs -> {"none", "sent", "active", "closed"}]
  /\ msgChan \in [Subs -> Seq(Notes)]
  /\ goroutine \in [Subs -> {"off", "select", "send", "close", "returned"}]
  /\ notify \in [Subs -> Notes \cup {Absent}]
  /\ notifyChan \in [Subs -> {<<>>} \cup {<<n>> : n \in Notes}]
  /\ notifyClosed \in [Subs -> BOOLEAN]
  /\ closed \in [Subs -> BOOLEAN]
  /\ published \in Nat

\* The steps of one subscription keep the types.
LEMMA StepTypes ==
  ASSUME NotifierTypeOK, NEW u \in Subs,
         \/ SubscribeMatch(u) \/ Subscribed(u)
         \/ GoroutineStep(u) \/ ReceiveNote(u) \/ Return(u)
  PROVE  Types'
<1> USE DEF Types, NotifierTypeOK
<1>1. CASE SubscribeMatch(u) \/ Subscribed(u) \/ HearCleanup(u) \/ CloseNotifyChan(u)
           \/ Return(u)
  BY <1>1 DEF SubscribeMatch, Subscribed, HearCleanup, CloseNotifyChan, Return
<1>2. CASE TakeMessage(u)
  <2>1. msgChan[u] \in Seq(Notes) /\ msgChan[u] # <<>>
    BY <1>2 DEF TakeMessage
  <2>2. Head(msgChan[u]) \in Notes /\ Tail(msgChan[u]) \in Seq(Notes)
    BY <2>1
  <2> QED BY <1>2, <2>2 DEF TakeMessage
<1>3. CASE SendNote(u)
  <2>1. notify[u] \in Notes /\ notifyChan[u] = <<>>
    BY <1>3 DEF SendNote, SubOK
  <2>2. Append(notifyChan[u], notify[u]) = <<notify[u]>>
    BY <2>1
  <2> QED BY <1>3, <2>1, <2>2 DEF SendNote
<1>4. CASE ReceiveNote(u)
  <2>1. PICK n \in Notes : notifyChan[u] = <<n>>
    BY <1>4 DEF ReceiveNote
  <2>2. Tail(notifyChan[u]) = <<>>
    BY <2>1
  <2> QED BY <1>4, <2>2 DEF ReceiveNote
<1> QED BY <1>1, <1>2, <1>3, <1>4 DEF GoroutineStep

\* They keep every subscription in one of its legal situations.
LEMMA StepSubOK ==
  ASSUME NotifierTypeOK, NEW u \in Subs,
         \/ SubscribeMatch(u) \/ Subscribed(u)
         \/ GoroutineStep(u) \/ ReceiveNote(u) \/ Return(u)
  PROVE  \A v \in Subs : SubOK(v)'
<1> SUFFICES ASSUME NEW v \in Subs PROVE SubOK(v)'
  OBVIOUS
<1>1. SubOK(u) /\ SubOK(v)
  BY DEF NotifierTypeOK
<1> USE DEF NotifierTypeOK
<1>2. CASE SubscribeMatch(u)
  BY <1>1, <1>2 DEF SubscribeMatch, SubOK
<1>3. CASE Subscribed(u)
  BY <1>1, <1>3 DEF Subscribed, SubOK
<1>4. CASE TakeMessage(u)
  <2>1. msgChan[u] \in Seq(Notes) /\ msgChan[u] # <<>>
    BY <1>4 DEF TakeMessage
  <2>2. Head(msgChan[u]) \in Notes /\ sub[u] \notin {"none", "sent"}
    BY <1>1, <2>1 DEF SubOK
  <2> QED BY <1>1, <1>4, <2>2, NotifierAssumption DEF TakeMessage, SubOK, Notes
<1>5. CASE SendNote(u)
  BY <1>1, <1>5, NotifierAssumption DEF SendNote, SubOK, Notes
<1>6. CASE HearCleanup(u)
  BY <1>1, <1>6 DEF HearCleanup, SubOK
<1>7. CASE CloseNotifyChan(u)
  BY <1>1, <1>7 DEF CloseNotifyChan, SubOK
<1>8. CASE ReceiveNote(u)
  <2>1. PICK n \in Notes : notifyChan[u] = <<n>>
    BY <1>8 DEF ReceiveNote
  <2>2. Tail(notifyChan[u]) = <<>> /\ goroutine[u] \in {"close", "returned"}
    BY <1>1, <2>1 DEF SubOK
  <2> QED BY <1>1, <1>8, <2>2 DEF ReceiveNote, SubOK
<1>9. CASE Return(u)
  BY <1>1, <1>9 DEF Return, SubOK
<1> QED
  BY <1>2, <1>3, <1>4, <1>5, <1>6, <1>7, <1>8, <1>9 DEF GoroutineStep

\* A published message changes only what waits in the channels of go-redis.
LEMMA PublishTypes ==
  ASSUME NotifierTypeOK, NEW c \in Clients, NEW note \in Notes, NotifyMatch(c, note)
  PROVE  NotifierTypeOK'
<1>1. \A u \in Subs : /\ msgChan'[u] \in Seq(Notes)
                      /\ sub[u] \in {"none", "sent"} => msgChan'[u] = msgChan[u]
  BY DEF NotifyMatch, NotifierTypeOK, Subscribers
<1>2. msgChan' \in [Subs -> Seq(Notes)]
  <2>1. msgChan' = [u \in Subs |-> msgChan'[u]]
    BY DEF NotifyMatch
  <2> QED BY <1>1, <2>1
<1>3. \A u \in Subs : SubOK(u)'
  BY <1>1 DEF NotifyMatch, NotifierTypeOK, SubOK
<1> QED BY <1>2, <1>3 DEF NotifyMatch, NotifierTypeOK

\* Every goroutine hands over at most one note and never blocks on it; its
\* channel is closed only behind a note or after a cleanup.
THEOREM NotifierTypeCorrect == Spec => []NotifierTypeOK
<1>1. Init => NotifierTypeOK
  BY NotifierAssumption DEF Init, NotifierTypeOK, SubOK, Notes
<1>2. NotifierTypeOK /\ [Next]_notifierVars => NotifierTypeOK'
  <2> SUFFICES ASSUME NotifierTypeOK, [Next]_notifierVars PROVE NotifierTypeOK'
    OBVIOUS
  <2>1. ASSUME NEW u \in Subs,
               \/ SubscribeMatch(u) \/ Subscribed(u)
               \/ GoroutineStep(u) \/ ReceiveNote(u) \/ Return(u)
        PROVE  NotifierTypeOK'
    BY <2>1, StepTypes, StepSubOK DEF Types, NotifierTypeOK
  <2>2. ASSUME NEW c \in Clients, NEW note \in Notes, NotifyMatch(c, note)
        PROVE  NotifierTypeOK'
    BY <2>2, PublishTypes
  <2>3. CASE UNCHANGED notifierVars
    BY <2>3 DEF notifierVars, NotifierTypeOK, SubOK
  <2> QED BY <2>1, <2>2, <2>3 DEF Next
<1> QED BY <1>1, <1>2, PTL DEF Spec

---------------------------------------------------------------------------
(* The refinement.                                                         *)

OwnerOf(u) == IF BoxOf(u) = "off" THEN NoOne ELSE Channel[u]

InboxOf(u) == IF BoxOf(u) = "wait" THEN FirstNote(u) ELSE Absent

\* Channels that do not change hold the same mailbox.
LEMMA SameMailbox ==
  ASSUME \A v \in Subs : BoxOf(v)' = BoxOf(v) /\ InboxOf(v)' = InboxOf(v)
  PROVE  UNCHANGED Box!boxVars
BY DEF Box!boxVars, OwnerOf, InboxOf

\* What nobody touches of a subscription keeps its mailbox.
LEMMA Untouched ==
  ASSUME NEW v \in Subs,
         waiter'[v] = waiter[v], sub'[v] = sub[v], msgChan'[v] = msgChan[v],
         goroutine'[v] = goroutine[v], notify'[v] = notify[v], notifyChan'[v] = notifyChan[v]
  PROVE  BoxOf(v)' = BoxOf(v) /\ InboxOf(v)' = InboxOf(v)
BY DEF BoxOf, InboxOf, HandedOver, FirstNote

\* The goroutine moves the note from channel to channel: the mailbox stays.
LEMMA GoroutineMailbox ==
  ASSUME NotifierTypeOK, NEW u \in Subs, GoroutineStep(u)
  PROVE  UNCHANGED Box!boxVars
<1> USE DEF NotifierTypeOK
<1>1. SubOK(u)
  OBVIOUS
<1>2. ASSUME NEW v \in Subs, v # u PROVE BoxOf(v)' = BoxOf(v) /\ InboxOf(v)' = InboxOf(v)
  BY <1>2, Untouched
     DEF GoroutineStep, TakeMessage, SendNote, HearCleanup, CloseNotifyChan
<1>3. BoxOf(u)' = BoxOf(u) /\ InboxOf(u)' = InboxOf(u)
  <2>1. CASE TakeMessage(u)
    <3>1. msgChan[u] \in Seq(Notes) /\ msgChan[u] # <<>> /\ notifyChan[u] = <<>>
      BY <1>1, <2>1 DEF TakeMessage, SubOK
    <3>2. Head(msgChan[u]) = msgChan[u][1]
      BY <3>1
    <3>3. FirstNote(u)' = FirstNote(u) /\ BoxOf(u)' = BoxOf(u)
      BY <2>1, <3>1, <3>2 DEF TakeMessage, FirstNote, BoxOf, HandedOver
    <3> QED BY <3>3 DEF InboxOf
  <2>2. CASE SendNote(u)
    <3>1. notifyChan[u] = <<>> /\ notifyChan'[u] = <<notify[u]>>
      BY <1>1, <2>2 DEF SendNote, SubOK
    <3>2. FirstNote(u)' = FirstNote(u) /\ BoxOf(u)' = BoxOf(u)
      BY <2>2, <3>1 DEF SendNote, FirstNote, BoxOf, HandedOver
    <3> QED BY <3>2 DEF InboxOf
  <2>3. CASE HearCleanup(u)
    <3>1. waiter[u] = "done" /\ waiter' = waiter
      BY <1>1, <2>3 DEF HearCleanup, SubOK
    <3> QED BY <3>1 DEF BoxOf, InboxOf
  <2>4. CASE CloseNotifyChan(u)
    BY <2>4 DEF CloseNotifyChan, BoxOf, InboxOf, HandedOver, FirstNote
  <2> QED BY <2>1, <2>2, <2>3, <2>4 DEF GoroutineStep
<1> QED BY <1>2, <1>3, SameMailbox

\* The waiter's steps are those of the mailbox's reader.
LEMMA WaiterMailbox ==
  ASSUME NotifierTypeOK, NEW u \in Subs,
         SubscribeMatch(u) \/ Subscribed(u) \/ ReceiveNote(u) \/ Return(u)
  PROVE  [Box!Next]_Box!boxVars
<1> USE DEF NotifierTypeOK
<1>1. SubOK(u)
  OBVIOUS
<1>2. ASSUME NEW v \in Subs, v # u PROVE BoxOf(v)' = BoxOf(v) /\ InboxOf(v)' = InboxOf(v)
  BY <1>2, Untouched DEF SubscribeMatch, Subscribed, ReceiveNote, Return
<1>3. CASE SubscribeMatch(u)
  <2>1. BoxOf(u) = "off" /\ BoxOf(u)' = "subscribe" /\ Channel[u] \in Clients
    BY <1>1, <1>3, NotifierAssumption DEF SubscribeMatch, SubOK, BoxOf, HandedOver
  <2>2. Box!Ask(u, Channel[u])
    BY <1>2, <2>1 DEF Box!Ask, InboxOf
  <2> QED BY <2>1, <2>2 DEF Box!Next
<1>4. CASE Subscribed(u)
  <2>1. CASE waiter[u] = "wait"
    <3>1. goroutine[u] \notin {"close", "returned", "send"} /\ notifyChan[u] = <<>>
          /\ msgChan[u] = <<>>
      <4>1. sub[u] = "sent" /\ notify[u] = Absent /\ msgChan[u] = <<>>
        BY <1>1, <1>4 DEF Subscribed, SubOK
      <4>2. goroutine[u] = "select"
        BY <1>1, <2>1, <4>1, NotifierAssumption DEF SubOK, Notes
      <4> QED BY <1>1, <4>1, <4>2 DEF SubOK
    <3>2. /\ BoxOf(u) = "subscribe" /\ BoxOf(u)' = "wait"
          /\ InboxOf(u) = Absent /\ InboxOf(u)' = Absent
      BY <1>4, <2>1, <3>1 DEF Subscribed, BoxOf, HandedOver, InboxOf, FirstNote
    <3>3. Box!Open(u)
      BY <1>2, <3>2 DEF Box!Open, InboxOf
    <3> QED BY <3>3 DEF Box!Next
  <2>2. CASE waiter[u] # "wait"
    <3>1. BoxOf(u)' = BoxOf(u) /\ InboxOf(u)' = InboxOf(u)
      BY <1>4, <2>2 DEF Subscribed, BoxOf, InboxOf
    <3> QED BY <1>2, <3>1, SameMailbox
  <2> QED BY <2>1, <2>2
<1>5. CASE ReceiveNote(u)
  <2>1. PICK n \in Notes : notifyChan[u] = <<n>>
    BY <1>5 DEF ReceiveNote
  <2>2. /\ goroutine[u] \in {"close", "returned"}
        /\ notifyChan'[u] = <<>> /\ Head(notifyChan[u]) = n /\ sub[u] # "sent"
    BY <1>1, <1>5, <2>1, NotifierAssumption DEF ReceiveNote, SubOK, Notes
  <2>3. BoxOf(u) = "wait" /\ InboxOf(u) = n /\ n # Absent
    BY <1>5, <2>1, <2>2, NotifierAssumption
       DEF ReceiveNote, BoxOf, HandedOver, InboxOf, FirstNote, Notes
  <2>4. /\ BoxOf(u)' = (IF n = NoOne THEN "spin" ELSE "off")
        /\ InboxOf(u)' = Absent
    BY <1>5, <2>1, <2>2 DEF ReceiveNote, BoxOf, HandedOver, InboxOf
  <2>5. Box!Take(u)
    BY <1>2, <2>3, <2>4 DEF Box!Take, InboxOf
  <2> QED BY <2>5 DEF Box!Next
<1>6. CASE Return(u)
  <2>1. BoxOf(u)' = "off" /\ InboxOf(u)' = Absent
    BY <1>6 DEF Return, BoxOf, InboxOf
  <2>2. Box!GiveUp({u})
    BY <1>2, <2>1 DEF Box!GiveUp, InboxOf
  <2> QED BY <2>2 DEF Box!Next
<1> QED BY <1>3, <1>4, <1>5, <1>6

\* A message that arrives does not change which one is first.
LEMMA OldestStays ==
  ASSUME NEW S, NEW s \in Seq(S), s # <<>>, NEW x \in S
  PROVE  Append(s, x) # <<>> /\ Append(s, x)[1] = s[1]
<1>1. Len(s) \in Nat /\ Len(s) # 0
  OBVIOUS
<1>2. 1 \in 1..Len(s)
  BY <1>1
<1>3. Append(s, x)[1] = s[1] /\ Len(Append(s, x)) = Len(s) + 1
  BY <1>2
<1>4. Append(s, x) # <<>>
  BY <1>1, <1>3
<1> QED BY <1>3, <1>4

\* A published message reaches the mailboxes that listen, and only those.
LEMMA PublishMailbox ==
  ASSUME NotifierTypeOK, NEW c \in Clients, NEW note \in Notes, NotifyMatch(c, note)
  PROVE  Box!Next
<1> USE DEF NotifierTypeOK
<1>1. PICK reached \in SUBSET Subscribers(c) :
        /\ ~MayLose => reached = Subscribers(c)
        /\ msgChan' = [u \in Subs |-> IF u \in reached THEN Append(msgChan[u], note)
                                     ELSE msgChan[u]]
  BY DEF NotifyMatch
<1>2. \A u \in Subs : BoxOf(u)' = BoxOf(u) /\ BoxOf(u) \in {"off", "subscribe", "wait", "spin"}
  BY DEF NotifyMatch, BoxOf, HandedOver
<1> DEFINE heard == reached \cap Box!Listening(c)
<1>3. ASSUME NEW u \in Subs
      PROVE  u \in Box!Listening(c) <=>
               Channel[u] = c /\ BoxOf(u) = "wait" /\ InboxOf(u) = Absent
  BY <1>3, NotifierAssumption DEF Box!Listening, InboxOf
<1>4. ASSUME NEW u \in Subs, BoxOf(u) = "wait", InboxOf(u) = Absent
      PROVE  /\ goroutine[u] = "select" /\ msgChan[u] = <<>> /\ notifyChan[u] = <<>>
             /\ sub[u] = "active"
  <2>1. SubOK(u) /\ waiter[u] = "wait" /\ ~HandedOver(u) /\ sub[u] # "sent"
    BY <1>4 DEF BoxOf
  <2>2. FirstNote(u) = Absent
    BY <1>4 DEF InboxOf
  <2>3. notifyChan[u] = <<>>
    <3>1. ASSUME NEW n \in Notes, notifyChan[u] = <<n>> PROVE FALSE
      <4>1. notifyChan[u] # <<>> /\ notifyChan[u][1] = n
        BY <3>1
      <4>2. FirstNote(u) = n
        BY <4>1 DEF FirstNote
      <4> QED BY <2>2, <4>2, NotifierAssumption DEF Notes
    <3> QED BY <3>1
  <2>4. goroutine[u] = "select"
    BY <2>1, <2>2, <2>3, NotifierAssumption DEF FirstNote, HandedOver, SubOK, Notes
  <2>5. msgChan[u] = <<>>
    <3>1. SUFFICES ASSUME msgChan[u] # <<>> PROVE FALSE
      OBVIOUS
    <3>2. msgChan[u] \in Seq(Notes)
      OBVIOUS
    <3>3. msgChan[u][1] \in Notes
      BY <3>1, <3>2
    <3> QED BY <2>2, <2>3, <2>4, <3>1, <3>3, NotifierAssumption DEF FirstNote, Notes
  <2>6. sub[u] = "active"
    BY <2>1, <2>4 DEF SubOK
  <2> QED BY <2>3, <2>4, <2>5, <2>6
<1>5. ASSUME NEW u \in Subs
      PROVE  InboxOf(u)' = IF u \in heard THEN note ELSE InboxOf(u)
  <2>1. CASE u \in heard
    <3>1. BoxOf(u) = "wait" /\ InboxOf(u) = Absent
      BY <1>3, <2>1
    <3>2. goroutine[u] = "select" /\ msgChan[u] = <<>> /\ notifyChan[u] = <<>>
      BY <1>4, <3>1
    <3>3. msgChan'[u] = <<note>>
      BY <1>1, <2>1, <3>2
    <3>4. FirstNote(u)' = note
      <4>1. msgChan'[u] # <<>> /\ msgChan'[u][1] = note
        BY <3>3
      <4> QED BY <3>2, <4>1 DEF NotifyMatch, FirstNote
    <3> QED BY <1>2, <2>1, <3>1, <3>4 DEF InboxOf
  <2>2. CASE u \notin heard /\ u \in reached
    <3>1. Channel[u] = c
      BY <1>1, <2>2 DEF Subscribers
    <3>2. CASE BoxOf(u) = "wait"
      <4>1. FirstNote(u) # Absent
        BY <1>3, <2>2, <3>1, <3>2 DEF InboxOf
      <4>2. FirstNote(u)' = FirstNote(u)
        <5>1. CASE msgChan[u] = <<>>
          BY <4>1, <5>1 DEF NotifyMatch, FirstNote
        <5>2. CASE msgChan[u] # <<>>
          <6>1. msgChan[u] \in Seq(Notes) /\ msgChan'[u] = Append(msgChan[u], note)
            BY <1>1, <2>2
          <6>2. msgChan'[u] # <<>> /\ msgChan'[u][1] = msgChan[u][1]
            <7>1. Append(msgChan[u], note) # <<>> /\ Append(msgChan[u], note)[1] = msgChan[u][1]
              BY <5>2, <6>1, OldestStays
            <7> QED BY <6>1, <7>1
          <6> QED BY <5>2, <6>2 DEF NotifyMatch, FirstNote
        <5> QED BY <5>1, <5>2
      <4> QED BY <1>2, <2>2, <4>2 DEF InboxOf
    <3>3. CASE BoxOf(u) # "wait"
      BY <1>2, <2>2, <3>3 DEF InboxOf
    <3> QED BY <3>2, <3>3
  <2>3. CASE u \notin reached
    <3>1. msgChan'[u] = msgChan[u]
      BY <1>1, <2>3
    <3>2. InboxOf(u)' = InboxOf(u)
      BY <3>1, Untouched DEF NotifyMatch
    <3> QED BY <2>3, <3>2
  <2> QED BY <2>1, <2>2, <2>3
<1>6. ~MayLose => heard = Box!Listening(c)
  <2> SUFFICES ASSUME ~MayLose, NEW u \in Box!Listening(c) PROVE u \in reached
    OBVIOUS
  <2>1. u \in Subs
    BY DEF Box!Listening
  <2>2. Channel[u] = c /\ sub[u] = "active"
    BY <1>3, <1>4, <2>1
  <2> QED BY <1>1, <2>1, <2>2 DEF Subscribers
<1>7. Box!Publish(c, note)
  <2>1. heard \in SUBSET Box!Listening(c)
    OBVIOUS
  <2> HIDE DEF heard
  <2> QED BY <1>2, <1>5, <1>6, <2>1 DEF Box!Publish, InboxOf
<1> QED BY <1>7 DEF Box!Next, Notes

\* The goroutine and the channels of SubscribeMatch implement the mailbox:
\* whatever is published, lost or given up, the waiter hears the first note
\* after its subscription, once.
THEOREM NotifierImplementsMailbox == Spec => ImplementsMailbox
<1>1. Init => Box!Init
  BY DEF Init, Box!Init, BoxOf
<1>2. NotifierTypeOK /\ [Next]_notifierVars => [Box!Next]_Box!boxVars
  <2> SUFFICES ASSUME NotifierTypeOK, [Next]_notifierVars PROVE [Box!Next]_Box!boxVars
    OBVIOUS
  <2>1. CASE UNCHANGED notifierVars
    BY <2>1, Untouched, SameMailbox DEF notifierVars
  <2> QED
    BY <2>1, GoroutineMailbox, WaiterMailbox, PublishMailbox DEF Next
<1> QED
  BY <1>1, <1>2, NotifierTypeCorrect, PTL DEF Spec, ImplementsMailbox, Box!Spec

=============================================================================
