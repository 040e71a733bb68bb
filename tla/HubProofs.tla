------------------------------ MODULE HubProofs ------------------------------
(* What holds of the hub for any clients, messages, rules and clock.        *)
EXTENDS Hub, RedisStoreProofs

---------------------------------------------------------------------------
(* Type correctness.                                                       *)

\* The part of the state that is not a goroutine's.
SharedOK ==
  /\ StoreTypeOK
  /\ hub \in {"up", "stopping", "down"}
  /\ hubClients \subseteq Clients
  /\ life \in [Clients -> {"new", "registered", "online", "gone"}]
  /\ chatPartner \in [Clients -> Clients \cup {NoOne}]
  /\ button \in [Clients -> {"new", "searching", "connecting"}]
  /\ inner \in [Clients -> Threads \cup {NoOne}]
  /\ now \in Nat

\* The goroutines.
ThreadsOK ==
  /\ search \in [Threads -> SearchRecord]
  /\ handler \in [Threads -> HandlerRecord]
  /\ \A t \in Threads : SearchOK(search[t]) /\ HandlerOK(handler[t])

\* A delivery keeps the buttons well typed.
LEMMA ButtonShown ==
  ASSUME NEW c, NEW b \in {"new", "searching", "connecting"}, ShowButton(c, b),
         button \in [Clients -> {"new", "searching", "connecting"}]
  PROVE  button' \in [Clients -> {"new", "searching", "connecting"}]
BY DEF ShowButton

\* A step of one search keeps all goroutines well typed if it does so of that one.
LEMMA SearchMoved ==
  ASSUME ThreadsOK, NEW t \in Threads, NEW s, SearchOK(s),
         search' = [search EXCEPT ![t] = s], UNCHANGED <<handler, now>>
  PROVE  ThreadsOK'
BY DEF ThreadsOK, SearchOK, HandlerOK

\* The same for a step of a handler.
LEMMA HandlerMoved ==
  ASSUME ThreadsOK, NEW t \in Threads, NEW h, HandlerOK(h),
         handler' = [handler EXCEPT ![t] = h], UNCHANGED <<search, now>>
  PROVE  ThreadsOK'
BY DEF ThreadsOK, SearchOK, HandlerOK

\* A goroutine that is off or done has no locals to be wrong.
LEMMA EndedIsOK ==
  ASSUME now \in Nat
  PROVE  /\ SearchOK(Searched) /\ HandlerOK(Handled)
         /\ SearchOK(NoSearch) /\ HandlerOK(NoWork)
         /\ \A c \in Clients : SearchOK(NewSearch(c))
<1>1. SearchOK(NoSearch) /\ SearchOK(Searched)
  BY DEF SearchOK, SearchRecord, NoSearch, Searched, Partnered
<1>2. ASSUME NEW c \in Clients PROVE SearchOK(NewSearch(c))
  <2>1. NoSearch \in SearchRecord /\ NoSearch.score = 0 /\ NoSearch.inbox = Absent
    BY DEF NoSearch, SearchRecord
  <2>2. /\ NewSearch(c) \in SearchRecord
        /\ NewSearch(c).pc = "get" /\ NewSearch(c).client = c /\ NewSearch(c).score = 0
        /\ NewSearch(c).inbox = Absent
    BY <2>1 DEF NewSearch, SearchRecord
  <2> QED BY <2>2 DEF SearchOK, Partnered
<1>3. HandlerOK(NoWork) /\ HandlerOK(Handled)
  BY DEF HandlerOK, HandlerRecord, HandlerSteps, NoWork, Handled, Ending, Leaving
<1> QED BY <1>1, <1>2, <1>3

\* A search that steps keeps its locals: the record stays well typed.
LEMMA SearchGoes ==
  ASSUME ThreadsOK, NEW t \in Threads,
         NEW pc \in Partnered \cup {"subscribe", "wait", "spin"},
         search[t].pc \notin {"off", "done", "wait"},
         pc \in Partnered => search[t].pc \in Partnered,
         SearchGo(t, pc), UNCHANGED <<handler, now>>
  PROVE  ThreadsOK'
<1> DEFINE s == [search[t] EXCEPT !.pc = pc]
<1>1. SearchOK(s)
  BY DEF ThreadsOK, SearchOK, SearchRecord
<1>2. search' = [search EXCEPT ![t] = s]
  BY DEF SearchGo, ThreadsOK
<1> QED BY <1>1, <1>2, SearchMoved

\* A search that ends has no locals any more.
LEMMA SearchEnded ==
  ASSUME ThreadsOK, now \in Nat, NEW t \in Threads, SearchEnds(t), UNCHANGED <<handler, now>>
  PROVE  ThreadsOK'
<1>1. SearchOK(Searched)
  BY EndedIsOK
<1> QED BY <1>1, SearchMoved DEF SearchEnds

\* The steps of a search keep what it shares with the others well typed.
LEMMA SearchStepShared ==
  ASSUME SharedOK, ThreadsOK, NEW t \in Threads, SearchStep(t)
  PROVE  SharedOK'
<1>1. search[t].pc \notin {"off", "done"} => Me(t) \in Clients
  BY DEF ThreadsOK, SearchOK, Me
<1>2. search[t].pc \in Partnered => Partner(t) \in Clients
  BY DEF ThreadsOK, SearchOK, Partner
<1>3. search[t].score \in Nat
  BY DEF ThreadsOK, SearchRecord
<1>4. ASSUME NEW c \in Clients, NEW score \in Nat, Match(c, score) PROVE StoreTypeOK'
  BY <1>4, StoreTypePreserved DEF SharedOK
<1>5. ASSUME RunMatchFound(t) \/ RunMatchWait(t) \/ RunMatchFails(t) PROVE SharedOK'
  <2>1. Me(t) \in Clients /\ UNCHANGED <<hub, hubClients, life, chatPartner, inner, now>>
    BY <1>1, <1>5 DEF RunMatchFound, RunMatchWait, RunMatchFails, SearchAt, memory, pages
  <2>2. StoreTypeOK'
    <3>1. (\E score \in Nat : Match(Me(t), score)) \/ UNCHANGED storeVars
      BY <1>3, <1>5 DEF RunMatchFound, RunMatchWait, RunMatchFails, Match
    <3>2. UNCHANGED storeVars => StoreTypeOK'
      BY DEF SharedOK, StoreTypeOK, storeVars
    <3> QED BY <2>1, <3>1, <3>2, <1>4
  <2>3. button' \in [Clients -> {"new", "searching", "connecting"}]
    BY <1>5, ButtonShown
       DEF SharedOK, RunMatchFound, RunMatchWait, RunMatchFails, pages
  <2> QED BY <2>1, <2>2, <2>3 DEF SharedOK
<1>6. ASSUME ConnectSetSelf(t) \/ ConnectSetPartner(t) PROVE SharedOK'
  <2>1. search[t].pc \in {"setSelf", "setPartner"}
    BY <1>6 DEF ConnectSetSelf, ConnectSetPartner, SearchAt
  <2>2. Me(t) \in Clients /\ Partner(t) \in Clients
    BY <1>1, <1>2, <2>1 DEF Partnered
  <2> QED BY <1>6, <2>2
       DEF SharedOK, StoreTypeOK, storeVars, pages, ConnectSetSelf, ConnectSetPartner
<1>7. ASSUME NEW pc, NEW c, NEW next, ShowInner(t, pc, c, next) PROVE SharedOK'
  <2>1. button' \in [Clients -> {"new", "searching", "connecting"}]
    BY <1>7, ButtonShown DEF SharedOK, ShowInner
  <2>2. inner' \in [Clients -> Threads \cup {NoOne}]
    BY <1>7 DEF SharedOK, ShowInner
  <2> QED BY <1>7, <2>1, <2>2 DEF SharedOK, StoreTypeOK, storeVars, memory, ShowInner
<1>8. ASSUME ShowConnectingSelf(t) \/ ShowConnectingPartner(t) \/ ShowMatchFailed(t)
             \/ Timeout(t)
      PROVE  SharedOK'
  <2>1. button' \in [Clients -> {"new", "searching", "connecting"}]
    BY <1>8, ButtonShown
       DEF SharedOK, ShowConnectingSelf, ShowConnectingPartner, ShowMatchFailed, Timeout
  <2> QED BY <1>8, <2>1
       DEF SharedOK, StoreTypeOK, storeVars, memory, ShowConnectingSelf,
           ShowConnectingPartner, ShowMatchFailed, Timeout
<1>9. ASSUME UNCHANGED <<storeVars, hub, memory, life, pages, now>> PROVE SharedOK'
  BY <1>9 DEF SharedOK, StoreTypeOK, storeVars, memory, pages
<1> QED
  BY <1>5, <1>6, <1>7, <1>8, <1>9
     DEF SearchStep, GetSession, GetPartnerSession, LookupPartner, Notify, NotifyFails,
         ConnectCheckSelf, ConnectCheckPartner, ShowInnerSelf, ShowInnerPartner, Subscribe,
         ReceiveNotify, CheckNotified, StopWaiting

\* The steps of a search keep the goroutines well typed.
LEMMA SearchStepThreads ==
  ASSUME SharedOK, ThreadsOK, NEW t \in Threads, SearchStep(t)
  PROVE  ThreadsOK'
<1>1. SearchOK(search[t]) /\ search[t] \in SearchRecord /\ now \in Nat
  BY DEF ThreadsOK, SharedOK
<1>2. ASSUME GetSession(t) PROVE ThreadsOK'
  <2> DEFINE s == [search[t] EXCEPT !.pc = "match", !.score = now]
  <2>1. s \in SearchRecord
    BY <1>1 DEF SearchRecord
  <2>2. s.pc = "match" /\ s.client = Me(t) /\ s.score = now /\ s.inbox = search[t].inbox
    BY <1>1 DEF SearchRecord, Me
  <2>3. Me(t) \in Clients /\ search[t].inbox = Absent
    BY <1>1, <1>2 DEF SearchOK, GetSession, SearchAt, Me
  <2>4. SearchOK(s)
    <3> HIDE DEF s
    <3> QED BY <1>1, <2>1, <2>2, <2>3, SMTT(30) DEF SearchOK, Partnered
  <2> QED BY <1>1, <1>2, <2>4, SearchMoved, SearchEnded DEF GetSession, ThreadsOK
<1>3. ASSUME RunMatchFound(t) PROVE ThreadsOK'
  <2> DEFINE p == MatchPartner(Me(t))
  <2>1. Me(t) \in Clients /\ search[t].inbox = Absent
    BY <1>1, <1>3 DEF RunMatchFound, SearchAt, SearchOK, Me
  <2>2. p \in Clients
    BY <1>3, <2>1, PartnerIsCompatible
       DEF SharedOK, RunMatchFound, MatchFound, LiveCandidates, Queued
  <2> HIDE DEF p
  <2> DEFINE s == [search[t] EXCEPT !.pc = "partner", !.score = 0, !.partner = p]
  <2>3. s \in SearchRecord
    BY <1>1, <2>2 DEF SearchRecord, Partnered
  <2>4. /\ s.client = Me(t) /\ s.score = 0 /\ s.partner = p /\ s.pc = "partner"
        /\ s.inbox = search[t].inbox
    BY <1>1 DEF SearchRecord, Me
  <2>5. SearchOK(s)
    <3> HIDE DEF s
    <3> QED BY <1>1, <2>1, <2>2, <2>3, <2>4 DEF SearchOK
  <2> QED BY <1>3, <2>5, SearchMoved DEF RunMatchFound, p, ThreadsOK
<1>4. ASSUME NEW pc \in {"subscribe", "matchFailed"}, SearchAt(t, "match"),
             search' = [search EXCEPT ![t].pc = pc, ![t].score = 0],
             UNCHANGED <<handler, now>>
      PROVE  ThreadsOK'
  <2> DEFINE s == [search[t] EXCEPT !.pc = pc, !.score = 0]
  <2>1. s \in SearchRecord
    BY <1>1 DEF SearchRecord
  <2>2. s.pc = pc /\ s.client = Me(t) /\ s.score = 0 /\ s.inbox = search[t].inbox
    BY <1>1 DEF SearchRecord, Me
  <2>3. Me(t) \in Clients /\ search[t].inbox = Absent
    BY <1>1, <1>4 DEF SearchOK, SearchAt, Me
  <2>4. SearchOK(s)
    <3> HIDE DEF s
    <3> QED BY <1>1, <2>1, <2>2, <2>3 DEF SearchOK, Partnered
  <2> QED BY <1>4, <2>4, SearchMoved DEF ThreadsOK
<1>5. ASSUME GetPartnerSession(t) PROVE ThreadsOK'
  <2> DEFINE p == session[Partner(t)]
  <2>1. CASE HasSession(Partner(t)) /\ search' = [search EXCEPT ![t].pc = "lookup", ![t].told = p]
    <3>1. p \in Clients \cup {NoOne}
      BY <1>1, <1>5, <2>1 DEF GetPartnerSession, SearchAt, SearchOK, Partnered, Partner,
                              SharedOK, StoreTypeOK, HasSession
    <3> HIDE DEF p
    <3>2. SearchOK([search[t] EXCEPT !.pc = "lookup", !.told = p])
      BY <1>1, <1>5, <3>1 DEF SearchOK, SearchRecord, Partnered, GetPartnerSession, SearchAt
    <3> QED BY <1>5, <2>1, <3>2, SearchMoved DEF GetPartnerSession, ThreadsOK
  <2> QED BY <1>1, <1>5, <2>1, SearchEnded DEF GetPartnerSession
<1>6. ASSUME Notify(t) \/ NotifyFails(t) PROVE ThreadsOK'
  <2>1. PICK own \in {[search[t] EXCEPT !.pc = "checkSelf", !.told = NoOne], Searched},
             reached \in SUBSET Subscribers(Partner(t)) :
          search' = [u \in Threads |->
                       IF u = t THEN own
                       ELSE IF u \in reached THEN [search[u] EXCEPT !.inbox = search[t].told]
                       ELSE search[u]]
    BY <1>6 DEF Notify, NotifyFails, Publish
  <2>2. search[t].pc = "notify" /\ search[t].told \in Clients \cup {NoOne}
    BY <1>1, <1>6 DEF Notify, NotifyFails, SearchAt, SearchRecord
  <2>3. SearchOK(own)
    <3>1. SearchOK([search[t] EXCEPT !.pc = "checkSelf", !.told = NoOne])
      BY <1>1, <2>2 DEF SearchOK, SearchRecord, Partnered
    <3> QED BY <1>1, <2>1, <3>1, EndedIsOK
  <2>4. ASSUME NEW u \in reached PROVE SearchOK([search[u] EXCEPT !.inbox = search[t].told])
    <3>1. u \in Threads /\ search[u].pc = "wait"
      BY <2>1 DEF Subscribers
    <3> QED BY <2>2, <3>1 DEF SearchOK, SearchRecord, ThreadsOK
  <2>5. \A u \in Threads : SearchOK(search'[u])
    BY <2>1, <2>3, <2>4 DEF ThreadsOK
  <2> QED BY <1>6, <2>1, <2>5 DEF ThreadsOK, SearchOK, HandlerOK, Notify, NotifyFails
<1>7. ASSUME ReceiveNotify(t) PROVE ThreadsOK'
  <2> DEFINE spin == [search[t] EXCEPT !.pc = "spin", !.inbox = Absent]
             told == [search[t] EXCEPT !.pc = "notified", !.inbox = Absent,
                                       !.partner = search[t].inbox]
  <2>1. Me(t) \in Clients
    BY <1>1, <1>7 DEF SearchOK, ReceiveNotify, SearchAt, Me
  <2>2. CASE search' = [search EXCEPT ![t].pc = "spin", ![t].inbox = Absent]
    <3>1. spin \in SearchRecord
      BY <1>1 DEF SearchRecord
    <3>2. /\ spin.pc = "spin" /\ spin.client = Me(t) /\ spin.score = search[t].score
          /\ spin.inbox = Absent
      BY <1>1 DEF SearchRecord, Me
    <3>3. SearchOK(spin)
      <4> HIDE DEF spin
      <4> QED BY <1>1, <2>1, <3>1, <3>2 DEF SearchOK, Partnered
    <3>4. search' = [search EXCEPT ![t] = spin]
      BY <2>2 DEF ThreadsOK
    <3> HIDE DEF spin
    <3> QED BY <1>7, <3>3, <3>4, SearchMoved DEF ReceiveNotify
  <2>3. CASE /\ search[t].inbox \in Clients
             /\ search' = [search EXCEPT ![t].pc = "notified", ![t].inbox = Absent,
                                         ![t].partner = search[t].inbox]
    <3>1. told \in SearchRecord
      BY <1>1, <2>3 DEF SearchRecord, Partnered
    <3>2. /\ told.pc = "notified" /\ told.client = Me(t)
          /\ told.partner = search[t].inbox /\ told.score = search[t].score
          /\ told.inbox = Absent
      BY <1>1 DEF SearchRecord, Me
    <3>3. SearchOK(told)
      <4> HIDE DEF told
      <4> QED BY <1>1, <2>1, <2>3, <3>1, <3>2 DEF SearchOK, Partnered
    <3>4. search' = [search EXCEPT ![t] = told]
      BY <2>3 DEF ThreadsOK
    <3> HIDE DEF told
    <3> QED BY <1>7, <3>3, <3>4, SearchMoved DEF ReceiveNotify
  <2> QED BY <1>7, <2>2, <2>3 DEF ReceiveNotify
<1>8. ASSUME NEW from \in Partnered \cup {"subscribe"},
             NEW to \in Partnered \cup {"subscribe", "wait", "spin"},
             from = "subscribe" => to \notin Partnered,
             SearchAt(t, from), SearchGo(t, to), UNCHANGED <<handler, now>>
      PROVE  ThreadsOK'
  BY <1>8, SearchGoes DEF SearchAt, Partnered
<1>9. ASSUME SearchEnds(t), UNCHANGED <<handler, now>> PROVE ThreadsOK'
  BY <1>1, <1>9, SearchEnded
<1>10. ASSUME LookupPartner(t) \/ ConnectCheckSelf(t) \/ ConnectCheckPartner(t)
              \/ CheckNotified(t)
       PROVE  ThreadsOK'
  BY <1>8, <1>9, <1>10
     DEF LookupPartner, ConnectCheckSelf, ConnectCheckPartner, CheckNotified, Partnered
<1>11. ASSUME ConnectSetSelf(t) \/ ConnectSetPartner(t) \/ ShowInnerSelf(t)
              \/ ShowInnerPartner(t) \/ ShowConnectingSelf(t) \/ Subscribe(t)
       PROVE  ThreadsOK'
  BY <1>8, <1>11
     DEF ConnectSetSelf, ConnectSetPartner, ShowInnerSelf, ShowInnerPartner, ShowInner,
         ShowConnectingSelf, Subscribe, Partnered
<1>12. ASSUME ShowMatchFailed(t) \/ ShowConnectingPartner(t) \/ Timeout(t) \/ StopWaiting(t)
       PROVE  ThreadsOK'
  BY <1>9, <1>12 DEF ShowMatchFailed, ShowConnectingPartner, Timeout, StopWaiting
<1>13. ASSUME RunMatchWait(t) \/ RunMatchFails(t) PROVE ThreadsOK'
  BY <1>4, <1>13 DEF RunMatchWait, RunMatchFails
<1> QED
  BY <1>2, <1>3, <1>5, <1>6, <1>7, <1>10, <1>11, <1>12, <1>13 DEF SearchStep

\* The steps of a handler keep what it shares with the others well typed.
LEMMA HandlerStepShared ==
  ASSUME SharedOK, ThreadsOK, NEW t \in Threads, HandlerStep(t)
  PROVE  SharedOK'
<1>1. handler[t].pc \notin {"off", "done"} => From(t) \in Clients
  BY DEF ThreadsOK, HandlerOK, From
<1>2. handler[t].pc \in Leaving => handler[t].partner \in Clients
  BY DEF ThreadsOK, HandlerOK
<1>3. ASSUME UnregisterRemove(t) \/ UnregisterDelete(t) \/ ClearPut(t) PROVE SharedOK'
  <2>1. PICK c \in Clients :
          RemoveFromQueue(c) \/ DeleteSession(c) \/ PutUnpaired(c) \/ UNCHANGED storeVars
    BY <1>1, <1>2, <1>3
       DEF UnregisterRemove, UnregisterDelete, ClearPut, HandlerAt, ClearTarget, Leaving
  <2>2. UNCHANGED storeVars => StoreTypeOK'
    BY DEF SharedOK, StoreTypeOK, storeVars
  <2>3. StoreTypeOK'
    BY <2>1, <2>2, StoreTypePreserved DEF SharedOK
  <2> QED BY <1>3, <2>3
       DEF SharedOK, UnregisterRemove, UnregisterDelete, ClearPut, memory, pages
<1>4. ASSUME DisconnectOwn(t) \/ DisconnectPartner(t) \/ UnregisterClearAgain(t)
      PROVE  SharedOK'
  BY <1>4 DEF SharedOK, StoreTypeOK, storeVars, pages, DisconnectOwn, DisconnectPartner,
              UnregisterClearAgain
<1>5. ASSUME PeerConnected(t) \/ UsePartnerAgain(t) \/ UnregisterTellPartner(t)
             \/ EndTellSelf(t) \/ SearchAgain(t)
      PROVE  SharedOK'
  <2>1. button' \in [Clients -> {"new", "searching", "connecting"}]
    BY <1>5, ButtonShown DEF SharedOK, PeerConnected, UsePartnerAgain,
         UnregisterTellPartner, EndTellSelf, SearchAgain
  <2>2. UNCHANGED <<storeVars, hub, memory, life, inner, now>>
    BY <1>5 DEF PeerConnected, UsePartnerAgain, UnregisterTellPartner, EndTellSelf,
         SearchAgain
  <2> QED BY <2>1, <2>2 DEF SharedOK, StoreTypeOK, storeVars, memory
<1>6. ASSUME NilPartner(t) \/ DeleteClient(t) PROVE SharedOK'
  BY <1>6 DEF SharedOK, StoreTypeOK, storeVars, memory, pages, NilPartner, DeleteClient
<1>7. ASSUME UNCHANGED <<storeVars, hub, memory, life, pages, now>> PROVE SharedOK'
  BY <1>7 DEF SharedOK, StoreTypeOK, storeVars, memory, pages
<1> QED
  BY <1>3, <1>4, <1>5, <1>6, <1>7
     DEF HandlerStep, CheckPartner, UsePartner, StartEnd, DisconnectLoad, ClearGet

\* A handler that steps keeps its locals.
LEMMA HandlerGoes ==
  ASSUME ThreadsOK, NEW t \in Threads, NEW pc \in HandlerSteps,
         handler[t].pc \notin {"off", "done"},
         pc \in Ending =>
           handler[t].kind \in {"new_connection", "end_connection", "unregister"},
         pc \in Leaving => handler[t].partner \in Clients,
         HandlerGo(t, pc), UNCHANGED <<search, now>>
  PROVE  ThreadsOK'
<1> DEFINE h == [handler[t] EXCEPT !.pc = pc]
<1>1. HandlerOK(h)
  BY DEF ThreadsOK, HandlerOK, HandlerRecord
<1>2. handler' = [handler EXCEPT ![t] = h]
  BY DEF HandlerGo, ThreadsOK
<1> QED BY <1>1, <1>2, HandlerMoved

\* A handler that ends has no locals any more.
LEMMA HandlerEnded ==
  ASSUME ThreadsOK, now \in Nat, NEW t \in Threads, HandlerEnds(t), UNCHANGED <<search, now>>
  PROVE  ThreadsOK'
<1>1. HandlerOK(Handled)
  BY EndedIsOK
<1> QED BY <1>1, HandlerMoved DEF HandlerEnds

\* The steps of a handler keep the goroutines well typed.
LEMMA HandlerStepThreads ==
  ASSUME SharedOK, ThreadsOK, NEW t \in Threads, HandlerStep(t)
  PROVE  ThreadsOK'
<1>1. HandlerOK(handler[t]) /\ handler[t] \in HandlerRecord /\ now \in Nat
  BY DEF ThreadsOK, SharedOK
<1>2. ASSUME NEW to \in HandlerSteps \ (Ending \cup Leaving),
             handler[t].pc \notin {"off", "done"}, HandlerGo(t, to), UNCHANGED <<search, now>>
      PROVE  ThreadsOK'
  BY <1>2, HandlerGoes
<1>3. ASSUME HandlerEnds(t), UNCHANGED <<search, now>> PROVE ThreadsOK'
  BY <1>1, <1>3, HandlerEnded
<1>4. ASSUME PeerConnected(t) \/ CheckPartner(t) \/ UsePartner(t) \/ UsePartnerAgain(t)
             \/ UnregisterTellPartner(t) \/ UnregisterRemove(t) \/ UnregisterDelete(t)
             \/ EndTellSelf(t)
      PROVE  ThreadsOK'
  BY <1>2, <1>3, <1>4 DEF PeerConnected, CheckPartner, UsePartner, UsePartnerAgain,
       UnregisterTellPartner, UnregisterRemove, UnregisterDelete, EndTellSelf, HandlerAt,
       HandlerSteps, Ending, Leaving
<1>5. ASSUME NEW kind \in {"new_connection", "end_connection", "unregister"}
      PROVE  AfterChat(kind) \in HandlerSteps \ (Ending \cup Leaving)
  BY DEF AfterChat, HandlerSteps, Ending, Leaving
<1>6. ASSUME StartEnd(t) PROVE ThreadsOK'
  <2>1. /\ handler[t].kind \in {"new_connection", "end_connection", "unregister"}
        /\ handler[t].pc = "start"
    BY <1>6 DEF StartEnd, HandlerAt, IsKind
  <2>2. AfterChat(handler[t].kind) \in HandlerSteps \ (Ending \cup Leaving)
    BY <1>5, <2>1
  <2>3. ASSUME HandlerGo(t, "load") PROVE ThreadsOK'
    BY <1>6, <2>1, <2>3, HandlerGoes DEF StartEnd, HandlerSteps, Ending, Leaving
  <2> QED BY <1>2, <1>6, <2>1, <2>2, <2>3 DEF StartEnd
<1>7. ASSUME DeleteClient(t) PROVE ThreadsOK'
  BY <1>1, <1>7, HandlerGoes
     DEF DeleteClient, HandlerAt, HandlerOK, HandlerSteps, Ending, Leaving
<1>8. ASSUME DisconnectLoad(t) PROVE ThreadsOK'
  <2> DEFINE p == chatPartner[From(t)]
             h == [handler[t] EXCEPT !.pc = "clearOwn", !.partner = p]
  <2>1. From(t) \in Clients /\ handler[t].pc = "load"
    BY <1>1, <1>8 DEF DisconnectLoad, HandlerAt, HandlerOK, From
  <2>2. p \in Clients \cup {NoOne}
    BY <2>1 DEF SharedOK
  <2> HIDE DEF p
  <2>3. h \in HandlerRecord
    BY <1>1, <2>2 DEF HandlerRecord, HandlerSteps, Ending
  <2>4. /\ h.pc = "clearOwn" /\ h.client = From(t) /\ h.partner = p
        /\ h.kind = handler[t].kind
    BY <1>1 DEF HandlerRecord, From
  <2>5. HandlerOK(h)
    <3> HIDE DEF h
    <3> QED BY <1>1, <2>1, <2>3, <2>4 DEF HandlerOK, Ending, Leaving
  <2>6. handler' = [handler EXCEPT ![t] = h]
    BY <1>8 DEF DisconnectLoad, ThreadsOK, p
  <2> HIDE DEF h
  <2> QED BY <1>8, <2>5, <2>6, HandlerMoved DEF DisconnectLoad
<1>9. ASSUME DisconnectOwn(t) \/ DisconnectPartner(t) PROVE ThreadsOK'
  <2>1. /\ handler[t].kind \in {"new_connection", "end_connection", "unregister"}
        /\ handler[t].pc \in {"clearOwn", "clearPartner"}
        /\ handler[t].partner \in Clients \cup {NoOne}
    BY <1>1, <1>9
       DEF DisconnectOwn, DisconnectPartner, HandlerAt, HandlerOK, HandlerRecord, Ending
  <2>2. AfterChat(handler[t].kind) \in HandlerSteps \ (Ending \cup Leaving)
    BY <1>5, <2>1
  <2>3. ASSUME HandlerGo(t, AfterChat(handler[t].kind)), UNCHANGED <<search, now>>
        PROVE  ThreadsOK'
    BY <1>2, <2>1, <2>2, <2>3
  <2>4. ASSUME handler[t].partner \in Clients, UNCHANGED <<search, now>>,
               HandlerGo(t, "clearPartner") \/ HandlerGo(t, "clearAgain")
        PROVE  ThreadsOK'
    BY <2>1, <2>4, HandlerGoes DEF HandlerSteps, Ending, Leaving
  <2>5. handler[t].pc = "clearPartner" => handler[t].partner \in Clients
    BY <1>1 DEF HandlerOK, Leaving
  <2> QED BY <1>9, <2>1, <2>3, <2>4, <2>5 DEF DisconnectOwn, DisconnectPartner, HandlerAt
<1>10. ASSUME UnregisterClearAgain(t) PROVE ThreadsOK'
  BY <1>1, <1>10, HandlerGoes
     DEF UnregisterClearAgain, HandlerAt, HandlerOK, HandlerSteps, Ending, Leaving
<1>11. ASSUME ClearGet(t) \/ ClearPut(t) PROVE ThreadsOK'
  <2>1. handler[t].pc \in {"getOwn", "getPartner", "putOwn", "putPartner"}
    BY <1>11 DEF ClearGet, ClearPut, HandlerAt
  <2>2. handler[t].pc \in {"getPartner", "putPartner"} => handler[t].partner \in Clients
    BY <1>1 DEF HandlerOK, Leaving
  <2>3. handler[t].partner \in Clients \cup {NoOne}
    BY <1>1 DEF HandlerRecord
  <2>4. ASSUME NEW to \in {"getPartner", "putOwn", "putPartner", "search"},
               to \in Leaving => handler[t].partner \in Clients,
               HandlerGo(t, to), UNCHANGED <<search, now>>
        PROVE  ThreadsOK'
    BY <2>1, <2>4, HandlerGoes DEF HandlerSteps, Ending, Leaving
  <2>5. /\ AfterClear(t) \in {"getPartner", "search"}
        /\ AfterClear(t) = "getPartner" => handler[t].partner \in Clients
    BY <2>3 DEF AfterClear
  <2>6. "search" \notin Leaving /\ "putOwn" \notin Leaving
    BY DEF Leaving
  <2>7. HandlerGo(t, AfterClear(t)) /\ UNCHANGED <<search, now>> => ThreadsOK'
    BY <2>4, <2>5, <2>6
  <2>8. CASE ClearGet(t)
    <3>1. CASE handler[t].pc = "getOwn" /\ HandlerGo(t, "putOwn")
      BY <2>4, <2>6, <2>8, <3>1 DEF ClearGet
    <3>2. CASE handler[t].pc = "getPartner" /\ HandlerGo(t, "putPartner")
      BY <2>2, <2>4, <2>8, <3>2 DEF ClearGet
    <3> QED BY <2>7, <2>8, <3>1, <3>2 DEF ClearGet, HandlerAt
  <2> QED BY <1>11, <2>7, <2>8 DEF ClearPut
<1>12. ASSUME SearchAgain(t) PROVE ThreadsOK'
  <2>1. From(t) \in Clients
    BY <1>1, <1>12 DEF SearchAgain, HandlerAt, HandlerOK, From
  <2>2. SearchOK(NewSearch(From(t))) /\ HandlerOK(Handled)
    BY <1>1, <2>1, EndedIsOK
  <2>3. /\ search' = [search EXCEPT ![t] = NewSearch(From(t))]
        /\ handler' = [handler EXCEPT ![t] = Handled]
        /\ now' = now
    BY <1>12 DEF SearchAgain, HandlerEnds
  <2> QED BY <2>2, <2>3 DEF ThreadsOK, SearchOK, HandlerOK
<1>13. ASSUME NilPartner(t) PROVE ThreadsOK'
  BY <1>13 DEF NilPartner, ThreadsOK, SearchOK, HandlerOK
<1> QED
  BY <1>4, <1>6, <1>7, <1>8, <1>9, <1>10, <1>11, <1>12, <1>13 DEF HandlerStep

\* HubTypeOK is the two parts together, before and after a step.
LEMMA TypeParts ==
  /\ HubTypeOK <=> SharedOK /\ ThreadsOK
  /\ HubTypeOK' <=> SharedOK' /\ ThreadsOK'
BY DEF HubTypeOK, SharedOK, ThreadsOK

\* Every goroutine is at a step of its own code with the locals of that step,
\* whatever fails, expires or is killed and started again.
THEOREM HubTypeCorrect == Spec => []HubTypeOK
<1>1. Init => HubTypeOK
  <2> SUFFICES ASSUME Init PROVE SharedOK /\ ThreadsOK
    BY TypeParts
  <2>1. SharedOK
    BY RulesAssumption DEF Init, StoreInit, SharedOK, StoreTypeOK
  <2>2. ThreadsOK
    BY <2>1, EndedIsOK DEF Init, SharedOK, ThreadsOK, SearchOK, HandlerOK
  <2> QED BY <2>1, <2>2
<1>2. HubTypeOK /\ [Next]_hubVars => HubTypeOK'
  <2> SUFFICES ASSUME SharedOK, ThreadsOK, [Next]_hubVars PROVE SharedOK' /\ ThreadsOK'
    BY TypeParts
  <2>1. UNCHANGED <<search, handler, now>> => ThreadsOK'
    BY DEF ThreadsOK, SearchOK, HandlerOK
  <2>2. ASSUME NEW c \in Clients, Register(c) PROVE SharedOK' /\ ThreadsOK'
    BY <2>1, <2>2, StoreTypePreserved DEF SharedOK, Register, pages
  <2>3. ASSUME NEW c \in Clients, ServeWs(c) PROVE SharedOK' /\ ThreadsOK'
    <3>1. c \in Threads /\ SearchOK(NewSearch(c))
      BY EndedIsOK DEF SharedOK, Threads
    <3>2. ThreadsOK'
      BY <2>3, <3>1, SearchMoved DEF ServeWs
    <3> QED BY <2>3, <3>2 DEF SharedOK, StoreTypeOK, storeVars, memory, pages, ServeWs
  <2>4. ASSUME NEW c \in Clients, Leave(c) PROVE SharedOK' /\ ThreadsOK'
    <3> DEFINE h == [pc |-> "delete", kind |-> "unregister", client |-> c, partner |-> NoOne]
    <3>1. c \in Threads /\ HandlerOK(h)
      BY DEF Threads, HandlerOK, HandlerRecord, HandlerSteps, Ending, Leaving
    <3>2. ThreadsOK'
      BY <2>4, <3>1, HandlerMoved DEF Leave
    <3> QED BY <2>4, <3>2 DEF SharedOK, StoreTypeOK, storeVars, memory, Leave
  <2>5. ASSUME NEW c \in Clients, SessionExpires(c) PROVE SharedOK' /\ ThreadsOK'
    BY <2>1, <2>5, StoreTypePreserved DEF SharedOK, SessionExpires, memory, pages
  <2>6. ASSUME NEW m \in Messages, NEW c \in Senders, NEW kind \in Kinds, Send(m, c, kind)
        PROVE  SharedOK' /\ ThreadsOK'
    <3> DEFINE h == [pc |-> "start", kind |-> kind, client |-> c, partner |-> NoOne]
    <3>1. m \in Threads /\ HandlerOK(h)
      BY HubAssumption DEF Threads, HandlerOK, HandlerRecord, HandlerSteps, Ending, Leaving
    <3>2. ThreadsOK'
      BY <2>6, <3>1, HandlerMoved DEF Send
    <3> QED BY <2>6, <3>2 DEF SharedOK, StoreTypeOK, storeVars, memory, pages, Send
  <2>7. ASSUME NEW t \in Threads, SearchStep(t) PROVE SharedOK' /\ ThreadsOK'
    BY <2>7, SearchStepShared, SearchStepThreads
  <2>8. ASSUME NEW t \in Threads, HandlerStep(t) PROVE SharedOK' /\ ThreadsOK'
    BY <2>8, HandlerStepShared, HandlerStepThreads
  <2>9. ASSUME NEW type \in {"text", "video"}, QueueExpires(type)
        PROVE  SharedOK' /\ ThreadsOK'
    BY <2>1, <2>9, RulesAssumption
       DEF SharedOK, StoreTypeOK, QueueExpires, DropQueue, memory, pages
  <2>10. ASSUME Stop \/ Exit PROVE SharedOK' /\ ThreadsOK'
    BY <2>1, <2>10 DEF SharedOK, StoreTypeOK, storeVars, memory, pages, Stop, Exit
  <2>11. ASSUME Restart PROVE SharedOK' /\ ThreadsOK'
    <3>1. SharedOK'
      BY <2>11 DEF SharedOK, StoreTypeOK, storeVars, pages, Restart
    <3>2. SearchOK(Searched) /\ HandlerOK(Handled)
      BY EndedIsOK DEF SharedOK
    <3>3. ThreadsOK'
      BY <2>11, <3>2 DEF ThreadsOK, SearchOK, HandlerOK, Restart
    <3> QED BY <3>1, <3>3
  <2>12. ASSUME Tick PROVE SharedOK' /\ ThreadsOK'
    BY <2>12 DEF SharedOK, ThreadsOK, SearchOK, HandlerOK, SearchRecord, StoreTypeOK,
                 storeVars, memory, pages, Tick
  <2>13. ASSUME UNCHANGED hubVars PROVE SharedOK' /\ ThreadsOK'
    BY <2>1, <2>13 DEF hubVars, SharedOK, StoreTypeOK
  <2> QED BY <2>2, <2>3, <2>4, <2>5, <2>6, <2>7, <2>8, <2>9, <2>10, <2>11, <2>12, <2>13
       DEF Next
<1> QED BY <1>1, <1>2, PTL DEF Spec

---------------------------------------------------------------------------
(* Chats obey the matching rules.                                          *)

\* What a search knows of other clients: the partner it was matched with or
\* told of, the partner_id it has read for the notification, and the
\* notification that waits for it.
KnowsOnly(known, s) ==
  /\ s.pc \in Partnered => s.partner \in known[s.client]
  /\ s.pc \in {"lookup", "notify"} /\ s.told \in Clients => s.told \in known[s.partner]
  /\ s.inbox \in Clients => s.client \in Clients /\ s.inbox \in known[s.client]

\* A search that steps without learning anything, or that ends.
LEMMA KnowsKept ==
  ASSUME ThreadsOK, NEW known, \A u \in Threads : KnowsOnly(known, search[u]), NEW t \in Threads,
         \/ SearchEnds(t)
         \/ \E pc : /\ SearchGo(t, pc)
                    /\ pc \in Partnered => search[t].pc \in Partnered
                    /\ pc \in {"lookup", "notify"} => search[t].pc \in {"lookup", "notify"}
  PROVE  \A u \in Threads : KnowsOnly(known, search'[u])
<1>1. ASSUME NEW pc, SearchGo(t, pc),
             pc \in Partnered => search[t].pc \in Partnered,
             pc \in {"lookup", "notify"} => search[t].pc \in {"lookup", "notify"}
      PROVE  \A u \in Threads : KnowsOnly(known, search'[u])
  <2> DEFINE s == [search[t] EXCEPT !.pc = pc]
  <2>1. /\ s.pc = pc /\ s.client = search[t].client /\ s.partner = search[t].partner
        /\ s.told = search[t].told /\ s.inbox = search[t].inbox
    BY DEF ThreadsOK, SearchRecord
  <2>2. search' = [search EXCEPT ![t] = s]
    BY <1>1 DEF SearchGo, ThreadsOK
  <2> HIDE DEF s
  <2>3. KnowsOnly(known, s)
    BY <1>1, <2>1 DEF KnowsOnly
  <2> QED BY <2>2, <2>3 DEF ThreadsOK
<1>2. KnowsOnly(known, Searched)
  BY RulesAssumption DEF KnowsOnly, Searched, NoSearch, Partnered
<1>3. SearchEnds(t) => \A u \in Threads : KnowsOnly(known, search'[u])
  BY <1>2 DEF SearchEnds, ThreadsOK
<1> QED BY <1>1, <1>3

\* A search hands on what it knows: if sessions and the script tell it only of
\* such clients, it only ever knows of those.
LEMMA SearchLearns ==
  ASSUME SharedOK, ThreadsOK, NEW known, \A u \in Threads : KnowsOnly(known, search[u]),
         \A c \in Clients : session[c] \in Clients => session[c] \in known[c],
         NEW t \in Threads, SearchStep(t),
         RunMatchFound(t) => MatchPartner(Me(t)) \in known[Me(t)]
  PROVE  \A u \in Threads : KnowsOnly(known, search'[u])
<1> DEFINE Knows == \A u \in Threads : KnowsOnly(known, search[u])
           Learns == \A u \in Threads : KnowsOnly(known, search'[u])
<1>1. SearchOK(search[t]) /\ search[t] \in SearchRecord /\ KnowsOnly(known, search[t])
  BY DEF ThreadsOK
<1>2. Knows
  OBVIOUS
<1>3. ASSUME NEW pc \in Partnered \ {"lookup", "notify"}, search[t].pc \in Partnered,
             SearchGo(t, pc)
      PROVE  Learns
  BY <1>2, <1>3, KnowsKept
<1>4. SearchEnds(t) => Learns
  BY <1>2, KnowsKept
<1>5. ASSUME NEW s, search' = [search EXCEPT ![t] = s], s.pc \notin Partnered,
             s.client = Me(t), s.inbox \in {search[t].inbox, Absent}
      PROVE  Learns
  <2>1. KnowsOnly(known, s)
    BY <1>1, <1>5, RulesAssumption DEF KnowsOnly, Partnered, Me
  <2> QED BY <1>2, <1>5, <2>1 DEF ThreadsOK
<1>6. ASSUME RunMatchFound(t) PROVE Learns
  <2> DEFINE p == MatchPartner(Me(t))
             s == [search[t] EXCEPT !.pc = "partner", !.score = 0, !.partner = p]
  <2>1. search' = [search EXCEPT ![t] = s] /\ p \in known[Me(t)]
    BY <1>6 DEF RunMatchFound, ThreadsOK
  <2> HIDE DEF p
  <2>2. s.pc = "partner" /\ s.client = Me(t) /\ s.partner = p /\ s.inbox = search[t].inbox
    BY <1>1 DEF SearchRecord, Me
  <2> HIDE DEF s
  <2>3. KnowsOnly(known, s)
    BY <1>1, <2>1, <2>2 DEF KnowsOnly, Me
  <2> QED BY <1>2, <2>1, <2>3 DEF ThreadsOK
<1>7. ASSUME GetSession(t) PROVE Learns
  <2> DEFINE s == [search[t] EXCEPT !.pc = "match", !.score = now]
  <2>1. s.pc = "match" /\ s.client = Me(t) /\ s.inbox = search[t].inbox
    BY <1>1 DEF SearchRecord, Me
  <2>2. (search' = [search EXCEPT ![t] = s]) \/ SearchEnds(t)
    BY <1>7 DEF GetSession, ThreadsOK
  <2> HIDE DEF s
  <2>3. "match" \notin Partnered
    BY DEF Partnered
  <2> QED BY <1>4, <1>5, <2>1, <2>2, <2>3
<1>8. ASSUME RunMatchWait(t) \/ RunMatchFails(t) PROVE Learns
  <2>a. PICK pc \in {"subscribe", "matchFailed"} :
          search' = [search EXCEPT ![t].pc = pc, ![t].score = 0]
    BY <1>8 DEF RunMatchWait, RunMatchFails
  <2> DEFINE s == [search[t] EXCEPT !.pc = pc, !.score = 0]
  <2>1. s.pc = pc /\ s.client = Me(t) /\ s.inbox = search[t].inbox
    BY <1>1 DEF SearchRecord, Me
  <2>2. search' = [search EXCEPT ![t] = s]
    BY <2>a DEF ThreadsOK
  <2> HIDE DEF s
  <2>3. pc \notin Partnered
    BY DEF Partnered
  <2> QED BY <1>5, <2>1, <2>2, <2>3
<1>9. ASSUME GetPartnerSession(t) PROVE Learns
  <2> DEFINE told == session[Partner(t)]
             s == [search[t] EXCEPT !.pc = "lookup", !.told = told]
  <2>1. search[t].pc \in Partnered /\ Partner(t) \in Clients
    BY <1>1, <1>9 DEF GetPartnerSession, SearchAt, SearchOK, Partnered, Partner
  <2>2. told \in Clients => told \in known[Partner(t)]
    BY <2>1
  <2>3. (search' = [search EXCEPT ![t] = s]) \/ SearchEnds(t)
    BY <1>9 DEF GetPartnerSession, ThreadsOK
  <2> HIDE DEF told
  <2>4. /\ s.client = search[t].client /\ s.partner = Partner(t)
        /\ s.told = told /\ s.inbox = search[t].inbox
    BY <1>1 DEF SearchRecord, Partner
  <2> HIDE DEF s
  <2>5. KnowsOnly(known, s)
    BY <1>1, <2>1, <2>2, <2>4 DEF KnowsOnly, Partner
  <2> QED BY <1>2, <1>4, <2>3, <2>5 DEF ThreadsOK
<1>10. ASSUME Notify(t) \/ NotifyFails(t) PROVE Learns
  <2> DEFINE told == search[t].told
             s == [search[t] EXCEPT !.pc = "checkSelf", !.told = NoOne]
  <2>1. PICK own \in {s, Searched}, reached \in SUBSET Subscribers(Partner(t)) :
          search' = [u \in Threads |->
                       IF u = t THEN own
                       ELSE IF u \in reached THEN [search[u] EXCEPT !.inbox = told]
                       ELSE search[u]]
    BY <1>10 DEF Notify, NotifyFails, Publish
  <2>2. search[t].pc = "notify" /\ search[t].pc \in Partnered
    BY <1>10 DEF Notify, NotifyFails, SearchAt, Partnered
  <2>3. KnowsOnly(known, own)
    <3>1. /\ s.pc = "checkSelf" /\ s.client = search[t].client
          /\ s.partner = search[t].partner /\ s.inbox = search[t].inbox
      BY <1>1 DEF SearchRecord
    <3> HIDE DEF s
    <3>2. KnowsOnly(known, s)
      BY <1>1, <2>2, <3>1 DEF KnowsOnly
    <3>3. KnowsOnly(known, Searched)
      BY RulesAssumption DEF KnowsOnly, Searched, NoSearch, Partnered
    <3> QED BY <2>1, <3>2, <3>3
  <2>4. ASSUME NEW u \in Subscribers(Partner(t))
        PROVE  KnowsOnly(known, [search[u] EXCEPT !.inbox = told])
    <3> DEFINE r == [search[u] EXCEPT !.inbox = told]
    <3>1. /\ u \in Threads /\ search[u].pc = "wait"
          /\ Me(u) = Partner(t) /\ Me(u) \in Clients
      BY DEF Subscribers, ThreadsOK, SearchOK, Me
    <3>2. told \in Clients => told \in known[Me(u)]
      BY <1>1, <2>2, <3>1 DEF KnowsOnly, Partner
    <3>3. r.pc = "wait" /\ r.client = Me(u) /\ r.inbox = told
      BY <3>1 DEF ThreadsOK, SearchRecord, Me
    <3> HIDE DEF r, told
    <3>4. KnowsOnly(known, r)
      BY <3>1, <3>2, <3>3 DEF KnowsOnly, Partnered
    <3> QED BY <3>4 DEF r
  <2> HIDE DEF s
  <2> QED BY <1>2, <2>1, <2>3, <2>4
<1>11. ASSUME ReceiveNotify(t) PROVE Learns
  <2> DEFINE spin == [search[t] EXCEPT !.pc = "spin", !.inbox = Absent]
             told == [search[t] EXCEPT !.pc = "notified", !.inbox = Absent,
                                       !.partner = search[t].inbox]
  <2>1. CASE search' = [search EXCEPT ![t].pc = "spin", ![t].inbox = Absent]
    <3>1. search' = [search EXCEPT ![t] = spin]
      BY <2>1 DEF ThreadsOK
    <3>2. spin.pc = "spin" /\ spin.client = Me(t) /\ spin.inbox = Absent
      BY <1>1 DEF SearchRecord, Me
    <3> HIDE DEF spin
    <3> QED BY <1>5, <3>1, <3>2 DEF Partnered
  <2>2. CASE /\ search[t].inbox \in Clients
             /\ search' = [search EXCEPT ![t].pc = "notified", ![t].inbox = Absent,
                                         ![t].partner = search[t].inbox]
    <3>1. search' = [search EXCEPT ![t] = told]
      BY <2>2 DEF ThreadsOK
    <3>2. /\ told.pc = "notified" /\ told.client = search[t].client
          /\ told.partner = search[t].inbox /\ told.inbox = Absent
      BY <1>1 DEF SearchRecord
    <3> HIDE DEF told
    <3>3. KnowsOnly(known, told)
      BY <1>1, <2>2, <3>2, RulesAssumption DEF KnowsOnly
    <3> QED BY <1>2, <3>1, <3>3 DEF ThreadsOK
  <2> QED BY <1>11, <2>1, <2>2 DEF ReceiveNotify
<1>12. ASSUME LookupPartner(t) PROVE Learns
  <2>1. SearchGo(t, "notify") \/ SearchEnds(t)
    BY <1>12 DEF LookupPartner
  <2>2. search[t].pc = "lookup" /\ "lookup" \in Partnered
    BY <1>12 DEF LookupPartner, SearchAt, Partnered
  <2> QED BY <1>2, <2>1, <2>2, KnowsKept
<1>13. ASSUME \/ ConnectCheckSelf(t) \/ ConnectCheckPartner(t) \/ ShowInnerSelf(t)
              \/ ShowInnerPartner(t) \/ ShowConnectingSelf(t) \/ CheckNotified(t)
              \/ ConnectSetSelf(t) \/ ConnectSetPartner(t)
       PROVE  Learns
  BY <1>3, <1>4, <1>13
     DEF ConnectCheckSelf, ConnectCheckPartner, ConnectSetSelf, ConnectSetPartner,
         ShowInnerSelf, ShowInnerPartner, ShowInner, ShowConnectingSelf, CheckNotified,
         SearchAt, Partnered
<1>14. ASSUME Subscribe(t) PROVE Learns
  <2>1. SearchGo(t, "wait") /\ "wait" \notin Partnered
    BY <1>14 DEF Subscribe, Partnered
  <2> QED BY <1>2, <2>1, KnowsKept
<1>15. ASSUME ShowMatchFailed(t) \/ ShowConnectingPartner(t) \/ Timeout(t) \/ StopWaiting(t)
       PROVE  Learns
  BY <1>4, <1>15 DEF ShowMatchFailed, ShowConnectingPartner, Timeout, StopWaiting
<1> QED
  BY <1>6, <1>7, <1>8, <1>9, <1>10, <1>11, <1>12, <1>13, <1>14, <1>15
     DEF SearchStep

CompatibleWith == [c \in Clients |-> {b \in Clients : Compatible(c, b)}]

FoundByRules(s) == KnowsOnly(CompatibleWith, s)

\* The inductive invariant: every place a partner may come from obeys the rules.
PairingInv ==
  /\ PairsObeyRules
  /\ SessionsObeyRules
  /\ \A t \in Threads : FoundByRules(search[t])

\* No step of a search pairs anybody against the rules: it hands on what the
\* script has found and what sessions say.
LEMMA SearchStepPairs ==
  ASSUME SharedOK, ThreadsOK, PairingInv, NEW t \in Threads, SearchStep(t)
  PROVE  PairingInv'
<1>1. SearchOK(search[t]) /\ search[t] \in SearchRecord /\ FoundByRules(search[t])
  BY DEF ThreadsOK, PairingInv
<1>2. SessionsObeyRules /\ PairsObeyRules
  BY DEF PairingInv
<1>3. ASSUME RunMatchFound(t) \/ RunMatchWait(t) \/ RunMatchFails(t)
      PROVE  SessionsObeyRules' /\ PairsObeyRules'
  <2>1. Me(t) \in Clients
    BY <1>1, <1>3 DEF RunMatchFound, RunMatchWait, RunMatchFails, SearchAt, SearchOK, Me
  <2>2. (\E score : Match(Me(t), score)) \/ UNCHANGED session
    BY <1>3 DEF RunMatchFound, RunMatchWait, RunMatchFails, Match, storeVars
  <2>3. SessionsObeyRules'
    BY <1>2, <2>1, <2>2, SessionRulesPreserved DEF SharedOK
  <2>4. PairsObeyRules'
    BY <1>2, <1>3 DEF RunMatchFound, RunMatchWait, RunMatchFails, memory, PairsObeyRules
  <2> QED BY <2>3, <2>4
<1>4. ASSUME ConnectSetSelf(t) \/ ConnectSetPartner(t)
      PROVE  SessionsObeyRules' /\ PairsObeyRules'
  <2>1. search[t].pc \in Partnered /\ Me(t) \in Clients /\ Partner(t) \in Clients
    BY <1>1, <1>4 DEF ConnectSetSelf, ConnectSetPartner, SearchAt, SearchOK, Partnered,
                      Me, Partner
  <2>2. Compatible(Me(t), Partner(t)) /\ Compatible(Partner(t), Me(t))
    BY <1>1, <2>1, CompatibleSymmetric
       DEF FoundByRules, KnowsOnly, CompatibleWith, Me, Partner
  <2>3. PairsObeyRules'
    BY <1>2, <1>4, <2>1, <2>2
       DEF SharedOK, PairsObeyRules, ConnectSetSelf, ConnectSetPartner
  <2>4. SessionsObeyRules'
    BY <1>2, <1>4 DEF ConnectSetSelf, ConnectSetPartner, storeVars, SessionsObeyRules
  <2> QED BY <2>3, <2>4
<1>5. ASSUME UNCHANGED <<session, chatPartner>>
      PROVE  SessionsObeyRules' /\ PairsObeyRules'
  BY <1>2, <1>5 DEF SessionsObeyRules, PairsObeyRules
<1>6. SessionsObeyRules' /\ PairsObeyRules'
  BY <1>3, <1>4, <1>5
     DEF SearchStep, GetSession, GetPartnerSession, LookupPartner, Notify, NotifyFails,
         ConnectCheckSelf, ConnectCheckPartner, ShowInnerSelf, ShowInnerPartner, ShowInner,
         ShowConnectingSelf, ShowConnectingPartner, ShowMatchFailed, Subscribe,
         ReceiveNotify, CheckNotified, Timeout, StopWaiting, storeVars, memory
<1>7. \A u \in Threads : FoundByRules(search'[u])
  <2>1. \A c \in Clients : session[c] \in Clients => session[c] \in CompatibleWith[c]
    BY <1>2 DEF SessionsObeyRules, CompatibleWith
  <2>2. ASSUME RunMatchFound(t) PROVE MatchPartner(Me(t)) \in CompatibleWith[Me(t)]
    <3>1. Me(t) \in Clients
      BY <1>1, <2>2 DEF RunMatchFound, SearchAt, SearchOK, Me
    <3>2. MatchPartner(Me(t)) \in Clients /\ Compatible(Me(t), MatchPartner(Me(t)))
      BY <2>2, <3>1, PartnerIsCompatible
         DEF SharedOK, RunMatchFound, MatchFound, LiveCandidates, Queued
    <3> QED BY <3>1, <3>2 DEF CompatibleWith
  <2>3. PICK known : known = CompatibleWith
    OBVIOUS
  <2>4. \A u \in Threads : KnowsOnly(known, search[u])
    BY <2>3 DEF PairingInv, FoundByRules
  <2>5. \A u \in Threads : KnowsOnly(known, search'[u])
    BY <2>1, <2>2, <2>3, <2>4, SearchLearns
  <2> QED BY <2>3, <2>5 DEF FoundByRules
<1> QED BY <1>6, <1>7 DEF PairingInv

\* No step of a handler pairs anybody: it only clears, or starts a search.
LEMMA HandlerStepPairs ==
  ASSUME SharedOK, ThreadsOK, PairingInv, NEW t \in Threads, HandlerStep(t)
  PROVE  PairingInv'
<1> DEFINE Found == \A u \in Threads : FoundByRules(search[u])
<1>1. HandlerOK(handler[t]) /\ Found /\ SessionsObeyRules /\ PairsObeyRules
  BY DEF ThreadsOK, PairingInv
<1>2. Found'
  <2>1. CASE SearchAgain(t)
    <3> DEFINE s == NewSearch(From(t))
    <3>1. search' = [search EXCEPT ![t] = s]
      BY <2>1 DEF SearchAgain
    <3>2. s.pc = "get" /\ s.inbox = Absent
      BY DEF NewSearch, NoSearch
    <3> HIDE DEF s
    <3>3. FoundByRules(s)
      BY <3>2, RulesAssumption DEF FoundByRules, KnowsOnly, Partnered
    <3> QED BY <1>1, <3>1, <3>3 DEF ThreadsOK
  <2>2. CASE UNCHANGED search
    BY <1>1, <2>2
  <2> QED BY <2>1, <2>2
       DEF HandlerStep, PeerConnected, CheckPartner, UsePartner, UsePartnerAgain, NilPartner,
           StartEnd, DeleteClient, DisconnectLoad, DisconnectOwn, DisconnectPartner,
           UnregisterClearAgain, UnregisterTellPartner, UnregisterRemove, UnregisterDelete,
           EndTellSelf, ClearGet, ClearPut
<1>3. SessionsObeyRules'
  <2>1. CASE UnregisterDelete(t) \/ ClearPut(t) \/ UnregisterRemove(t)
    <3>1. From(t) \in Clients /\ ClearPut(t) => ClearTarget(t) \in Clients
      BY <1>1 DEF HandlerOK, ClearPut, HandlerAt, ClearTarget, From, Leaving
    <3>2. From(t) \in Clients
      BY <1>1, <2>1
         DEF HandlerOK, UnregisterDelete, ClearPut, UnregisterRemove, HandlerAt, From
    <3>3. PICK c \in Clients : \/ PutUnpaired(c) \/ DeleteSession(c) \/ RemoveFromQueue(c)
                               \/ UNCHANGED session
      BY <2>1, <3>1, <3>2 DEF UnregisterDelete, ClearPut, UnregisterRemove, storeVars
    <3> QED BY <1>1, <3>3, SessionRulesPreserved DEF SharedOK
  <2>2. CASE UNCHANGED storeVars
    BY <1>1, <2>2 DEF SessionsObeyRules, storeVars
  <2> QED BY <2>1, <2>2
       DEF HandlerStep, PeerConnected, CheckPartner, UsePartner, UsePartnerAgain, NilPartner,
           StartEnd, DeleteClient, DisconnectLoad, DisconnectOwn, DisconnectPartner,
           UnregisterClearAgain, UnregisterTellPartner, EndTellSelf, ClearGet, SearchAgain
<1>4. PairsObeyRules'
  <2>1. CASE DisconnectOwn(t) \/ DisconnectPartner(t) \/ UnregisterClearAgain(t)
    <3>1. PICK c : chatPartner' = [chatPartner EXCEPT ![c] = NoOne]
      BY <2>1 DEF DisconnectOwn, DisconnectPartner, UnregisterClearAgain
    <3> QED BY <1>1, <3>1 DEF SharedOK, PairsObeyRules
  <2>2. CASE UNCHANGED chatPartner
    BY <1>1, <2>2 DEF PairsObeyRules
  <2> QED BY <2>1, <2>2
       DEF HandlerStep, PeerConnected, CheckPartner, UsePartner, UsePartnerAgain, NilPartner,
           StartEnd, DeleteClient, DisconnectLoad, UnregisterTellPartner, UnregisterRemove,
           UnregisterDelete, EndTellSelf, ClearGet, ClearPut, SearchAgain, memory
<1> QED BY <1>2, <1>3, <1>4 DEF PairingInv

\* Nobody is ever put into a chat the rules forbid, for any number of clients
\* and messages, whatever fails, overlaps or is restarted (client.go:161-181).
THEOREM ChatsObeyRules == Spec => []PairsObeyRules
<1>1. Init => PairingInv
  <2> SUFFICES ASSUME Init PROVE PairingInv
    OBVIOUS
  <2>1. FoundByRules(NoSearch)
    BY RulesAssumption DEF FoundByRules, KnowsOnly, NoSearch, Partnered
  <2> QED BY <2>1, RulesAssumption
       DEF Init, StoreInit, PairingInv, PairsObeyRules, SessionsObeyRules
<1>2. HubTypeOK /\ PairingInv /\ [Next]_hubVars => PairingInv'
  <2> SUFFICES ASSUME SharedOK, ThreadsOK, PairingInv, [Next]_hubVars PROVE PairingInv'
    BY TypeParts
  <2>1. UNCHANGED <<session, chatPartner, search>> => PairingInv'
    BY DEF PairingInv, PairsObeyRules, SessionsObeyRules
  <2>2. ASSUME NEW c \in Clients, Register(c) \/ SessionExpires(c) PROVE PairingInv'
    <3>1. SessionsObeyRules'
      BY <2>2, SessionRulesPreserved DEF SharedOK, PairingInv, Register, SessionExpires
    <3>2. UNCHANGED <<chatPartner, search>>
      BY <2>2 DEF Register, SessionExpires, memory
    <3> QED BY <3>1, <3>2 DEF PairingInv, PairsObeyRules
  <2>3. ASSUME NEW c \in Clients, ServeWs(c) PROVE PairingInv'
    <3> DEFINE s == NewSearch(c)
    <3>1. search' = [search EXCEPT ![c] = s] /\ UNCHANGED <<session, chatPartner>>
      BY <2>3 DEF ServeWs, memory, storeVars
    <3>2. s.pc = "get" /\ s.inbox = Absent
      BY DEF NewSearch, NoSearch
    <3> HIDE DEF s
    <3>3. FoundByRules(s)
      BY <3>2, RulesAssumption DEF FoundByRules, KnowsOnly, Partnered
    <3> QED BY <3>1, <3>3 DEF ThreadsOK, PairingInv, PairsObeyRules, SessionsObeyRules
  <2>4. ASSUME NEW t \in Threads, SearchStep(t) \/ HandlerStep(t) PROVE PairingInv'
    BY <2>4, SearchStepPairs, HandlerStepPairs
  <2>5. ASSUME Restart PROVE PairingInv'
    <3>1. FoundByRules(Searched)
      BY RulesAssumption DEF FoundByRules, KnowsOnly, Searched, NoSearch, Partnered
    <3> QED BY <2>5, <3>1
         DEF Restart, PairingInv, PairsObeyRules, SessionsObeyRules, storeVars, ThreadsOK
  <2>6. ASSUME \/ \E c \in Clients : Leave(c)
               \/ \E m \in Messages, c \in Senders, kind \in Kinds : Send(m, c, kind)
               \/ \E type \in {"text", "video"} : QueueExpires(type)
               \/ Stop \/ Exit \/ Tick \/ UNCHANGED hubVars
        PROVE  PairingInv'
    BY <2>1, <2>6
       DEF Leave, Send, QueueExpires, DropQueue, Stop, Exit, Tick, hubVars, storeVars, memory
  <2> QED BY <2>2, <2>3, <2>4, <2>5, <2>6 DEF Next
<1>3. PairingInv => PairsObeyRules
  BY DEF PairingInv
<1> QED BY <1>1, <1>2, <1>3, HubTypeCorrect, PTL DEF Spec

=============================================================================
