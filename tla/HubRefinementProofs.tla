------------------------- MODULE HubRefinementProofs -------------------------
(* The hub implements the two abstractions of what it is built on, for any  *)
(* clients, messages, rules and clock: it uses Redis only as MatchQueue     *)
(* allows, so what is proved of MatchQueue holds of its store, and its      *)
(* searches hear of matches as Mailbox promises.                            *)
EXTENDS HubProofs

---------------------------------------------------------------------------
(* The commands of the two modules are the same.                           *)

\* A run of the match script.
LEMMA SameMatch == \A c, score : Store!Match(c, score) <=> Match(c, score)
BY DEF Match, MatchNoSession, MatchFound, MatchEnqueue, MatchPartner, Purged, Scanned,
       InterestHits, FallbackHits, LiveCandidates, Queued, HasSession, HasCommon,
       FallbackPair, Oldest, Before, storeVars,
       Store!Match, Store!MatchNoSession, Store!MatchFound, Store!MatchEnqueue,
       Store!MatchPartner, Store!Purged, Store!Scanned, Store!InterestHits,
       Store!FallbackHits, Store!LiveCandidates, Store!Queued, Store!HasSession,
       Store!HasCommon, Store!FallbackPair, Store!Oldest, Store!Before, Store!storeVars

\* The plain commands.
LEMMA SameCommands ==
  /\ \A c : /\ Store!HasSession(c) <=> HasSession(c)
            /\ Store!PutUnpaired(c) <=> PutUnpaired(c)
            /\ Store!DeleteSession(c) <=> DeleteSession(c)
            /\ Store!RemoveFromQueue(c) <=> RemoveFromQueue(c)
            /\ Store!DropQueue(c) <=> DropQueue(c)
  /\ Store!StoreInit <=> StoreInit
BY DEF HasSession, PutUnpaired, DeleteSession, RemoveFromQueue, DropQueue, StoreInit,
       Store!HasSession, Store!PutUnpaired, Store!DeleteSession, Store!RemoveFromQueue,
       Store!DropQueue, Store!StoreInit

---------------------------------------------------------------------------
(* Sessions belong to clients that registered.                             *)

Registered == {c \in Clients : life[c] # "new"}

\* A session, or a session a clear has read, is one of a registered client.
SessionsRegistered ==
  /\ \A c \in Clients : HasSession(c) => c \in Registered
  /\ Clearing \subseteq Registered

\* A handler that is not about to write a session adds nothing to Clearing.
LEMMA ClearingShrinks ==
  ASSUME ThreadsOK, NEW t \in Threads, NEW h, h.pc \notin {"putOwn", "putPartner"},
         handler' = [handler EXCEPT ![t] = h]
  PROVE  Clearing' \subseteq Clearing
BY DEF ThreadsOK, Clearing

\* A handler that begins to write one adds the client whose session it read.
LEMMA ClearingGrows ==
  ASSUME ThreadsOK, NEW t \in Threads,
         \/ handler[t].pc = "getOwn" /\ HandlerGo(t, "putOwn")
         \/ handler[t].pc = "getPartner" /\ HandlerGo(t, "putPartner")
  PROVE  Clearing' = Clearing \cup {ClearTarget(t)}
<1>1. \A u \in Threads \ {t} : handler'[u] = handler[u]
  BY DEF HandlerGo, ThreadsOK
<1>2. CASE handler[t].pc = "getOwn" /\ HandlerGo(t, "putOwn")
  <2>1. handler'[t].pc = "putOwn" /\ handler'[t].client = handler[t].client
    BY <1>2 DEF HandlerGo, ThreadsOK, HandlerRecord
  <2> QED BY <1>1, <1>2, <2>1 DEF Clearing, ClearTarget, From
<1>3. CASE handler[t].pc = "getPartner" /\ HandlerGo(t, "putPartner")
  <2>1. handler'[t].pc = "putPartner" /\ handler'[t].partner = handler[t].partner
    BY <1>3 DEF HandlerGo, ThreadsOK, HandlerRecord
  <2> QED BY <1>1, <1>3, <2>1 DEF Clearing, ClearTarget
<1> QED BY <1>2, <1>3

\* A handler that has written one is one of those that were clearing it.
LEMMA ClearingDone ==
  ASSUME ThreadsOK, NEW t \in Threads, HandlerGo(t, AfterClear(t)),
         handler[t].pc \in {"putOwn", "putPartner"}
  PROVE  /\ ClearTarget(t) \in Clearing
         /\ Clearing' \in {Clearing, Clearing \ {ClearTarget(t)}}
<1>1. /\ \A u \in Threads \ {t} : handler'[u] = handler[u]
      /\ handler'[t].pc \in {"getPartner", "search"}
  BY DEF HandlerGo, AfterClear, ThreadsOK, HandlerRecord
<1>2. ClearTarget(t) \in Clearing
  BY DEF Clearing, ClearTarget, From
<1>3. \A c : c \in Clearing' => c \in Clearing
  BY <1>1 DEF Clearing
<1>4. \A c : c \in Clearing /\ c # ClearTarget(t) => c \in Clearing'
  BY <1>1 DEF Clearing, ClearTarget, From
<1> QED BY <1>2, <1>3, <1>4

\* Whose step it is does not matter: a step that leaves store, registrations
\* and clock alone, and begins no clear, is a stutter or a lost clear.
LEMMA NothingToStore ==
  ASSUME UNCHANGED <<storeVars, now>>, Registered' = Registered,
         Clearing' \subseteq Clearing
  PROVE  Store!ClearLost
BY DEF Store!ClearLost, storeVars, Registered

\* What the store may do keeps sessions and clears those of registered clients.
LEMMA RegisteredKept ==
  ASSUME StoreTypeOK, SessionsRegistered, [Store!Next]_Store!queueVars
  PROVE  SessionsRegistered'
<1> USE SameCommands, SameMatch
<1>1. ASSUME NEW c \in Clients, Store!Save(c) PROVE SessionsRegistered'
  BY <1>1 DEF Store!Save, PutUnpaired, SessionsRegistered, Registered, HasSession, StoreTypeOK
<1>2. ASSUME NEW c \in Clients, Store!MatchStep(c) PROVE SessionsRegistered'
  <2>1. Clearing' = Clearing /\ Registered' = Registered
    BY <1>2 DEF Store!MatchStep, Registered
  <2>2. CASE MatchFound(c)
    <3>1. MatchPartner(c) \in Clients /\ HasSession(MatchPartner(c))
      BY <2>2, PartnerIsCompatible DEF MatchFound, LiveCandidates, Queued
    <3>2. \A b \in Clients : HasSession(b)' => HasSession(b)
      BY <2>2, <3>1 DEF MatchFound, HasSession, StoreTypeOK
    <3> QED BY <2>1, <3>2 DEF SessionsRegistered
  <2>3. CASE UNCHANGED session
    BY <2>1, <2>3 DEF SessionsRegistered, HasSession
  <2> QED BY <1>2, <2>2, <2>3
       DEF Store!MatchStep, Match, MatchNoSession, MatchEnqueue, storeVars
<1>3. ASSUME NEW c \in Clients, Store!ClearGet(c) PROVE SessionsRegistered'
  BY <1>3 DEF Store!ClearGet, SessionsRegistered, Registered, HasSession
<1>4. ASSUME NEW c \in Clients, Store!ClearPut(c) PROVE SessionsRegistered'
  BY <1>4 DEF Store!ClearPut, PutUnpaired, SessionsRegistered, Registered, HasSession,
              StoreTypeOK
<1>5. ASSUME NEW c \in Clients, Store!Remove(c) \/ Store!Delete(c) PROVE SessionsRegistered'
  BY <1>5 DEF Store!Remove, Store!Delete, RemoveFromQueue, DeleteSession,
              SessionsRegistered, Registered, HasSession, StoreTypeOK
<1>6. ASSUME NEW type \in {"text", "video"}, Store!QueueExpires(type)
      PROVE  SessionsRegistered'
  BY <1>6 DEF Store!QueueExpires, DropQueue, SessionsRegistered, Registered, HasSession
<1>7. ASSUME Store!ClearLost PROVE SessionsRegistered'
  BY <1>7 DEF Store!ClearLost, SessionsRegistered, Registered, HasSession
<1>8. ASSUME Store!Tick \/ UNCHANGED Store!queueVars PROVE SessionsRegistered'
  BY <1>8 DEF Store!Tick, Store!queueVars, SessionsRegistered, Registered, HasSession
<1> QED BY <1>1, <1>2, <1>3, <1>4, <1>5, <1>6, <1>7, <1>8 DEF Store!Next

---------------------------------------------------------------------------
(* Every step of the hub is one of the store's, or none.                   *)

\* A search runs the script, or does nothing to Redis.
LEMMA SearchStepStore ==
  ASSUME SharedOK, ThreadsOK, NEW t \in Threads, SearchStep(t)
  PROVE  Store!Next
<1>1. SearchOK(search[t]) /\ search[t].score \in 0..now
  BY DEF ThreadsOK, SearchOK, SearchRecord, SharedOK
<1>2. UNCHANGED <<life, handler, now>>
  BY DEF SearchStep, GetSession, RunMatchFound, RunMatchWait, RunMatchFails,
         ShowMatchFailed, GetPartnerSession, LookupPartner, Notify, NotifyFails, ConnectCheckSelf,
         ConnectCheckPartner, ConnectSetSelf, ConnectSetPartner, ShowInnerSelf,
         ShowInnerPartner, ShowInner, ShowConnectingSelf, ShowConnectingPartner, Subscribe,
         ReceiveNotify, CheckNotified, Timeout, StopWaiting
<1>3. Registered' = Registered /\ Clearing' = Clearing
  BY <1>2 DEF Registered, Clearing
<1>4. CASE UNCHANGED storeVars
  <2>1. Store!ClearLost
    BY <1>2, <1>3, <1>4, NothingToStore
  <2> QED BY <2>1 DEF Store!Next
<1>5. CASE RunMatchFound(t) \/ RunMatchWait(t) \/ RunMatchFails(t)
  <2>1. Me(t) \in Clients
    BY <1>1, <1>5 DEF RunMatchFound, RunMatchWait, RunMatchFails, SearchAt, SearchOK, Me
  <2>2. Match(Me(t), search[t].score) \/ UNCHANGED storeVars
    BY <1>5 DEF RunMatchFound, RunMatchWait, RunMatchFails, Match
  <2>3. CASE Match(Me(t), search[t].score)
    <3>1. Store!MatchStep(Me(t))
      BY <1>1, <1>2, <1>3, <2>3, SameMatch DEF Store!MatchStep, Registered
    <3> QED BY <2>1, <3>1 DEF Store!Next
  <2> QED BY <1>4, <2>2, <2>3
<1> QED
  BY <1>4, <1>5
     DEF SearchStep, GetSession, ShowMatchFailed, GetPartnerSession, LookupPartner, Notify, NotifyFails,
         ConnectCheckSelf, ConnectCheckPartner, ConnectSetSelf, ConnectSetPartner,
         ShowInnerSelf, ShowInnerPartner, ShowInner, ShowConnectingSelf,
         ShowConnectingPartner, Subscribe, ReceiveNotify, CheckNotified, Timeout, StopWaiting

\* A handler clears, removes or deletes, or does nothing to Redis.
LEMMA HandlerStepStore ==
  ASSUME SharedOK, ThreadsOK, SessionsRegistered, NEW t \in Threads, HandlerStep(t)
  PROVE  Store!Next
<1>1. HandlerOK(handler[t]) /\ handler[t] \in HandlerRecord
  BY DEF ThreadsOK
<1>2. UNCHANGED <<life, now>> /\ Registered' = Registered
  BY DEF HandlerStep, PeerConnected, CheckPartner, UsePartner, UsePartnerAgain, NilPartner,
         StartEnd, DeleteClient, DisconnectLoad, DisconnectOwn, DisconnectPartner,
         UnregisterClearAgain, UnregisterTellPartner, UnregisterRemove, UnregisterDelete,
         EndTellSelf, ClearGet, ClearPut, SearchAgain, Registered
<1>3. ASSUME UNCHANGED storeVars, Clearing' \subseteq Clearing PROVE Store!Next
  <2>1. Store!ClearLost
    BY <1>2, <1>3, NothingToStore
  <2> QED BY <2>1 DEF Store!Next
<1>4. ASSUME NEW pc \in HandlerSteps \ {"putOwn", "putPartner"}, HandlerGo(t, pc)
      PROVE  Clearing' \subseteq Clearing
  <2> DEFINE h == [handler[t] EXCEPT !.pc = pc]
  <2>1. h.pc = pc /\ handler' = [handler EXCEPT ![t] = h]
    BY <1>1, <1>4 DEF HandlerGo, HandlerRecord, ThreadsOK
  <2> HIDE DEF h
  <2> QED BY <1>4, <2>1, ClearingShrinks
<1>5. HandlerEnds(t) => Clearing' \subseteq Clearing
  <2>1. Handled.pc = "done"
    BY DEF Handled, NoWork
  <2> QED BY <2>1, ClearingShrinks DEF HandlerEnds
<1>6. handler[t].pc \in Ending =>
        AfterChat(handler[t].kind) \in HandlerSteps \ {"putOwn", "putPartner"}
  BY <1>1 DEF HandlerOK, AfterChat, HandlerSteps
<1>7. CASE UnregisterRemove(t) \/ UnregisterDelete(t)
  <2>1. From(t) \in Clients /\ Clearing' \subseteq Clearing
    BY <1>1, <1>4, <1>5, <1>7
       DEF UnregisterRemove, UnregisterDelete, HandlerAt, HandlerOK, From, HandlerSteps
  <2>2. Clearing' = Clearing
    BY <1>1, <1>7, SMTT(30) DEF UnregisterRemove, UnregisterDelete, HandlerAt, HandlerGo, HandlerEnds,
                      Handled, NoWork, Clearing, ThreadsOK, HandlerRecord
  <2>3. UNCHANGED storeVars => Store!Next
    BY <1>3, <2>1
  <2>4. RemoveFromQueue(From(t)) => Store!Remove(From(t))
    BY <1>2, <2>2, SameCommands DEF Store!Remove, Registered
  <2>5. DeleteSession(From(t)) => Store!Delete(From(t))
    BY <1>2, <2>2, SameCommands DEF Store!Delete, Registered
  <2> QED BY <1>7, <2>1, <2>3, <2>4, <2>5 DEF Store!Next, UnregisterRemove, UnregisterDelete
<1>8. CASE ClearGet(t)
  <2>1. CASE HandlerGo(t, AfterClear(t))
    <3>1. AfterClear(t) \in HandlerSteps \ {"putOwn", "putPartner"}
      BY DEF AfterClear, HandlerSteps, Leaving
    <3> QED BY <1>3, <1>4, <1>8, <2>1, <3>1 DEF ClearGet
  <2>2. CASE /\ HasSession(ClearTarget(t))
             /\ HandlerGo(t, IF handler[t].pc = "getOwn" THEN "putOwn" ELSE "putPartner")
    <3>1. ClearTarget(t) \in Clients
      BY <1>1, <1>8 DEF ClearGet, HandlerAt, HandlerOK, ClearTarget, From, Leaving
    <3>2. \/ handler[t].pc = "getOwn" /\ HandlerGo(t, "putOwn")
          \/ handler[t].pc = "getPartner" /\ HandlerGo(t, "putPartner")
      BY <1>8, <2>2 DEF ClearGet, HandlerAt
    <3>3. Clearing' = Clearing \cup {ClearTarget(t)}
      BY <3>2, ClearingGrows
    <3>4. Store!ClearGet(ClearTarget(t))
      BY <1>2, <1>8, <2>2, <3>1, <3>3, SameCommands
         DEF Store!ClearGet, ClearGet, SessionsRegistered, Registered, storeVars
    <3> QED BY <3>1, <3>4 DEF Store!Next
  <2> QED BY <1>8, <2>1, <2>2 DEF ClearGet
<1>9. CASE ClearPut(t)
  <2>1. handler[t].pc \in {"putOwn", "putPartner"} /\ HandlerGo(t, AfterClear(t))
    BY <1>9 DEF ClearPut, HandlerAt
  <2>2. /\ ClearTarget(t) \in Clearing
        /\ Clearing' \in {Clearing, Clearing \ {ClearTarget(t)}}
    BY <2>1, ClearingDone
  <2>3. PutUnpaired(ClearTarget(t)) => Store!ClearPut(ClearTarget(t))
    BY <1>2, <2>2, SameCommands DEF Store!ClearPut, Registered
  <2>4. ClearTarget(t) \in Clients
    BY <2>2 DEF SessionsRegistered, Registered
  <2>5. UNCHANGED storeVars => Store!Next
    BY <1>3, <2>2
  <2> QED BY <1>9, <2>3, <2>4, <2>5 DEF Store!Next, ClearPut
<1>10. CASE StartEnd(t)
  <2>1. AfterChat(handler[t].kind) \in HandlerSteps \ {"putOwn", "putPartner"}
    BY <1>10 DEF StartEnd, IsKind, AfterChat, HandlerSteps
  <2>2. "load" \in HandlerSteps
    BY DEF HandlerSteps, Ending
  <2> QED BY <1>3, <1>4, <1>10, <2>1, <2>2 DEF StartEnd
<1>11. CASE DisconnectOwn(t) \/ DisconnectPartner(t)
  <2>1. AfterChat(handler[t].kind) \in HandlerSteps \ {"putOwn", "putPartner"}
    BY <1>6, <1>11 DEF DisconnectOwn, DisconnectPartner, HandlerAt, Ending
  <2>2. {"clearPartner", "clearAgain"} \subseteq HandlerSteps
    BY DEF HandlerSteps, Leaving
  <2> QED BY <1>3, <1>4, <1>11, <2>1, <2>2 DEF DisconnectOwn, DisconnectPartner
<1>12. CASE DisconnectLoad(t)
  <2> DEFINE h == [handler[t] EXCEPT !.pc = "clearOwn", !.partner = chatPartner[From(t)]]
  <2>1. h.pc = "clearOwn"
    BY <1>1 DEF HandlerRecord
  <2>2. handler' = [handler EXCEPT ![t] = h]
    BY <1>12 DEF DisconnectLoad, ThreadsOK
  <2> HIDE DEF h
  <2>3. Clearing' \subseteq Clearing
    BY <2>1, <2>2, ClearingShrinks
  <2> QED BY <1>3, <1>12, <2>3 DEF DisconnectLoad
<1>13. CASE NilPartner(t)
  BY <1>3, <1>13 DEF NilPartner, Clearing
<1>14. CASE \/ PeerConnected(t) \/ CheckPartner(t) \/ UsePartner(t) \/ UsePartnerAgain(t)
            \/ DeleteClient(t) \/ UnregisterClearAgain(t) \/ UnregisterTellPartner(t)
            \/ EndTellSelf(t) \/ SearchAgain(t)
  <2>1. {"check", "use", "useAgain", "load", "tellPartner", "zrem"} \subseteq HandlerSteps
    BY DEF HandlerSteps, Ending, Leaving
  <2> QED BY <1>3, <1>4, <1>5, <1>14, <2>1
       DEF PeerConnected, CheckPartner, UsePartner, UsePartnerAgain, DeleteClient,
           UnregisterClearAgain, UnregisterTellPartner, EndTellSelf, SearchAgain
<1> QED
  BY <1>7, <1>8, <1>9, <1>10, <1>11, <1>12, <1>13, <1>14 DEF HandlerStep

\* A step of the hub is a step of the store or a stutter.
LEMMA HubStepStore ==
  ASSUME SharedOK, ThreadsOK, SessionsRegistered, [Next]_hubVars
  PROVE  [Store!Next]_Store!queueVars
<1>1. ASSUME UNCHANGED <<storeVars, now>>, Registered' = Registered,
             Clearing' \subseteq Clearing
      PROVE  Store!Next
  BY <1>1, NothingToStore DEF Store!Next
<1>2. ASSUME NEW c \in Clients, Register(c) PROVE Store!Next
  <2>1. Registered' = Registered \cup {c} /\ c \notin Registered
    BY <1>2 DEF Register, Registered, SharedOK
  <2>2. Store!Save(c)
    BY <1>2, <2>1, SameCommands DEF Store!Save, Register, Registered, Clearing
  <2> QED BY <2>2 DEF Store!Next
<1>3. ASSUME NEW c \in Clients, ServeWs(c) PROVE Store!Next
  <2>1. Registered' = Registered /\ Clearing' = Clearing
    BY <1>3 DEF ServeWs, Registered, Clearing, SharedOK
  <2> QED BY <1>1, <1>3, <2>1 DEF ServeWs
<1>4. ASSUME NEW c \in Clients, Leave(c) PROVE Store!Next
  <2> DEFINE h == [pc |-> "delete", kind |-> "unregister", client |-> c, partner |-> NoOne]
  <2>1. c \in Threads /\ h.pc = "delete" /\ handler' = [handler EXCEPT ![c] = h]
    BY <1>4 DEF Leave, Threads
  <2> HIDE DEF h
  <2>2. Clearing' \subseteq Clearing
    BY <2>1, ClearingShrinks
  <2>3. Registered' = Registered
    BY <1>4 DEF Leave, Registered, SharedOK
  <2> QED BY <1>1, <1>4, <2>2, <2>3 DEF Leave
<1>5. ASSUME NEW m \in Messages, NEW c \in Senders, NEW kind \in Kinds, Send(m, c, kind)
      PROVE  Store!Next
  <2> DEFINE h == [pc |-> "start", kind |-> kind, client |-> c, partner |-> NoOne]
  <2>1. m \in Threads /\ h.pc = "start" /\ handler' = [handler EXCEPT ![m] = h]
    BY <1>5 DEF Send, Threads
  <2> HIDE DEF h
  <2>2. Clearing' \subseteq Clearing
    BY <2>1, ClearingShrinks
  <2> QED BY <1>1, <1>5, <2>2 DEF Send, Registered
<1>6. ASSUME NEW c \in Clients, SessionExpires(c) PROVE Store!Next
  <2>1. Store!Delete(c)
    BY <1>6, SameCommands DEF Store!Delete, SessionExpires, Registered, Clearing
  <2> QED BY <2>1 DEF Store!Next
<1>7. ASSUME NEW type \in {"text", "video"}, QueueExpires(type) PROVE Store!Next
  <2>1. Store!QueueExpires(type)
    BY <1>7, SameCommands DEF Store!QueueExpires, QueueExpires, Registered, Clearing
  <2> QED BY <2>1 DEF Store!Next
<1>8. ASSUME NEW t \in Threads, SearchStep(t) \/ HandlerStep(t) PROVE Store!Next
  BY <1>8, SearchStepStore, HandlerStepStore
<1>9. ASSUME Stop \/ Exit PROVE Store!Next
  BY <1>1, <1>9 DEF Stop, Exit, Registered, Clearing
<1>10. ASSUME Restart PROVE Store!Next
  <2>1. Registered' = Registered
    BY <1>10 DEF Restart, Registered, SharedOK
  <2>2. \A t \in Threads : handler'[t].pc \notin {"putOwn", "putPartner"}
    BY <1>10 DEF Restart, Handled, NoWork
  <2>3. Clearing' \subseteq Clearing
    BY <2>2 DEF Clearing
  <2> QED BY <1>1, <1>10, <2>1, <2>3 DEF Restart
<1>11. ASSUME Tick PROVE Store!Next
  <2>1. Store!Tick
    BY <1>11 DEF Store!Tick, Tick, storeVars, Registered, Clearing
  <2> QED BY <2>1 DEF Store!Next
<1>12. ASSUME UNCHANGED hubVars PROVE UNCHANGED Store!queueVars
  BY <1>12 DEF hubVars, Store!queueVars, Registered, Clearing
<1> QED
  BY <1>2, <1>3, <1>4, <1>5, <1>6, <1>7, <1>8, <1>9, <1>10, <1>11, <1>12 DEF Next

\* Sessions are only ever those of clients that registered.
LEMMA HubSessionsRegistered == Spec => []SessionsRegistered
<1>1. Init => SessionsRegistered
  BY DEF Init, StoreInit, SessionsRegistered, Registered, HasSession, Clearing, NoWork
<1>2. HubTypeOK /\ SessionsRegistered /\ [Next]_hubVars => SessionsRegistered'
  <2> SUFFICES ASSUME SharedOK, ThreadsOK, SessionsRegistered, [Next]_hubVars
               PROVE  SessionsRegistered'
    BY TypeParts
  <2>1. [Store!Next]_Store!queueVars
    BY HubStepStore
  <2> QED BY <2>1, RegisteredKept DEF SharedOK
<1> QED BY <1>1, <1>2, HubTypeCorrect, PTL DEF Spec

\* The hub implements MatchQueue: from any number of goroutines, with failing
\* calls, lost clears and restarts, it uses Redis only as the store allows.
THEOREM HubImplementsMatchQueue == Spec => ImplementsMatchQueue
<1>1. Init => Store!Init
  BY SameCommands DEF Init, Store!Init, Clearing, NoWork
<1>2. HubTypeOK /\ SessionsRegistered /\ [Next]_hubVars => [Store!Next]_Store!queueVars
  BY TypeParts, HubStepStore
<1> QED
  BY <1>1, <1>2, HubTypeCorrect, HubSessionsRegistered, PTL
     DEF Spec, ImplementsMatchQueue, Store!Spec

---------------------------------------------------------------------------
(* What MatchQueue promises holds of the hub's store.                      *)

\* Two clients that may chat never both wait in Redis, whatever the hub's
\* goroutines are doing, across failures and restarts.
THEOREM HubMissesNoMatch == Spec => []Store!NoMissedMatch
<1>1. HubTypeOK /\ NobodyMissed /\ [Store!Next]_Store!queueVars => NobodyMissed'
  <2> SUFFICES ASSUME StoreTypeOK, now \in Nat, NobodyMissed, [Store!Next]_Store!queueVars
               PROVE  NobodyMissed'
    BY DEF HubTypeOK
  <2> USE SameCommands, SameMatch
  <2>1. UNCHANGED queue => NobodyMissed'
    BY DEF NobodyMissed
  <2>2. ASSUME NEW c \in Clients,
               \/ Store!Save(c) \/ Store!ClearPut(c) \/ Store!Remove(c) \/ Store!Delete(c)
        PROVE  NobodyMissed'
    BY <2>2, NobodyMissedPreserved DEF Store!Save, Store!ClearPut, Store!Remove, Store!Delete
  <2>3. ASSUME NEW c \in Clients, Store!MatchStep(c) PROVE NobodyMissed'
    <3>1. PICK score \in Nat : Match(c, score)
      BY <2>3 DEF Store!MatchStep
    <3> QED BY <3>1, NobodyMissedPreserved
  <2>4. ASSUME NEW type \in {"text", "video"}, Store!QueueExpires(type) PROVE NobodyMissed'
    BY <2>4, QueueDropped DEF Store!QueueExpires
  <2>5. ASSUME \/ \E c \in Clients : Store!ClearGet(c)
               \/ Store!ClearLost \/ Store!Tick \/ UNCHANGED Store!queueVars
        PROVE  NobodyMissed'
    BY <2>1, <2>5 DEF Store!ClearGet, Store!ClearLost, Store!Tick, Store!queueVars
  <2> QED BY <2>2, <2>3, <2>4, <2>5 DEF Store!Next
<1>2. Store!Init => NobodyMissed
  BY SameCommands DEF Store!Init, StoreInit, NobodyMissed
<1>3. NobodyMissed => Store!NoMissedMatch
  BY DEF NobodyMissed, Store!NoMissedMatch, Compatible, Eligible, HasCommon, FallbackPair,
         Store!Compatible, Store!Eligible, Store!HasCommon, Store!FallbackPair
<1> QED
  BY <1>1, <1>2, <1>3, HubTypeCorrect, HubImplementsMatchQueue, PTL
     DEF ImplementsMatchQueue, Store!Spec

---------------------------------------------------------------------------
(* The searches of the hub hear of matches as Mailbox promises.            *)

BoxOf(t) == IF Waiting(t) THEN search[t].pc ELSE "off"

OwnerOf(t) == IF Waiting(t) THEN Me(t) ELSE NoOne

\* A goroutine that does not touch the notifications leaves the mailboxes.
LEMMA MailboxKept ==
  ASSUME ThreadsOK, NEW t \in Threads, NEW s,
         search' = [search EXCEPT ![t] = s],
         ~Waiting(t), s.inbox = search[t].inbox,
         s.pc \notin {"subscribe", "wait", "spin"}
  PROVE  UNCHANGED Box!boxVars
<1>1. ASSUME NEW u \in Threads
      PROVE  /\ BoxOf(u)' = BoxOf(u) /\ OwnerOf(u)' = OwnerOf(u)
             /\ search'[u].inbox = search[u].inbox
  BY DEF ThreadsOK, BoxOf, OwnerOf, Waiting, Me
<1> QED BY <1>1 DEF Box!boxVars, BoxOf, OwnerOf

\* A goroutine that ends, or a new search, has given its mailbox up.
LEMMA MailboxGivenUp ==
  ASSUME ThreadsOK, NEW t \in Threads, NEW s,
         search' = [search EXCEPT ![t] = s],
         s.inbox = Absent, s.pc \notin {"subscribe", "wait", "spin"}
  PROVE  Box!Next
<1>1. ASSUME NEW u \in Threads
      PROVE  /\ BoxOf(u)' = (IF u \in {t} THEN "off" ELSE BoxOf(u))
             /\ OwnerOf(u)' = (IF u \in {t} THEN NoOne ELSE OwnerOf(u))
             /\ search'[u].inbox = (IF u \in {t} THEN Absent ELSE search[u].inbox)
  BY DEF ThreadsOK, BoxOf, OwnerOf, Waiting, Me
<1>2. Box!GiveUp({t})
  BY <1>1 DEF Box!GiveUp, BoxOf, OwnerOf
<1> QED BY <1>2 DEF Box!Next

\* The searches' own steps.
LEMMA SearchMailbox ==
  ASSUME ThreadsOK, NEW t \in Threads, SearchStep(t)
  PROVE  [Box!Next]_Box!boxVars
<1>1. Searched.inbox = Absent /\ Searched.pc = "done"
  BY DEF Searched, NoSearch
<1>2. ASSUME SearchEnds(t) PROVE Box!Next
  BY <1>1, <1>2, MailboxGivenUp DEF SearchEnds
<1>3. ASSUME NEW pc \in Partnered, SearchGo(t, pc), ~Waiting(t)
      PROVE  UNCHANGED Box!boxVars
  <2> DEFINE s == [search[t] EXCEPT !.pc = pc]
  <2>1. search' = [search EXCEPT ![t] = s]
    BY <1>3 DEF SearchGo, ThreadsOK
  <2>2. s.inbox = search[t].inbox /\ s.pc \notin {"subscribe", "wait", "spin"}
    BY <1>3 DEF ThreadsOK, SearchRecord, Partnered
  <2> QED BY <1>3, <2>1, <2>2, MailboxKept
<1>4. CASE GetSession(t)
  <2>1. CASE search' = [search EXCEPT ![t].pc = "match", ![t].score = now]
    <3> DEFINE s == [search[t] EXCEPT !.pc = "match", !.score = now]
    <3>1. search' = [search EXCEPT ![t] = s]
      BY <2>1 DEF ThreadsOK
    <3>2. s.inbox = search[t].inbox /\ s.pc = "match" /\ ~Waiting(t)
      BY <1>4 DEF GetSession, SearchAt, Waiting, ThreadsOK, SearchRecord
    <3> HIDE DEF s
    <3> QED BY <3>1, <3>2, MailboxKept
  <2> QED BY <1>2, <1>4, <2>1 DEF GetSession
<1>5. CASE RunMatchFound(t)
  <2> DEFINE s == [search[t] EXCEPT !.pc = "partner", !.score = 0,
                                    !.partner = MatchPartner(Me(t))]
  <2>1. search' = [search EXCEPT ![t] = s]
    BY <1>5 DEF RunMatchFound, ThreadsOK
  <2>2. s.inbox = search[t].inbox /\ s.pc = "partner" /\ ~Waiting(t)
    BY <1>5 DEF RunMatchFound, SearchAt, Waiting, ThreadsOK, SearchRecord
  <2> HIDE DEF s
  <2> QED BY <2>1, <2>2, MailboxKept
<1>6. CASE RunMatchWait(t)
  <2>1. search[t].pc = "match" /\ Me(t) \in Clients
    BY <1>6 DEF RunMatchWait, SearchAt, Me, ThreadsOK, SearchOK
  <2>2. search' = [search EXCEPT ![t] = [search[t] EXCEPT !.pc = "subscribe", !.score = 0]]
    BY <1>6 DEF RunMatchWait, ThreadsOK
  <2>3. ASSUME NEW u \in Threads
        PROVE  /\ BoxOf(u)' = (IF u = t THEN "subscribe" ELSE BoxOf(u))
               /\ OwnerOf(u)' = (IF u = t THEN Me(t) ELSE OwnerOf(u))
               /\ search'[u].inbox = search[u].inbox
    BY <2>2 DEF ThreadsOK, SearchRecord, BoxOf, OwnerOf, Waiting, Me
  <2>4. BoxOf(t) = "off"
    BY <2>1 DEF BoxOf, Waiting
  <2>5. PICK c \in Clients : c = Me(t)
    BY <2>1
  <2>6. Box!Ask(t, c)
    BY <2>3, <2>4, <2>5 DEF Box!Ask, BoxOf, OwnerOf
  <2> QED BY <2>6 DEF Box!Next
<1>7. CASE ShowMatchFailed(t) \/ ShowConnectingPartner(t) \/ Timeout(t) \/ StopWaiting(t)
  BY <1>2, <1>7 DEF ShowMatchFailed, ShowConnectingPartner, Timeout, StopWaiting
<1>13. CASE RunMatchFails(t)
  <2> DEFINE s == [search[t] EXCEPT !.pc = "matchFailed", !.score = 0]
  <2>1. search' = [search EXCEPT ![t] = s]
    BY <1>13 DEF RunMatchFails, ThreadsOK
  <2>2. s.inbox = search[t].inbox /\ s.pc = "matchFailed" /\ ~Waiting(t)
    BY <1>13 DEF RunMatchFails, SearchAt, Waiting, ThreadsOK, SearchRecord
  <2> HIDE DEF s
  <2> QED BY <2>1, <2>2, MailboxKept
<1>8. CASE GetPartnerSession(t)
  <2>1. CASE search' = [search EXCEPT ![t].pc = "lookup", ![t].told = session[Partner(t)]]
    <3> DEFINE s == [search[t] EXCEPT !.pc = "lookup", !.told = session[Partner(t)]]
    <3>1. search' = [search EXCEPT ![t] = s]
      BY <2>1 DEF ThreadsOK
    <3>2. s.inbox = search[t].inbox /\ s.pc = "lookup" /\ ~Waiting(t)
      BY <1>8 DEF GetPartnerSession, SearchAt, Waiting, ThreadsOK, SearchRecord
    <3> HIDE DEF s
    <3> QED BY <3>1, <3>2, MailboxKept
  <2> QED BY <1>2, <1>8, <2>1 DEF GetPartnerSession
<1>9. CASE \/ LookupPartner(t) \/ ConnectCheckSelf(t) \/ ConnectCheckPartner(t)
           \/ ConnectSetSelf(t) \/ ConnectSetPartner(t)
           \/ ShowInnerSelf(t) \/ ShowInnerPartner(t) \/ ShowConnectingSelf(t)
           \/ CheckNotified(t)
  <2>1. ~Waiting(t)
    BY <1>9 DEF LookupPartner, ConnectCheckSelf, ConnectCheckPartner, ConnectSetSelf,
                ConnectSetPartner, ShowInnerSelf, ShowInnerPartner, ShowInner,
                ShowConnectingSelf, CheckNotified, SearchAt, Waiting
  <2>2. SearchEnds(t) \/ \E pc \in Partnered : SearchGo(t, pc)
    BY <1>9 DEF LookupPartner, ConnectCheckSelf, ConnectCheckPartner, ConnectSetSelf,
                ConnectSetPartner, ShowInnerSelf, ShowInnerPartner, ShowInner,
                ShowConnectingSelf, CheckNotified, Partnered
  <2> QED BY <1>2, <1>3, <2>1, <2>2
<1>10. CASE Notify(t) \/ NotifyFails(t)
  <2>1. /\ search[t].pc = "notify" /\ Partner(t) \in Clients /\ search[t].inbox = Absent
        /\ search[t].told \in Clients \cup {NoOne}
    BY <1>10 DEF Notify, NotifyFails, SearchAt, Partner, ThreadsOK, SearchOK, SearchRecord,
                 Partnered
  <2>2. PICK own \in {[search[t] EXCEPT !.pc = "checkSelf", !.told = NoOne], Searched},
             reached \in SUBSET Subscribers(Partner(t)) :
          /\ ~MayFail => reached = Subscribers(Partner(t))
          /\ search' = [u \in Threads |->
                          IF u = t THEN own
                          ELSE IF u \in reached THEN [search[u] EXCEPT !.inbox = search[t].told]
                          ELSE search[u]]
    BY <1>10 DEF Notify, NotifyFails, Publish
  <2>3. /\ t \notin reached
        /\ own.pc \notin {"subscribe", "wait", "spin"} /\ own.inbox = Absent
    BY <2>1, <2>2 DEF Subscribers, ThreadsOK, SearchRecord, Searched, NoSearch
  <2>4. ASSUME NEW u \in Threads
        PROVE  /\ BoxOf(u)' = BoxOf(u) /\ OwnerOf(u)' = OwnerOf(u)
               /\ search'[u].inbox = (IF u \in reached THEN search[t].told ELSE search[u].inbox)
    <3> HIDE DEF Searched
    <3>1. CASE u = t
      BY <2>1, <2>2, <2>3, <3>1 DEF BoxOf, OwnerOf, Waiting
    <3>2. CASE u # t
      BY <2>2, <3>2 DEF ThreadsOK, SearchRecord, BoxOf, OwnerOf, Waiting, Me
    <3> QED BY <3>1, <3>2
  <2>5. PICK c \in Clients, note \in Clients \cup {NoOne} :
          c = Partner(t) /\ note = search[t].told
    BY <2>1
  <2>6. Box!Listening(c) = Subscribers(Partner(t))
    BY <2>5 DEF Box!Listening, Subscribers, Waiting, Me
  <2>7. Box!Publish(c, note)
    BY <2>2, <2>4, <2>5, <2>6 DEF Box!Publish, BoxOf, OwnerOf
  <2> QED BY <2>7 DEF Box!Next
<1>11. CASE Subscribe(t)
  <2>1. search[t].pc = "subscribe" /\ search' = [search EXCEPT ![t].pc = "wait"]
    BY <1>11 DEF Subscribe, SearchAt, SearchGo
  <2>2. ASSUME NEW u \in Threads
        PROVE  /\ BoxOf(u)' = (IF u = t THEN "wait" ELSE BoxOf(u))
               /\ OwnerOf(u)' = OwnerOf(u) /\ search'[u].inbox = search[u].inbox
    BY <2>1 DEF ThreadsOK, SearchRecord, BoxOf, OwnerOf, Waiting, Me
  <2>3. Box!Open(t)
    BY <2>1, <2>2 DEF Box!Open, BoxOf, OwnerOf, Waiting
  <2> QED BY <2>3 DEF Box!Next
<1>12. CASE ReceiveNotify(t)
  <2>1. search[t].pc = "wait" /\ search[t].inbox # Absent
    BY <1>12, RulesAssumption DEF ReceiveNotify, SearchAt
  <2>2. ASSUME NEW u \in Threads
        PROVE  /\ BoxOf(u)' = (IF u # t THEN BoxOf(u)
                               ELSE IF search[t].inbox = NoOne THEN "spin" ELSE "off")
               /\ OwnerOf(u)' = (IF u = t /\ search[t].inbox # NoOne THEN NoOne
                                 ELSE OwnerOf(u))
               /\ search'[u].inbox = (IF u = t THEN Absent ELSE search[u].inbox)
    BY <1>12, <2>1, RulesAssumption
       DEF ReceiveNotify, ThreadsOK, SearchRecord, BoxOf, OwnerOf, Waiting, Me
  <2>3. Box!Take(t)
    BY <2>1, <2>2 DEF Box!Take, BoxOf, OwnerOf
  <2> QED BY <2>3 DEF Box!Next
<1> QED
  BY <1>4, <1>5, <1>6, <1>7, <1>8, <1>9, <1>10, <1>11, <1>12, <1>13 DEF SearchStep

\* Every other step of the hub leaves the mailboxes or gives some up.
LEMMA HubMailbox ==
  ASSUME ThreadsOK, [Next]_hubVars
  PROVE  [Box!Next]_Box!boxVars
<1>1. ASSUME UNCHANGED search PROVE UNCHANGED Box!boxVars
  BY <1>1 DEF Box!boxVars, Waiting, Me
<1>2. ASSUME NEW t \in Threads, NEW c, search' = [search EXCEPT ![t] = NewSearch(c)]
      PROVE  Box!Next
  <2>1. NewSearch(c).inbox = Absent /\ NewSearch(c).pc = "get"
    BY DEF NewSearch, NoSearch
  <2> QED BY <1>2, <2>1, MailboxGivenUp
<1>3. ASSUME NEW c \in Clients, Register(c) \/ ServeWs(c) \/ Leave(c) \/ SessionExpires(c)
      PROVE  [Box!Next]_Box!boxVars
  BY <1>1, <1>2, <1>3 DEF Register, ServeWs, Leave, SessionExpires, Threads
<1>4. ASSUME NEW t \in Threads, HandlerStep(t) PROVE [Box!Next]_Box!boxVars
  <2>1. CASE SearchAgain(t)
    BY <1>2, <2>1 DEF SearchAgain
  <2>2. CASE ~SearchAgain(t)
    <3>1. UNCHANGED search
      BY <1>4, <2>2
         DEF HandlerStep, PeerConnected, CheckPartner, UsePartner, UsePartnerAgain, NilPartner,
             StartEnd, DeleteClient, DisconnectLoad, DisconnectOwn, DisconnectPartner,
             UnregisterClearAgain, UnregisterTellPartner, UnregisterRemove,
             UnregisterDelete, EndTellSelf, ClearGet, ClearPut
    <3> QED BY <1>1, <3>1
  <2> QED BY <2>1, <2>2
<1>5. ASSUME \/ \E m \in Messages, c \in Senders, kind \in Kinds : Send(m, c, kind)
             \/ \E type \in {"text", "video"} : QueueExpires(type)
             \/ Stop \/ Exit \/ Tick \/ UNCHANGED hubVars
      PROVE  [Box!Next]_Box!boxVars
  BY <1>1, <1>5 DEF Send, QueueExpires, Stop, Exit, Tick, hubVars
<1>6. ASSUME Restart PROVE Box!Next
  <2>0. PICK gone \in SUBSET Threads : gone = {t \in Threads : search[t].pc # "off"}
    OBVIOUS
  <2>1. Searched.inbox = Absent /\ Searched.pc = "done"
    BY DEF Searched, NoSearch
  <2>2. ASSUME NEW u \in Threads
        PROVE  /\ BoxOf(u)' = (IF u \in gone THEN "off" ELSE BoxOf(u))
               /\ OwnerOf(u)' = (IF u \in gone THEN NoOne ELSE OwnerOf(u))
               /\ search'[u].inbox = (IF u \in gone THEN Absent ELSE search[u].inbox)
    BY <1>6, <2>0, <2>1 DEF Restart, BoxOf, OwnerOf, Waiting, Me
  <2>3. Box!GiveUp(gone)
    BY <2>2 DEF Box!GiveUp, BoxOf, OwnerOf
  <2> QED BY <2>3 DEF Box!Next
<1> QED
  BY <1>3, <1>4, <1>5, <1>6, SearchMailbox DEF Next

\* The hub's searches implement the mailbox: each hears of at most one match,
\* published for its own client while it was subscribed, and of nothing after
\* a notification without a room, with every failure, stop and restart.
THEOREM HubImplementsMailbox == Spec => ImplementsMailbox
<1>1. Init => Box!Init
  BY DEF Init, Box!Init, NoSearch, Waiting
<1>2. HubTypeOK /\ [Next]_hubVars => [Box!Next]_Box!boxVars
  BY TypeParts, HubMailbox
<1> QED
  BY <1>1, <1>2, HubTypeCorrect, PTL DEF Spec, ImplementsMailbox, Box!Spec

=============================================================================
