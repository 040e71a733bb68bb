------------------------- MODULE HubFirstChatsProofs -------------------------
(* First chats, that is while no message has been handled and nobody has    *)
(* left: they are not taken over, whatever fails or is restarted, and when  *)
(* nothing fails or stops they come about.                                  *)
EXTENDS HubRefinementProofs

\* The client has had its one run of the match script, or gave up before.
HasRun(c) == search[c].pc \notin {"off", "get", "match"}

(***************************************************************************)
(* What everybody knows of a partner is about one pairing of the clients.   *)
(* Sessions may be gone and chats not have come about yet, but a session, a *)
(* ChatPartner, a running search and a notification never disagree.  Who    *)
(* has a mate has searched, and neither waits in Redis nor searches again.  *)
(***************************************************************************)
Only(mate) == [c \in Clients |-> {mate[c]}]

OneSearchEach ==
  /\ \A m \in Messages : search[m].pc = "off"
  /\ \A c \in Clients :
       /\ search[c].pc \in {"off", "done"} \/ Me(c) = c
       /\ life[c] \in {"new", "registered"} => search[c].pc = "off"

Mates(mate) ==
  /\ mate \in [Clients -> Clients \cup {NoOne}]
  /\ \A c \in Clients :
       /\ mate[c] # NoOne => mate[mate[c]] = c /\ queue[c] = Absent /\ HasRun(c)
       /\ queue[c] # Absent => HasRun(c)
       /\ session[c] \in Clients => mate[c] = session[c]
       /\ chatPartner[c] # NoOne => mate[c] = chatPartner[c]
  /\ \A t \in Threads : KnowsOnly(Only(mate), search[t])

FirstMates ==
  NobodyAsks => OneSearchEach /\ \E mate \in [Clients -> Clients \cup {NoOne}] : Mates(mate)

---------------------------------------------------------------------------
(* While nobody asks for anything.                                         *)

\* A handler that has been started is never again one that has not: until
\* then only searches, clocks and the process itself have moved.
LEMMA NobodyAsked ==
  ASSUME ThreadsOK, [Next]_hubVars, NobodyAsks'
  PROVE  /\ NobodyAsks
         /\ \/ \E c \in Clients : Register(c) \/ ServeWs(c) \/ SessionExpires(c)
            \/ \E t \in Threads : SearchStep(t)
            \/ \E type \in {"text", "video"} : QueueExpires(type)
            \/ Stop \/ Exit \/ Restart \/ Tick \/ UNCHANGED hubVars
<1>1. ASSUME NEW t \in Threads, HandlerStep(t) PROVE FALSE
  <2>1. HandlerOK(handler[t]) /\ handler[t] \in HandlerRecord
    BY DEF ThreadsOK
  <2>2. ASSUME NEW pc \in HandlerSteps \ {"off"}, HandlerGo(t, pc) PROVE FALSE
    BY <2>1, <2>2 DEF NobodyAsks, HandlerGo, ThreadsOK, HandlerRecord
  <2>3. ~HandlerEnds(t)
    BY DEF NobodyAsks, HandlerEnds, Handled, NoWork, ThreadsOK
  <2>4. ASSUME NEW kind \in {"new_connection", "end_connection", "unregister"}
        PROVE  AfterChat(kind) \in HandlerSteps \ {"off"}
    BY DEF AfterChat, HandlerSteps
  <2>5. CASE StartEnd(t) \/ DisconnectOwn(t) \/ DisconnectPartner(t)
    <3>1. handler[t].kind \in {"new_connection", "end_connection", "unregister"}
      BY <2>1, <2>5 DEF StartEnd, IsKind, DisconnectOwn, DisconnectPartner, HandlerAt,
                        HandlerOK, Ending
    <3>2. {"load", "clearPartner", "clearAgain"} \subseteq HandlerSteps \ {"off"}
      BY DEF HandlerSteps, Ending, Leaving
    <3> QED BY <2>2, <2>4, <2>5, <3>1, <3>2 DEF StartEnd, DisconnectOwn, DisconnectPartner
  <2>6. CASE DisconnectLoad(t)
    BY <2>1, <2>6 DEF DisconnectLoad, NobodyAsks, ThreadsOK, HandlerRecord
  <2>7. CASE NilPartner(t)
    BY <2>7 DEF NilPartner, HandlerAt, NobodyAsks
  <2>8. CASE ClearGet(t) \/ ClearPut(t)
    <3>1. AfterClear(t) \in HandlerSteps \ {"off"}
          /\ {"putOwn", "putPartner"} \subseteq HandlerSteps \ {"off"}
      BY DEF AfterClear, HandlerSteps, Leaving
    <3> QED BY <2>2, <2>8, <3>1 DEF ClearGet, ClearPut
  <2>9. {"check", "use", "useAgain", "load", "clearOwn", "tellPartner", "zrem", "del"}
          \subseteq HandlerSteps \ {"off"}
    BY DEF HandlerSteps, Ending, Leaving
  <2> QED
    BY <1>1, <2>2, <2>3, <2>5, <2>6, <2>7, <2>8, <2>9
       DEF HandlerStep, PeerConnected, CheckPartner, UsePartner, UsePartnerAgain,
           DeleteClient, UnregisterClearAgain, UnregisterTellPartner, UnregisterRemove,
           UnregisterDelete, EndTellSelf, SearchAgain
<1>2. ASSUME NEW c \in Clients, Leave(c) PROVE FALSE
  BY <1>2 DEF Leave, NobodyAsks, ThreadsOK, Threads
<1>3. ASSUME NEW m \in Messages, NEW c \in Senders, NEW kind \in Kinds, Send(m, c, kind)
      PROVE  FALSE
  BY <1>3 DEF Send, NobodyAsks, ThreadsOK, Threads
<1>4. ASSUME UNCHANGED handler PROVE NobodyAsks
  BY <1>4 DEF NobodyAsks
<1>5. ASSUME Restart PROVE NobodyAsks
  BY <1>5 DEF Restart, Handled, NoWork, NobodyAsks
<1>6. ASSUME NEW t \in Threads, SearchStep(t) PROVE UNCHANGED handler
  BY <1>6
     DEF SearchStep, GetSession, RunMatchFound, RunMatchWait, RunMatchFails, ShowMatchFailed,
         GetPartnerSession, LookupPartner, Notify, NotifyFails, ConnectCheckSelf,
         ConnectCheckPartner, ConnectSetSelf, ConnectSetPartner, ShowInnerSelf,
         ShowInnerPartner, ShowInner, ShowConnectingSelf, ShowConnectingPartner, Subscribe,
         ReceiveNotify, CheckNotified, Timeout, StopWaiting
<1> QED
  BY <1>1, <1>2, <1>3, <1>4, <1>5, <1>6
     DEF Next, Register, ServeWs, SessionExpires, QueueExpires, Stop, Exit, Tick, hubVars

\* A search goes forward: it runs the script once, and stays its client's.
LEMMA SearchMoves ==
  ASSUME ThreadsOK, NEW t \in Threads, SearchStep(t)
  PROVE  /\ search[t].pc \notin {"off", "done"}
         /\ search'[t].pc \notin {"off", "get"}
         /\ search'[t].pc = "match" => search[t].pc = "get"
         /\ search'[t].pc = "done" \/ search'[t].client = search[t].client
         /\ \A u \in Threads \ {t} :
              search'[u].pc = search[u].pc /\ search'[u].client = search[u].client
<1> DEFINE Moves ==
      /\ search'[t].pc \notin {"off", "get"}
      /\ search'[t].pc = "match" => search[t].pc = "get"
      /\ search'[t].pc = "done" \/ search'[t].client = search[t].client
      /\ \A u \in Threads \ {t} :
           search'[u].pc = search[u].pc /\ search'[u].client = search[u].client
<1>0. search[t].pc \notin {"off", "done"}
  BY DEF SearchStep, GetSession, RunMatchFound, RunMatchWait, RunMatchFails, ShowMatchFailed,
         GetPartnerSession, LookupPartner, Notify, NotifyFails, ConnectCheckSelf,
         ConnectCheckPartner, ConnectSetSelf, ConnectSetPartner, ShowInnerSelf,
         ShowInnerPartner, ShowInner, ShowConnectingSelf, ShowConnectingPartner, Subscribe,
         ReceiveNotify, CheckNotified, Timeout, StopWaiting, SearchAt, Waiting
<1> SUFFICES Moves
  BY <1>0
<1>1. search[t] \in SearchRecord
  BY DEF ThreadsOK
<1>2. ASSUME NEW pc, pc \notin {"off", "get", "match"}, SearchGo(t, pc) PROVE Moves
  BY <1>1, <1>2 DEF SearchGo, ThreadsOK, SearchRecord
<1>3. SearchEnds(t) => Moves
  BY DEF SearchEnds, Searched, NoSearch, ThreadsOK
<1>4. CASE GetSession(t)
  BY <1>1, <1>3, <1>4 DEF GetSession, SearchAt, ThreadsOK, SearchRecord
<1>5. CASE RunMatchFound(t)
  BY <1>1, <1>5 DEF RunMatchFound, SearchAt, ThreadsOK, SearchRecord
<1>6. CASE RunMatchWait(t) \/ RunMatchFails(t)
  BY <1>1, <1>6 DEF RunMatchWait, RunMatchFails, SearchAt, ThreadsOK, SearchRecord
<1>7. CASE GetPartnerSession(t)
  BY <1>1, <1>3, <1>7 DEF GetPartnerSession, SearchAt, ThreadsOK, SearchRecord
<1>8. CASE Notify(t) \/ NotifyFails(t)
  <2>1. PICK own \in {[search[t] EXCEPT !.pc = "checkSelf", !.told = NoOne], Searched},
             reached \in SUBSET Threads :
          search' = [u \in Threads |->
                       IF u = t THEN own
                       ELSE IF u \in reached THEN [search[u] EXCEPT !.inbox = search[t].told]
                       ELSE search[u]]
    BY <1>8 DEF Notify, NotifyFails, Publish, Subscribers
  <2>2. \/ search'[t].pc = "checkSelf" /\ search'[t].client = search[t].client
        \/ search'[t].pc = "done"
    BY <1>1, <2>1 DEF SearchRecord, Searched, NoSearch
  <2>3. ASSUME NEW u \in Threads \ {t}
        PROVE  search'[u].pc = search[u].pc /\ search'[u].client = search[u].client
    BY <2>1 DEF ThreadsOK, SearchRecord
  <2> QED BY <2>2, <2>3
<1>9. CASE ReceiveNotify(t)
  BY <1>1, <1>9 DEF ReceiveNotify, SearchAt, ThreadsOK, SearchRecord
<1> HIDE DEF Moves
<1>10. CASE \/ LookupPartner(t) \/ ConnectCheckSelf(t) \/ ConnectCheckPartner(t)
            \/ ConnectSetSelf(t) \/ ConnectSetPartner(t) \/ ShowInnerSelf(t)
            \/ ShowInnerPartner(t) \/ ShowConnectingSelf(t) \/ Subscribe(t)
            \/ CheckNotified(t)
  BY <1>2, <1>3, <1>10
     DEF LookupPartner, ConnectCheckSelf, ConnectCheckPartner, ConnectSetSelf,
         ConnectSetPartner, ShowInnerSelf, ShowInnerPartner, ShowInner,
         ShowConnectingSelf, Subscribe, CheckNotified
<1>11. CASE ShowMatchFailed(t) \/ ShowConnectingPartner(t) \/ Timeout(t) \/ StopWaiting(t)
  BY <1>3, <1>11 DEF ShowMatchFailed, ShowConnectingPartner, Timeout, StopWaiting
<1> QED
  BY <1>4, <1>5, <1>6, <1>7, <1>8, <1>9, <1>10, <1>11 DEF SearchStep

\* So every client has one search, its own, and none before it is online.
LEMMA OneSearchKept ==
  ASSUME SharedOK, ThreadsOK, OneSearchEach, NEW t \in Threads, SearchStep(t)
  PROVE  /\ t \in Clients /\ Me(t) = t
         /\ OneSearchEach'
         /\ \A c \in Clients : HasRun(c) => HasRun(c)'
<1>1. t \in Clients /\ Me(t) = t
  BY SearchMoves DEF OneSearchEach, NoSearch, Threads
<1>2. /\ search[t].pc \notin {"off", "done"}
      /\ search'[t].pc \notin {"off", "get"}
      /\ search'[t].pc = "match" => search[t].pc = "get"
      /\ search'[t].pc = "done" \/ search'[t].client = t
      /\ \A u \in Threads \ {t} :
           search'[u].pc = search[u].pc /\ search'[u].client = search[u].client
  BY <1>1, SearchMoves DEF Me
<1>3. UNCHANGED life
  BY DEF SearchStep, GetSession, RunMatchFound, RunMatchWait, RunMatchFails, ShowMatchFailed,
         GetPartnerSession, LookupPartner, Notify, NotifyFails, ConnectCheckSelf,
         ConnectCheckPartner, ConnectSetSelf, ConnectSetPartner, ShowInnerSelf,
         ShowInnerPartner, ShowInner, ShowConnectingSelf, ShowConnectingPartner, Subscribe,
         ReceiveNotify, CheckNotified, Timeout, StopWaiting
<1>4. \A m \in Messages : search'[m].pc = "off"
  BY <1>1, <1>2, HubAssumption DEF OneSearchEach, Threads
<1>5. ASSUME NEW c \in Clients
      PROVE  /\ search'[c].pc \in {"off", "done"} \/ search'[c].client = c
             /\ life'[c] \in {"new", "registered"} => search'[c].pc = "off"
             /\ HasRun(c) => HasRun(c)'
  <2>1. CASE c = t
    BY <1>2, <1>3, <2>1 DEF OneSearchEach, HasRun
  <2>2. CASE c # t
    BY <1>2, <1>3, <2>2 DEF OneSearchEach, HasRun, Threads, Me
  <2> QED BY <2>1, <2>2
<1> QED BY <1>1, <1>4, <1>5 DEF OneSearchEach, Me

\* Two clients that the match script pairs.
Paired(mate, a, b) == [mate EXCEPT ![a] = b, ![b] = a]

\* The script has found a partner, whether its caller hears of it or not.
Finds(t) == SearchAt(t, "match") /\ MatchFound(Me(t))

\* Only the script writes a partner into a session.
LEMMA SessionKept ==
  ASSUME NEW t \in Threads, SearchStep(t), ~Finds(t)
  PROVE  UNCHANGED session /\ ~RunMatchFound(t)
BY DEF Finds, SearchStep, GetSession, RunMatchFound, RunMatchWait, RunMatchFails, ShowMatchFailed, Match,
       MatchNoSession, MatchEnqueue, GetPartnerSession, LookupPartner, Notify, NotifyFails,
       ConnectCheckSelf, ConnectCheckPartner, ConnectSetSelf, ConnectSetPartner,
       ShowInnerSelf, ShowInnerPartner, ShowInner, ShowConnectingSelf,
       ShowConnectingPartner, Subscribe, ReceiveNotify, CheckNotified, Timeout, StopWaiting,
       storeVars

\* Both are free when it pairs them: the one that searches has not run the
\* script before, the other waits in the queue.
LEMMA PairedAreFree ==
  ASSUME SharedOK, ThreadsOK, OneSearchEach, NEW mate, Mates(mate), NEW t \in Threads, Finds(t)
  PROVE  /\ t \in Clients /\ Me(t) = t
         /\ MatchPartner(t) \in Clients \ {t}
         /\ mate[t] = NoOne /\ mate[MatchPartner(t)] = NoOne
         /\ queue[t] = Absent /\ HasRun(MatchPartner(t))
<1>1. t \in Clients /\ Me(t) = t /\ ~HasRun(t)
  BY DEF Finds, SearchAt, OneSearchEach, Threads, HasRun
<1>2. /\ MatchPartner(t) \in Clients \ {t} /\ queue[MatchPartner(t)] # Absent
  BY <1>1, PartnerIsCompatible DEF SharedOK, Finds, MatchFound, LiveCandidates, Queued
<1> QED BY <1>1, <1>2 DEF Mates

\* A ChatPartner is only ever set to the mate.
LEMMA ChatsKept ==
  ASSUME SharedOK, ThreadsOK, OneSearchEach, NEW mate, Mates(mate), NEW t \in Threads,
         SearchStep(t)
  PROVE  \A c \in Clients :
           chatPartner'[c] # NoOne => mate[c] = chatPartner'[c]
<1>1. SearchOK(search[t]) /\ KnowsOnly(Only(mate), search[t])
  BY DEF ThreadsOK, Mates
<1>2. CASE ConnectSetSelf(t) \/ ConnectSetPartner(t)
  <2>1. Me(t) \in Clients /\ Partner(t) \in Clients /\ mate[Me(t)] = Partner(t)
    BY <1>1, <1>2 DEF ConnectSetSelf, ConnectSetPartner, SearchAt, SearchOK, Partnered,
                      KnowsOnly, Only, Me, Partner
  <2>2. mate[Partner(t)] = Me(t)
    BY <2>1, RulesAssumption DEF Mates
  <2> QED BY <1>2, <2>1, <2>2 DEF ConnectSetSelf, ConnectSetPartner, SharedOK, Mates
<1>3. CASE UNCHANGED chatPartner
  BY <1>3 DEF Mates
<1> QED
  BY <1>2, <1>3
     DEF SearchStep, GetSession, RunMatchFound, RunMatchWait, RunMatchFails, ShowMatchFailed,
         GetPartnerSession, LookupPartner, Notify, NotifyFails, ConnectCheckSelf,
         ConnectCheckPartner, ShowInnerSelf, ShowInnerPartner, ShowInner,
         ShowConnectingSelf, ShowConnectingPartner, Subscribe, ReceiveNotify, CheckNotified,
         Timeout, StopWaiting, memory

\* Who enters the queue has just run the script.
LEMMA QueueGrows ==
  ASSUME SharedOK, ThreadsOK, OneSearchEach, NEW t \in Threads, SearchStep(t)
  PROVE  \A c \in Clients :
           queue'[c] # Absent => queue[c] # Absent \/ (c = t /\ ~HasRun(t) /\ HasRun(t)')
<1>1. t \in Clients /\ Me(t) = t
  BY OneSearchKept
<1>2. CASE \E score : search[t].pc = "match" /\ MatchEnqueue(Me(t), score)
  <2>1. \A c \in Clients \ {t} : queue'[c] # Absent => queue[c] # Absent
    BY <1>1, <1>2 DEF MatchEnqueue
  <2> QED BY <1>2, <2>1, SearchMoves DEF HasRun
<1>3. CASE MatchFound(Me(t)) \/ UNCHANGED queue
  BY <1>3 DEF MatchFound
<1> QED
  BY <1>2, <1>3
     DEF SearchStep, GetSession, RunMatchFound, RunMatchWait, RunMatchFails, ShowMatchFailed, Match,
         MatchNoSession, GetPartnerSession, LookupPartner, Notify, NotifyFails,
         ConnectCheckSelf, ConnectCheckPartner, ConnectSetSelf, ConnectSetPartner,
         ShowInnerSelf, ShowInnerPartner, ShowInner, ShowConnectingSelf,
         ShowConnectingPartner, Subscribe, ReceiveNotify, CheckNotified, Timeout,
         StopWaiting, SearchAt, storeVars

\* Between two pairings, searches keep to the one there is.
LEMMA MatesKept ==
  ASSUME SharedOK, ThreadsOK, OneSearchEach, NEW mate, Mates(mate), NEW t \in Threads,
         SearchStep(t), ~Finds(t)
  PROVE  Mates(mate)'
<1>1. UNCHANGED session /\ ~RunMatchFound(t)
  BY SessionKept
<1>2. ASSUME NEW c \in Clients
      PROVE  /\ mate[c] # NoOne => mate[mate[c]] = c /\ queue'[c] = Absent /\ HasRun(c)'
             /\ queue'[c] # Absent => HasRun(c)'
  BY OneSearchKept, QueueGrows DEF Mates
<1>3. \A c \in Clients : chatPartner'[c] # NoOne => mate[c] = chatPartner'[c]
  BY ChatsKept
<1>4. \A u \in Threads : KnowsOnly(Only(mate), search'[u])
  <2>1. PICK known : known = Only(mate)
    OBVIOUS
  <2>2. \A c \in Clients : session[c] \in Clients => session[c] \in known[c]
    BY <2>1 DEF Mates, Only
  <2>3. \A u \in Threads : KnowsOnly(known, search[u])
    BY <2>1 DEF Mates
  <2>4. \A u \in Threads : KnowsOnly(known, search'[u])
    BY <1>1, <2>2, <2>3, SearchLearns
  <2> QED BY <2>1, <2>4
<1> QED BY <1>1, <1>2, <1>3, <1>4 DEF Mates

\* A pairing by the script takes both from the free ones, and nobody else
\* notices.
LEMMA MatesPaired ==
  ASSUME SharedOK, ThreadsOK, OneSearchEach, NEW mate, Mates(mate), NEW t \in Threads,
         SearchStep(t), Finds(t)
  PROVE  \E new : new = Paired(mate, t, MatchPartner(t)) /\ Mates(new)'
<1>1. PICK new : new = Paired(mate, t, MatchPartner(t))
  OBVIOUS
<1>2. PICK b \in Clients \ {t} : b = MatchPartner(t)
  BY PairedAreFree
<1>3. /\ t \in Clients /\ Me(t) = t /\ mate[t] = NoOne /\ mate[b] = NoOne
      /\ queue[t] = Absent /\ HasRun(b)
  BY <1>2, PairedAreFree
<1>4. /\ new \in [Clients -> Clients \cup {NoOne}]
      /\ new[t] = b /\ new[b] = t
      /\ \A c \in Clients \ {t, b} : new[c] = mate[c]
  BY <1>1, <1>2, <1>3 DEF Paired, Mates
<1>5. \A c \in Clients : mate[c] # NoOne => new[c] = mate[c]
  BY <1>3, <1>4
<1>6. /\ session' = [session EXCEPT ![t] = b, ![b] = t]
      /\ queue'[b] = Absent
      /\ \A c \in Clients : queue'[c] # Absent => queue[c] # Absent
  BY <1>2, <1>3 DEF Finds, MatchFound
<1>7. HasRun(t)'
  BY SearchMoves DEF Finds, SearchAt, HasRun
<1>8. ASSUME NEW c \in Clients
      PROVE  /\ new[c] # NoOne => new[new[c]] = c /\ queue'[c] = Absent /\ HasRun(c)'
             /\ queue'[c] # Absent => HasRun(c)'
             /\ session'[c] \in Clients => new[c] = session'[c]
  <2>1. CASE c \in {t, b}
    BY <1>3, <1>4, <1>6, <1>7, <2>1, OneSearchKept DEF SharedOK, StoreTypeOK
  <2>2. CASE c \notin {t, b}
    <3>1. new[c] # NoOne => mate[c] \notin {t, b}
      BY <1>3, <1>4, <2>2, RulesAssumption DEF Mates
    <3> QED BY <1>4, <1>6, <2>2, <3>1, OneSearchKept DEF Mates, SharedOK, StoreTypeOK
  <2> QED BY <2>1, <2>2
<1>9. \A c \in Clients : chatPartner'[c] # NoOne => new[c] = chatPartner'[c]
  BY <1>5, ChatsKept
<1>10. \A u \in Threads : KnowsOnly(Only(new), search'[u])
  <2>1. PICK known : known = Only(new)
    OBVIOUS
  <2>2. \A c \in Clients : session[c] \in Clients => session[c] \in known[c]
    BY <1>5, <2>1, RulesAssumption DEF Mates, Only
  <2>3. ASSUME NEW u \in Threads PROVE KnowsOnly(known, search[u])
    <3>1. SearchOK(search[u]) /\ KnowsOnly(Only(mate), search[u])
      BY DEF ThreadsOK, Mates
    <3>2. \A a, c \in Clients : a \in Only(mate)[c] => a \in known[c]
      BY <1>5, <2>1, RulesAssumption DEF Only
    <3> QED BY <3>1, <3>2 DEF KnowsOnly, SearchOK, SearchRecord, Partnered
  <2>4. RunMatchFound(t) => MatchPartner(Me(t)) \in known[Me(t)]
    BY <1>2, <1>3, <1>4, <2>1 DEF Only
  <2>5. \A u \in Threads : KnowsOnly(known, search'[u])
    BY <2>2, <2>3, <2>4, SearchLearns
  <2> QED BY <2>1, <2>5
<1>11. Mates(new)'
  BY <1>4, <1>8, <1>9, <1>10 DEF Mates
<1> QED BY <1>1, <1>11

\* Nothing but searches tells anybody of a partner, and a restart forgets.
LEMMA OthersKeepMates ==
  ASSUME SharedOK, ThreadsOK, OneSearchEach, NEW mate, Mates(mate),
         \/ \E c \in Clients : Register(c) \/ ServeWs(c) \/ SessionExpires(c)
         \/ \E type \in {"text", "video"} : QueueExpires(type)
         \/ Stop \/ Exit \/ Restart \/ Tick \/ UNCHANGED hubVars
  PROVE  OneSearchEach' /\ Mates(mate)'
<1>1. ASSUME UNCHANGED <<life, search>> PROVE OneSearchEach'
  BY <1>1 DEF OneSearchEach, Me
<1>2. ASSUME UNCHANGED <<chatPartner, search>>,
             \A c \in Clients : /\ queue'[c] \in {queue[c], Absent}
                               /\ session'[c] \in {session[c], NoOne, Absent}
      PROVE  Mates(mate)'
  BY <1>2, RulesAssumption DEF Mates, HasRun
<1>3. CASE \E c \in Clients : Register(c)
  <2>1. OneSearchEach'
    BY <1>3 DEF Register, OneSearchEach, SharedOK, Me
  <2>2. Mates(mate)'
    BY <1>2, <1>3 DEF Register, PutUnpaired, SharedOK, StoreTypeOK
  <2> QED BY <2>1, <2>2
<1>4. CASE \E c \in Clients : ServeWs(c)
  <2>1. PICK c \in Clients : ServeWs(c)
    BY <1>4
  <2>2. /\ search' = [search EXCEPT ![c] = NewSearch(c)] /\ c \in Threads
        /\ search[c].pc = "off" /\ life' = [life EXCEPT ![c] = "online"]
    BY <2>1 DEF ServeWs, OneSearchEach, Threads
  <2>3. NewSearch(c).pc = "get" /\ NewSearch(c).client = c /\ NewSearch(c).inbox = Absent
    BY DEF NewSearch, NoSearch
  <2>4. OneSearchEach'
    BY <2>2, <2>3, HubAssumption DEF OneSearchEach, ThreadsOK, SharedOK, Threads, Me
  <2>5. KnowsOnly(Only(mate), NewSearch(c))
    BY <2>3, RulesAssumption DEF KnowsOnly, Partnered
  <2>6. \A b \in Clients : HasRun(b) => HasRun(b)'
    BY <2>2 DEF HasRun, ThreadsOK, Threads
  <2>7. \A t \in Threads : KnowsOnly(Only(mate), search'[t])
    BY <2>2, <2>5 DEF ThreadsOK, Mates
  <2>8. UNCHANGED <<session, queue, chatPartner>>
    BY <2>1 DEF ServeWs, storeVars, memory
  <2> QED BY <2>4, <2>6, <2>7, <2>8 DEF Mates
<1>5. CASE \E c \in Clients : SessionExpires(c)
  BY <1>1, <1>2, <1>5
     DEF SessionExpires, DeleteSession, memory, SharedOK, StoreTypeOK
<1>6. CASE \E type \in {"text", "video"} : QueueExpires(type)
  BY <1>1, <1>2, <1>6 DEF QueueExpires, DropQueue, memory
<1>7. CASE Restart
  <2>1. \A t \in Threads : search'[t] = IF search[t].pc = "off" THEN search[t] ELSE Searched
    BY <1>7 DEF Restart
  <2>2. Searched.pc = "done" /\ Searched.inbox = Absent
    BY DEF Searched, NoSearch
  <2>3. OneSearchEach'
    BY <1>7, <2>1, <2>2 DEF Restart, OneSearchEach, Threads, Me
  <2>4. \A t \in Threads : KnowsOnly(Only(mate), search'[t])
    BY <2>1, <2>2, RulesAssumption DEF KnowsOnly, Partnered, Mates
  <2>5. \A b \in Clients : HasRun(b) => HasRun(b)'
    BY <2>1, <2>2 DEF HasRun, Threads
  <2>6. UNCHANGED <<session, queue>> /\ \A b \in Clients : chatPartner'[b] = NoOne
    BY <1>7 DEF Restart, storeVars
  <2> QED BY <2>3, <2>4, <2>5, <2>6 DEF Mates
<1>8. CASE Stop \/ Exit \/ Tick \/ UNCHANGED hubVars
  BY <1>1, <1>2, <1>8 DEF Stop, Exit, Tick, hubVars, storeVars, memory
<1> QED BY <1>3, <1>4, <1>5, <1>6, <1>7, <1>8

\* While nobody has asked for anything all that is known of partners agrees,
\* whatever fails, expires or is restarted.
LEMMA HubFirstMates == Spec => []FirstMates
<1>1. Init => FirstMates
  <2> SUFFICES ASSUME Init PROVE FirstMates
    OBVIOUS
  <2>1. PICK mate \in [Clients -> Clients \cup {NoOne}] : mate = [c \in Clients |-> NoOne]
    OBVIOUS
  <2>2. NoSearch.pc = "off" /\ NoSearch.inbox = Absent
    BY DEF NoSearch
  <2>3. OneSearchEach /\ \A t \in Threads : KnowsOnly(Only(mate), search[t])
    BY <2>2, RulesAssumption
       DEF Init, OneSearchEach, Threads, KnowsOnly, Partnered
  <2>4. \A c \in Clients : /\ mate[c] = NoOne /\ queue[c] = Absent
                          /\ session[c] = Absent /\ chatPartner[c] = NoOne
    BY <2>1 DEF Init, StoreInit
  <2>5. Mates(mate)
    BY <2>3, <2>4, RulesAssumption DEF Mates
  <2> QED BY <2>3, <2>5 DEF FirstMates
<1>2. HubTypeOK /\ FirstMates /\ [Next]_hubVars => FirstMates'
  <2> SUFFICES ASSUME SharedOK, ThreadsOK, FirstMates, [Next]_hubVars, NobodyAsks'
               PROVE  /\ OneSearchEach'
                      /\ \E mate \in [Clients -> Clients \cup {NoOne}] : Mates(mate)'
    BY TypeParts DEF FirstMates
  <2>1. NobodyAsks
    BY NobodyAsked
  <2>2. OneSearchEach
    BY <2>1 DEF FirstMates
  <2>3. PICK mate \in [Clients -> Clients \cup {NoOne}] : Mates(mate)
    BY <2>1 DEF FirstMates
  <2>4. CASE \E t \in Threads : SearchStep(t)
    <3>1. PICK t \in Threads : SearchStep(t)
      BY <2>4
    <3>2. OneSearchEach'
      BY <2>2, <3>1, OneSearchKept
    <3>3. \E new : Mates(new)'
      BY <2>2, <2>3, <3>1, MatesKept, MatesPaired
    <3> QED BY <3>2, <3>3 DEF Mates
  <2> QED BY <2>2, <2>3, <2>4, NobodyAsked, OthersKeepMates
<1> QED BY <1>1, <1>2, HubTypeCorrect, PTL DEF Spec

\* A first chat is never taken over, for any number of clients that connect,
\* whatever fails, expires or is restarted: the checks of Client.Connect, with
\* a gap between them and the writes, suffice (client.go:161-181).
THEOREM FirstChatsStay == Spec => FirstChatNotTakenOver
<1> DEFINE Stays ==
      NobodyAsks =>
        \A c \in Clients :
          chatPartner[c] # NoOne => chatPartner'[c] \in {chatPartner[c], NoOne}
<1>1. HubTypeOK /\ FirstMates /\ [Next]_hubVars => [Stays]_hubVars
  <2> SUFFICES ASSUME SharedOK, ThreadsOK, FirstMates, Next, NobodyAsks, NEW c \in Clients,
                      chatPartner[c] # NoOne
               PROVE  chatPartner'[c] \in {chatPartner[c], NoOne}
    BY TypeParts
  <2>1. OneSearchEach /\ \E mate : Mates(mate)
    BY DEF FirstMates
  <2>2. CASE \E t \in Threads : SearchStep(t)
    BY <2>1, <2>2, ChatsKept DEF Mates
  <2>3. CASE Restart
    BY <2>3 DEF Restart
  <2>4. ASSUME NEW t \in Threads, HandlerStep(t) PROVE FALSE
    BY <2>4
       DEF NobodyAsks, HandlerStep, PeerConnected, CheckPartner, UsePartner,
           UsePartnerAgain, NilPartner, StartEnd, DeleteClient, DisconnectLoad,
           DisconnectOwn, DisconnectPartner, UnregisterClearAgain, UnregisterTellPartner,
           UnregisterRemove, UnregisterDelete, EndTellSelf, ClearGet, ClearPut,
           SearchAgain, HandlerAt
  <2>5. CASE UNCHANGED chatPartner
    BY <2>5
  <2> QED
    BY <2>2, <2>3, <2>4, <2>5
       DEF Next, Register, ServeWs, Leave, SessionExpires, Send, QueueExpires, Stop, Exit,
           Tick, memory
<1> QED
  BY <1>1, HubTypeCorrect, HubFirstMates, PTL DEF Spec, FirstChatNotTakenOver

---------------------------------------------------------------------------
(* Without failures.                                                       *)

Faultless == ~MayFail /\ ~MayExpire /\ ~MayStop

SessionMates == [c \in Clients |-> IF session[c] \in Clients THEN session[c] ELSE NoOne]

\* Nothing stands between a match and its chat: nobody is unknown to the hub
\* or without a session, and who found nobody waits in the queue.
NobodyLost ==
  /\ hub = "up"
  /\ hubClients = Registered
  /\ \A c \in Clients :
       /\ HasSession(c) <=> life[c] # "new"
       /\ life[c] = "online" <=> search[c].pc # "off"
       /\ life[c] # "gone"
       /\ HasRun(c) /\ session[c] = NoOne => queue[c] # Absent

\* On its way to the two writes of Client.Connect.
BeforeConnect == {"partner", "lookup", "notify", "checkSelf", "checkPartner", "setSelf"}

Connecting(c) == search[c].pc \in BeforeConnect

\* A match that is not a chat yet is being made one by one of the two, and
\* half a chat by the one who has it.
MatchesProceed ==
  \A c \in Clients :
    /\ search[c].pc = "setPartner" => chatPartner[c] # NoOne
    /\ session[c] \in Clients /\ chatPartner[c] = NoOne =>
         IF chatPartner[session[c]] = NoOne
         THEN Connecting(c) \/ Connecting(session[c])
         ELSE search[session[c]].pc = "setPartner"

FirstChatsInv ==
  NobodyAsks => OneSearchEach /\ Mates(SessionMates) /\ NobodyLost /\ MatchesProceed

\* A client's mate is the partner of its session.
LEMMA MateIsPartner ==
  ASSUME SharedOK, ThreadsOK, OneSearchEach, Mates(SessionMates)
  PROVE  /\ \A c \in Clients :
              session[c] \in Clients => /\ session[session[c]] = c /\ queue[c] = Absent
                                      /\ HasRun(c)
         /\ \A c \in Clients : chatPartner[c] # NoOne => chatPartner[c] = session[c]
         /\ \A t \in Threads :
              search[t].pc \in Partnered =>
                t \in Clients /\ session[t] \in Clients /\ Partner(t) = session[t]
<1>1. \A c \in Clients : session[c] \in Clients => SessionMates[c] = session[c]
  BY DEF SessionMates
<1>2. \A c \in Clients : SessionMates[c] # NoOne => SessionMates[c] = session[c]
  BY DEF SessionMates
<1>3. ASSUME NEW c \in Clients, session[c] \in Clients
      PROVE  session[session[c]] = c /\ queue[c] = Absent /\ HasRun(c)
  BY <1>1, <1>2, <1>3, RulesAssumption DEF Mates
<1>4. ASSUME NEW c \in Clients, chatPartner[c] # NoOne PROVE chatPartner[c] = session[c]
  BY <1>2, <1>4, RulesAssumption DEF Mates
<1>5. ASSUME NEW t \in Threads, search[t].pc \in Partnered
      PROVE  t \in Clients /\ session[t] \in Clients /\ Partner(t) = session[t]
  <2>1. /\ t \in Clients /\ Me(t) = t /\ Partner(t) \in Clients
    BY <1>5 DEF OneSearchEach, Threads, Partnered, ThreadsOK, SearchOK, Partner
  <2>2. Partner(t) = SessionMates[t]
    BY <1>5, <2>1 DEF Mates, KnowsOnly, Only, Me, Partner
  <2> QED BY <1>2, <2>1, <2>2, RulesAssumption
<1> QED BY <1>3, <1>4, <1>5

\* No step, by whomever, makes sessions and what is known of them disagree.
LEMMA SessionMatesKept ==
  ASSUME SharedOK, ThreadsOK, OneSearchEach, Mates(SessionMates), NobodyLost,
         \/ \E c \in Clients : Register(c) \/ ServeWs(c)
         \/ \E t \in Threads : SearchStep(t)
         \/ Tick \/ UNCHANGED hubVars
  PROVE  Mates(SessionMates)'
<1>1. PICK mate : mate = SessionMates
  OBVIOUS
<1>2. Mates(mate)
  BY <1>1
<1>3. ASSUME NEW new, new = SessionMates', Mates(new)' PROVE Mates(SessionMates)'
  BY <1>3 DEF Mates, Only
<1>4. UNCHANGED session => mate = SessionMates'
  BY <1>1 DEF SessionMates
<1>5. CASE \E c \in Clients : Register(c)
  <2>1. mate = SessionMates'
    BY <1>1, <1>5, RulesAssumption
       DEF Register, PutUnpaired, NobodyLost, HasSession, SharedOK, StoreTypeOK, SessionMates
  <2>2. Mates(mate)'
    BY <1>2, <1>5, OthersKeepMates
  <2> QED BY <1>3, <2>1, <2>2
<1>6. CASE (\E c \in Clients : ServeWs(c)) \/ Tick \/ UNCHANGED hubVars
  <2>1. UNCHANGED session
    BY <1>6 DEF ServeWs, Tick, hubVars, storeVars
  <2>2. Mates(mate)'
    BY <1>2, <1>6, OthersKeepMates
  <2> QED BY <1>3, <1>4, <2>1, <2>2
<1>7. ASSUME NEW t \in Threads, SearchStep(t), ~Finds(t) PROVE Mates(SessionMates)'
  BY <1>2, <1>3, <1>4, <1>7, SessionKept, MatesKept
<1>8. ASSUME NEW t \in Threads, SearchStep(t), Finds(t) PROVE Mates(SessionMates)'
  <2>1. PICK b \in Clients \ {t} : b = MatchPartner(t)
    BY <1>2, <1>8, PairedAreFree
  <2>2. t \in Clients /\ Me(t) = t
    BY <1>2, <1>8, PairedAreFree
  <2>3. session' = [session EXCEPT ![t] = b, ![b] = t]
    BY <1>8, <2>1, <2>2 DEF Finds, MatchFound
  <2>4. PICK new : new = Paired(mate, t, b) /\ Mates(new)'
    BY <1>2, <1>8, <2>1, MatesPaired
  <2>5. new = SessionMates'
    BY <1>1, <2>1, <2>2, <2>3, <2>4 DEF Paired, SessionMates, SharedOK, StoreTypeOK
  <2> QED BY <1>3, <2>4, <2>5
<1> QED BY <1>5, <1>6, <1>7, <1>8

\* A search loses nobody: both sides of a match keep their sessions, and the
\* client of a run that finds nobody waits in the queue from then on.
LEMMA SearchLosesNobody ==
  ASSUME Faultless, SharedOK, ThreadsOK, OneSearchEach, NobodyLost, NEW t \in Threads,
         SearchStep(t)
  PROVE  NobodyLost'
<1>1. /\ t \in Clients /\ Me(t) = t /\ life[t] = "online" /\ HasSession(t)
      /\ search[t].pc # "off" /\ search'[t].pc # "off"
      /\ \A u \in Threads \ {t} : search'[u].pc = search[u].pc
      /\ SearchOK(search[t]) /\ search[t].score \in Nat
  BY OneSearchKept, SearchMoves DEF NobodyLost, HasSession, ThreadsOK, SearchRecord
<1>2. UNCHANGED <<hub, hubClients, life>>
  BY DEF SearchStep, GetSession, RunMatchFound, RunMatchWait, RunMatchFails, ShowMatchFailed,
         GetPartnerSession, LookupPartner, Notify, NotifyFails, ConnectCheckSelf,
         ConnectCheckPartner, ConnectSetSelf, ConnectSetPartner, ShowInnerSelf,
         ShowInnerPartner, ShowInner, ShowConnectingSelf, ShowConnectingPartner, Subscribe,
         ReceiveNotify, CheckNotified, Timeout, StopWaiting, memory
<1>3. CASE RunMatchFound(t)
  <2>1. PICK b \in Clients \ {t} :
          /\ b = MatchPartner(t) /\ HasSession(b)
    BY <1>1, <1>3, PartnerIsCompatible
       DEF SharedOK, RunMatchFound, MatchFound, LiveCandidates, Queued
  <2>2. /\ session' = [session EXCEPT ![t] = b, ![b] = t]
        /\ \A c \in Clients \ {t, b} : HasSession(c) => queue'[c] = queue[c]
    BY <1>1, <1>3, <2>1 DEF RunMatchFound, MatchFound, Purged
  <2>3. ASSUME NEW c \in Clients
        PROVE  /\ HasSession(c)' <=> HasSession(c)
               /\ HasRun(c)' /\ session'[c] = NoOne => queue'[c] # Absent
    <3>1. CASE c \in {t, b}
      BY <1>1, <2>1, <2>2, <3>1, RulesAssumption DEF HasSession, SharedOK, StoreTypeOK
    <3>2. CASE c \notin {t, b}
      BY <1>1, <2>2, <3>2, RulesAssumption
         DEF HasSession, HasRun, NobodyLost, SharedOK, StoreTypeOK, Threads
    <3> QED BY <3>1, <3>2
  <2> QED BY <1>1, <1>2, <2>3 DEF NobodyLost, Registered, Threads
<1>4. CASE RunMatchWait(t)
  <2>1. /\ UNCHANGED session /\ queue'[t] # Absent
        /\ \A c \in Clients \ {t} : HasSession(c) => queue'[c] = queue[c]
    BY <1>1, <1>4, RulesAssumption DEF RunMatchWait, MatchEnqueue, MatchNoSession, Purged
  <2>2. ASSUME NEW c \in Clients, HasRun(c)', session'[c] = NoOne PROVE queue'[c] # Absent
    BY <1>1, <2>1, <2>2, RulesAssumption DEF HasSession, HasRun, NobodyLost, Threads
  <2> QED BY <1>1, <1>2, <2>1, <2>2 DEF NobodyLost, HasSession, Registered, Threads
<1>5. CASE ~RunMatchFound(t) /\ ~RunMatchWait(t)
  <2>1. UNCHANGED storeVars /\ (HasRun(t) \/ ~HasRun(t)')
    <3>1. CASE GetSession(t)
      BY <1>1, <3>1 DEF Faultless, GetSession, HasRun, ThreadsOK, SearchRecord
    <3>2. CASE ~GetSession(t)
      BY <1>5, <3>2
         DEF Faultless, SearchStep, RunMatchFails, ShowMatchFailed, GetPartnerSession, LookupPartner, Notify,
             NotifyFails, ConnectCheckSelf, ConnectCheckPartner, ConnectSetSelf,
             ConnectSetPartner, ShowInnerSelf, ShowInnerPartner, ShowInner,
             ShowConnectingSelf, ShowConnectingPartner, Subscribe, ReceiveNotify,
             CheckNotified, Timeout, StopWaiting, SearchAt, HasRun, Waiting
    <3> QED BY <3>1, <3>2
  <2>2. ASSUME NEW c \in Clients, HasRun(c)', session'[c] = NoOne PROVE queue'[c] # Absent
    BY <1>1, <2>1, <2>2 DEF storeVars, HasRun, NobodyLost, Threads
  <2> QED BY <1>1, <1>2, <2>1, <2>2 DEF NobodyLost, HasSession, Registered, storeVars, Threads
<1> QED BY <1>3, <1>4, <1>5

\* A step of a search towards a chat: it goes on or has seen that one of the
\* two has a chat, it writes its own side, or the other.
LEMMA ChatStep ==
  ASSUME Faultless, SharedOK, ThreadsOK, OneSearchEach, Mates(SessionMates), NobodyLost,
         NEW t \in Threads, SearchStep(t)
  PROVE  \/ /\ UNCHANGED chatPartner
            /\ search[t].pc # "setPartner" /\ search'[t].pc # "setPartner"
            /\ Connecting(t) => \/ search'[t].pc \in BeforeConnect
                               \/ chatPartner[t] # NoOne
                               \/ chatPartner[session[t]] # NoOne
         \/ /\ search[t].pc = "setSelf" /\ search'[t].pc = "setPartner"
            /\ session[t] \in Clients
            /\ chatPartner' = [chatPartner EXCEPT ![t] = session[t]]
         \/ /\ search[t].pc = "setPartner" /\ search'[t].pc # "setPartner"
            /\ session[t] \in Clients
            /\ chatPartner' = [chatPartner EXCEPT ![session[t]] = t]
<1>1. /\ t \in Clients /\ Me(t) = t /\ search[t] \in SearchRecord
      /\ search[t].pc \in Partnered =>
           session[t] \in Clients /\ Partner(t) = session[t]
  BY OneSearchKept, MateIsPartner DEF ThreadsOK
<1>2. ASSUME NEW pc, SearchGo(t, pc) PROVE search'[t].pc = pc
  BY <1>2 DEF SearchGo, ThreadsOK, SearchRecord
<1>3. SearchEnds(t) => search'[t].pc = "done"
  BY DEF SearchEnds, Searched, NoSearch, ThreadsOK
<1>4. ASSUME session[t] \in Clients
      PROVE  HasSession(session[t]) /\ session[t] \in hubClients
  BY <1>1, <1>4, MateIsPartner, RulesAssumption DEF HasSession, NobodyLost, Registered
<1>5. CASE GetPartnerSession(t)
  <2>1. search'[t].pc = "lookup"
    BY <1>1, <1>4, <1>5
       DEF Faultless, GetPartnerSession, SearchAt, Partnered, ThreadsOK, SearchRecord
  <2> QED BY <1>5, <2>1 DEF GetPartnerSession, SearchAt, Connecting, BeforeConnect, memory
<1>6. CASE LookupPartner(t)
  <2>1. search'[t].pc = "notify"
    BY <1>1, <1>2, <1>4, <1>6 DEF LookupPartner, SearchAt, Partnered
  <2> QED BY <1>6, <2>1 DEF LookupPartner, SearchAt, Connecting, BeforeConnect, memory
<1>7. CASE Notify(t)
  <2>1. search'[t].pc = "checkSelf"
    BY <1>1, <1>7 DEF Notify, Publish, SearchRecord
  <2> QED BY <1>7, <2>1 DEF Notify, SearchAt, Connecting, BeforeConnect, memory
<1>8. CASE ConnectCheckSelf(t) \/ ConnectCheckPartner(t)
  BY <1>1, <1>2, <1>3, <1>8
     DEF ConnectCheckSelf, ConnectCheckPartner, SearchAt, Connecting, BeforeConnect, memory, Partnered
<1>9. CASE ConnectSetSelf(t)
  BY <1>1, <1>2, <1>9 DEF ConnectSetSelf, SearchAt, Partnered
<1>10. CASE ConnectSetPartner(t)
  BY <1>1, <1>2, <1>10 DEF ConnectSetPartner, SearchAt, Partnered
<1>11. CASE CheckNotified(t)
  BY <1>2, <1>3, <1>11 DEF CheckNotified, SearchAt, Connecting, BeforeConnect, memory
<1>12. CASE GetSession(t) \/ RunMatchFound(t) \/ RunMatchWait(t) \/ ReceiveNotify(t)
  <2>1. search'[t].pc \in {"match", "done", "partner", "subscribe", "spin", "notified"}
    BY <1>1, <1>3, <1>12
       DEF GetSession, RunMatchFound, RunMatchWait, ReceiveNotify, ThreadsOK, SearchRecord
  <2> QED
    BY <1>12, <2>1
       DEF GetSession, RunMatchFound, RunMatchWait, ReceiveNotify, SearchAt, Connecting, BeforeConnect,
           memory
<1>13. CASE \/ ShowInnerSelf(t) \/ ShowInnerPartner(t) \/ ShowConnectingSelf(t)
            \/ ShowConnectingPartner(t) \/ ShowMatchFailed(t) \/ Subscribe(t)
            \/ Timeout(t) \/ StopWaiting(t)
  <2>1. search'[t].pc \in {"innerPartner", "buttonSelf", "buttonPartner", "wait", "done"}
    BY <1>2, <1>3, <1>13
       DEF ShowInnerSelf, ShowInnerPartner, ShowInner, ShowConnectingSelf,
           ShowConnectingPartner, ShowMatchFailed, Subscribe, Timeout, StopWaiting
  <2> QED
    BY <1>13, <2>1
       DEF ShowInnerSelf, ShowInnerPartner, ShowInner, ShowConnectingSelf,
           ShowConnectingPartner, ShowMatchFailed, Subscribe, Timeout, StopWaiting, SearchAt, Waiting,
           Connecting, BeforeConnect, memory
<1>14. ~RunMatchFails(t) /\ ~NotifyFails(t)
  BY DEF Faultless, RunMatchFails, NotifyFails
<1> QED
  BY <1>5, <1>6, <1>7, <1>8, <1>9, <1>10, <1>11, <1>12, <1>13, <1>14 DEF SearchStep

\* A match keeps proceeding towards its chat until it is one.
LEMMA MatchesProceedKept ==
  ASSUME Faultless, SharedOK, ThreadsOK, OneSearchEach, Mates(SessionMates), NobodyLost,
         MatchesProceed, NEW t \in Threads, SearchStep(t)
  PROVE  MatchesProceed'
<1>1. t \in Clients /\ \A u \in Threads \ {t} : search'[u].pc = search[u].pc
  BY OneSearchKept, SearchMoves
<1>2. ASSUME NEW c \in Clients
      PROVE  /\ c # t => search'[c].pc = search[c].pc
             /\ c # t => (search'[c].pc \in BeforeConnect <=> Connecting(c))
             /\ session[c] \in Clients => session[session[c]] = c
  BY <1>1, MateIsPartner DEF Threads, Connecting
<1>3. ASSUME NEW c \in Clients, search'[c].pc = "setPartner"
      PROVE  chatPartner'[c] # NoOne
  BY <1>1, <1>2, <1>3, ChatStep, RulesAssumption DEF MatchesProceed, SharedOK
<1>4. CASE Finds(t)
  <2>1. RunMatchFound(t)
    BY <1>4 DEF Faultless, Finds, SearchStep, GetSession, RunMatchWait, RunMatchFails, ShowMatchFailed,
         MatchNoSession, MatchEnqueue, MatchFound, GetPartnerSession, LookupPartner, Notify,
         NotifyFails, ConnectCheckSelf, ConnectCheckPartner, ConnectSetSelf,
         ConnectSetPartner, ShowInnerSelf, ShowInnerPartner, ShowInner,
         ShowConnectingSelf, ShowConnectingPartner, Subscribe, ReceiveNotify, CheckNotified,
         Timeout, StopWaiting, SearchAt, Waiting
  <2>2. PICK mate : mate = SessionMates
    OBVIOUS
  <2>3. PICK b \in Clients \ {t} : b = MatchPartner(t) /\ mate[b] = NoOne
    BY <1>4, <2>2, PairedAreFree
  <2>4. Me(t) = t /\ mate[t] = NoOne
    BY <1>4, <2>2, PairedAreFree
  <2>5. /\ session' = [session EXCEPT ![t] = b, ![b] = t]
        /\ UNCHANGED chatPartner /\ search'[t].pc \in BeforeConnect
    BY <1>1, <2>1, <2>3, <2>4
       DEF RunMatchFound, MatchFound, memory, BeforeConnect, ThreadsOK, SearchRecord
  <2>6. /\ session[t] \notin Clients /\ session[b] \notin Clients
        /\ chatPartner[t] = NoOne /\ chatPartner[b] = NoOne
    BY <1>1, <2>2, <2>3, <2>4, RulesAssumption DEF Mates, SharedOK
  <2>7. ASSUME NEW c \in Clients, session'[c] \in Clients, chatPartner'[c] = NoOne
        PROVE  IF chatPartner'[session'[c]] = NoOne
               THEN search'[c].pc \in BeforeConnect \/ search'[session'[c]].pc \in BeforeConnect
               ELSE search'[session'[c]].pc = "setPartner"
    <3>1. CASE c \in {t, b}
      BY <1>1, <2>3, <2>5, <2>6, <2>7, <3>1 DEF SharedOK, StoreTypeOK, Connecting
    <3>2. CASE c \notin {t, b}
      <4>1. session'[c] = session[c] /\ session[c] \in Clients
        BY <2>5, <2>7, <3>2 DEF SharedOK, StoreTypeOK
      <4>2. session[c] \notin {t, b}
        BY <1>2, <2>6, <4>1
      <4> QED BY <1>1, <1>2, <2>5, <2>7, <3>2, <4>1, <4>2 DEF MatchesProceed, Connecting
    <3> QED BY <3>1, <3>2
  <2> QED BY <1>3, <2>7 DEF MatchesProceed, Connecting
<1>5. CASE ~Finds(t)
  <2>1. UNCHANGED session
    BY <1>5, SessionKept
  <2>2. ASSUME NEW c \in Clients, session[c] \in Clients, chatPartner'[c] = NoOne
        PROVE  IF chatPartner'[session[c]] = NoOne
               THEN search'[c].pc \in BeforeConnect \/ search'[session[c]].pc \in BeforeConnect
               ELSE search'[session[c]].pc = "setPartner"
    <3>1. PICK x \in Clients : x = session[c] /\ session[x] = c
      BY <1>2, <2>2
    <3>2. chatPartner[c] = NoOne
      BY <1>1, <2>2, ChatStep, RulesAssumption DEF SharedOK
    <3>3. /\ search[c].pc # "setPartner"
          /\ search[x].pc = "setPartner" => chatPartner[x] # NoOne
          /\ chatPartner[x] = NoOne => Connecting(c) \/ Connecting(x)
          /\ chatPartner[x] # NoOne => search[x].pc = "setPartner"
      BY <2>2, <3>1, <3>2 DEF MatchesProceed
    <3>4. CASE t \notin {c, x}
      <4>1. chatPartner'[x] = chatPartner[x]
        BY <1>1, <1>2, <3>1, <3>4, ChatStep DEF SharedOK
      <4> QED BY <1>2, <3>1, <3>3, <3>4, <4>1
    <3>5. CASE t = c
      BY <1>1, <1>2, <2>2, <3>1, <3>2, <3>3, <3>5, ChatStep, RulesAssumption
         DEF SharedOK, Connecting
    <3>6. CASE t = x
      BY <1>1, <1>2, <2>2, <3>1, <3>2, <3>3, <3>6, ChatStep, RulesAssumption
         DEF SharedOK, Connecting
    <3> QED BY <3>4, <3>5, <3>6
  <2> QED BY <1>3, <2>1, <2>2 DEF MatchesProceed, Connecting
<1> QED BY <1>4, <1>5

\* Clients that come disturb no match: they have none yet.
LEMMA ArrivalsDisturbNothing ==
  ASSUME SharedOK, ThreadsOK, OneSearchEach, Mates(SessionMates), NobodyLost, MatchesProceed,
         (\E c \in Clients : Register(c) \/ ServeWs(c)) \/ Tick \/ UNCHANGED hubVars
  PROVE  NobodyLost' /\ MatchesProceed'
<1>1. ASSUME NEW c \in Clients, Register(c) PROVE NobodyLost' /\ MatchesProceed'
  <2>1. /\ session[c] = Absent /\ session' = [session EXCEPT ![c] = NoOne]
        /\ search[c].pc = "off" /\ UNCHANGED <<queue, hub, chatPartner, search>>
        /\ life' = [life EXCEPT ![c] = "registered"]
        /\ hubClients' = hubClients \cup {c}
    BY <1>1 DEF Register, PutUnpaired, NobodyLost, HasSession, OneSearchEach
  <2>2. Registered' = Registered \cup {c}
    BY <2>1 DEF Registered, SharedOK
  <2>3. ASSUME NEW b \in Clients
        PROVE  /\ HasSession(b)' <=> life'[b] # "new"
               /\ life'[b] = "online" <=> search'[b].pc # "off"
               /\ life'[b] # "gone"
               /\ HasRun(b)' /\ session'[b] = NoOne => queue'[b] # Absent
    BY <1>1, <2>1, RulesAssumption
       DEF Register, NobodyLost, HasSession, HasRun, SharedOK, StoreTypeOK
  <2>4. \A b \in Clients : session'[b] \in Clients => session'[b] = session[b]
    BY <2>1, RulesAssumption DEF SharedOK, StoreTypeOK
  <2>5. MatchesProceed'
    BY <2>1, <2>4 DEF MatchesProceed, Connecting
  <2> QED BY <2>1, <2>2, <2>3, <2>5 DEF NobodyLost
<1>2. ASSUME NEW c \in Clients, ServeWs(c) PROVE NobodyLost' /\ MatchesProceed'
  <2>1. /\ search[c].pc = "off" /\ UNCHANGED <<session, queue, hub, hubClients, chatPartner>>
        /\ search'[c].pc = "get" /\ \A b \in Clients \ {c} : search'[b] = search[b]
        /\ life[c] = "registered" /\ life' = [life EXCEPT ![c] = "online"]
    BY <1>2 DEF ServeWs, OneSearchEach, NewSearch, NoSearch, ThreadsOK, Threads, storeVars,
                memory
  <2>2. Registered' = Registered
    BY <2>1 DEF Registered, SharedOK
  <2>3. ASSUME NEW b \in Clients
        PROVE  /\ HasSession(b)' <=> life'[b] # "new"
               /\ life'[b] = "online" <=> search'[b].pc # "off"
               /\ life'[b] # "gone"
               /\ HasRun(b)' /\ session'[b] = NoOne => queue'[b] # Absent
    BY <2>1 DEF NobodyLost, HasSession, HasRun, SharedOK
  <2>4. \A b \in Clients :
          /\ search'[b].pc = "setPartner" <=> search[b].pc = "setPartner"
          /\ search'[b].pc \in BeforeConnect <=> Connecting(b)
    BY <2>1 DEF Connecting, BeforeConnect
  <2>5. MatchesProceed'
    BY <2>1, <2>4 DEF MatchesProceed, Connecting
  <2> QED BY <2>1, <2>2, <2>3, <2>5 DEF NobodyLost
<1>3. ASSUME Tick \/ UNCHANGED hubVars PROVE NobodyLost' /\ MatchesProceed'
  BY <1>3 DEF Tick, hubVars, storeVars, memory, NobodyLost, MatchesProceed, Connecting,
              HasRun, HasSession, Registered
<1> QED BY <1>1, <1>2, <1>3

\* When nothing fails, expires or stops, all of it is an invariant.
LEMMA HubFirstChats ==
  ASSUME Faultless
  PROVE  Spec => []FirstChatsInv
<1>1. Init => FirstChatsInv
  <2> SUFFICES ASSUME Init PROVE FirstChatsInv
    OBVIOUS
  <2>1. NoSearch.pc = "off" /\ NoSearch.inbox = Absent
    BY DEF NoSearch
  <2>2. OneSearchEach /\ \A t \in Threads : KnowsOnly(Only(SessionMates), search[t])
    BY <2>1, RulesAssumption DEF Init, OneSearchEach, Threads, KnowsOnly, Partnered
  <2>3. \A c \in Clients : /\ SessionMates[c] = NoOne /\ queue[c] = Absent
                          /\ session[c] = Absent /\ chatPartner[c] = NoOne
                          /\ life[c] = "new" /\ search[c].pc = "off"
    BY <2>1, RulesAssumption DEF Init, StoreInit, SessionMates, Threads
  <2>4. Mates(SessionMates)
    BY <2>2, <2>3, RulesAssumption DEF Mates, SessionMates
  <2>5. NobodyLost
    BY <2>3, RulesAssumption DEF Init, NobodyLost, HasSession, HasRun, Registered
  <2>6. MatchesProceed
    BY <2>3, RulesAssumption DEF MatchesProceed
  <2> QED BY <2>2, <2>4, <2>5, <2>6 DEF FirstChatsInv
<1>2. HubTypeOK /\ FirstChatsInv /\ [Next]_hubVars => FirstChatsInv'
  <2> SUFFICES ASSUME SharedOK, ThreadsOK, FirstChatsInv, [Next]_hubVars, NobodyAsks'
               PROVE  OneSearchEach' /\ Mates(SessionMates)' /\ NobodyLost' /\ MatchesProceed'
    BY TypeParts DEF FirstChatsInv
  <2>1. OneSearchEach /\ Mates(SessionMates) /\ NobodyLost /\ MatchesProceed
    BY NobodyAsked DEF FirstChatsInv
  <2>2. ~Stop /\ ~Exit /\ ~Restart
    BY <2>1 DEF Faultless, Stop, Exit, Restart, NobodyLost
  <2>3. \A c, type : ~SessionExpires(c) /\ ~QueueExpires(type)
    BY DEF Faultless, SessionExpires, QueueExpires
  <2>4. CASE \E t \in Threads : SearchStep(t)
    BY <2>1, <2>4, OneSearchKept, SessionMatesKept, SearchLosesNobody, MatchesProceedKept
  <2>5. CASE (\E c \in Clients : Register(c) \/ ServeWs(c)) \/ Tick \/ UNCHANGED hubVars
    <3>1. PICK mate : mate = SessionMates
      OBVIOUS
    <3>2. OneSearchEach'
      BY <2>1, <2>5, <3>1, OthersKeepMates
    <3> QED BY <2>1, <2>5, <3>2, SessionMatesKept, ArrivalsDisturbNothing
  <2> QED BY <2>2, <2>3, <2>4, <2>5, NobodyAsked
<1> QED BY <1>1, <1>2, HubTypeCorrect, PTL DEF Spec

\* When nothing fails, expires or stops, first chats come about, for any
\* number of clients: once all searches are over, no two that may chat are
\* both without a partner, and partners are partners of each other.
THEOREM FirstChatsMade ==
  ASSUME Faultless
  PROVE  Spec => []FirstChatsComeAbout
<1>1. HubTypeOK /\ FirstChatsInv /\ Store!NoMissedMatch => FirstChatsComeAbout
  <2> SUFFICES ASSUME SharedOK, ThreadsOK, FirstChatsInv, Store!NoMissedMatch, AtRest, NobodyAsks
               PROVE  FirstChatsComeAbout
    BY TypeParts DEF FirstChatsComeAbout
  <2>1. OneSearchEach /\ Mates(SessionMates) /\ NobodyLost /\ MatchesProceed
    BY DEF FirstChatsInv
  <2>2. \A c \in Clients : search[c].pc \in {"off", "done"}
    BY DEF AtRest, Threads
  <2>3. ASSUME NEW c \in Clients, session[c] \in Clients PROVE chatPartner[c] # NoOne
    BY <2>1, <2>2, <2>3, MateIsPartner DEF MatchesProceed, Connecting, BeforeConnect
  <2>4. ASSUME NEW c \in Clients, life[c] = "online", chatPartner[c] = NoOne
        PROVE  queue[c] # Absent
    BY <2>1, <2>2, <2>3, <2>4, RulesAssumption
       DEF NobodyLost, HasRun, HasSession, SharedOK, StoreTypeOK
  <2>5. ASSUME NEW c \in Clients, chatPartner[c] # NoOne
        PROVE  chatPartner[chatPartner[c]] = c
    <3>1. PICK x \in Clients : x = chatPartner[c] /\ x = session[c] /\ session[x] = c
      BY <2>1, <2>5, MateIsPartner DEF SharedOK
    <3>2. chatPartner[x] # NoOne
      BY <2>3, <3>1
    <3> QED BY <2>1, <3>1, <3>2, MateIsPartner
  <2>6. \A a, b \in Clients : queue[a] # Absent /\ queue[b] # Absent => ~Compatible(a, b)
    BY DEF Store!NoMissedMatch, Store!Compatible, Store!Eligible, Store!HasCommon,
           Store!FallbackPair, Compatible, Eligible, HasCommon, FallbackPair
  <2> QED BY <2>4, <2>5, <2>6 DEF FirstChatsComeAbout
<1> QED
  BY <1>1, HubTypeCorrect, HubFirstChats, HubMissesNoMatch, PTL

=============================================================================
