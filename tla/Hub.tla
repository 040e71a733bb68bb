-------------------------------- MODULE Hub --------------------------------
(***************************************************************************)
(* The matchmaking hub (src/internal/matchmaking/hub.go, client.go): its    *)
(* clients, the goroutines that search a partner for them and the           *)
(* goroutines that handle their messages, over the Redis store.             *)
(*                                                                          *)
(* Client.ChatPartner is read and written by all of them without a lock,    *)
(* and Redis is shared, so every read or write of a ChatPartner, every      *)
(* Redis command and every delivery to a page is a step of its own.  The    *)
(* two sends that always go together (a status text and a button) are one   *)
(* delivery, the button.                                                    *)
(***************************************************************************)
EXTENDS RedisStore

CONSTANTS
  Messages,   \* ids of the WebSocket messages sent in a behaviour
  Kinds,      \* the message types they may have
  MaxClock,   \* bound on the clock that scores queue entries, in seconds
  Senders,    \* clients that may send them
  Leavers,    \* clients whose WebSocket connection may close
  MayFail,    \* Redis calls may return an error, a published message be lost
  MayExpire,  \* sessions and queues may reach their time to live
  MayStop     \* the process may be stopped, or killed, and started again

ASSUME HubAssumption ==
  /\ Kinds \subseteq {"typing", "peer_connected", "new_connection", "end_connection"}
  /\ MaxClock \in Nat
  /\ Senders \subseteq Clients /\ Leavers \subseteq Clients
  /\ {MayFail, MayExpire, MayStop} \subseteq BOOLEAN
  /\ Messages \cap Clients = {} /\ NoOne \notin Messages /\ Absent \notin Messages

VARIABLES
  hub,          \* "up", "stopping" (ctx cancelled) or "down" (process gone)
  hubClients,   \* Hub.clients, the ids in the map
  life,         \* per client: "new", "registered", "online", "gone"
  chatPartner,  \* Client.ChatPartner
  button,       \* the action button of the client's page
  inner,        \* the search whose ChatInner (pair of peer ids) the page shows
  search,       \* StartMatchmaking goroutines
  handler,      \* message handlers, and ReadPump's deferred UnregisterClient
  now           \* time.Now().Unix()

memory == <<hubClients, chatPartner>>
pages  == <<button, inner>>
hubVars == <<session, queue, hub, hubClients, life, chatPartner, button, inner,
             search, handler, now>>

(***************************************************************************)
(* A client id names the search ServeWs starts for it and its own           *)
(* unregistration; a message id the handler of the message and the search   *)
(* that handler may start.                                                  *)
(***************************************************************************)
Threads == Clients \cup Messages

NoSearch == [pc |-> "off", client |-> NoOne, partner |-> NoOne, told |-> NoOne,
             inbox |-> Absent, score |-> 0]

Searched == [NoSearch EXCEPT !.pc = "done"]

NewSearch(c) == [NoSearch EXCEPT !.pc = "get", !.client = c]

NoWork == [pc |-> "off", kind |-> "none", client |-> NoOne, partner |-> NoOne]

Handled == [NoWork EXCEPT !.pc = "done"]

Init ==
  /\ StoreInit
  /\ hub = "up"
  /\ hubClients = {}
  /\ life = [c \in Clients |-> "new"]
  /\ chatPartner = [c \in Clients |-> NoOne]
  /\ button = [c \in Clients |-> "new"]
  /\ inner = [c \in Clients |-> NoOne]
  /\ search = [t \in Threads |-> NoSearch]
  /\ handler = [t \in Threads |-> NoWork]
  /\ now = 0

Alive == hub # "down"

---------------------------------------------------------------------------
(* Clients come and go.                                                    *)

\* POST /chat/{type}: chatPost, RegisterClient.
Register(c) ==
  /\ Alive
  /\ life[c] = "new"
  /\ PutUnpaired(c)
  /\ hubClients' = hubClients \cup {c}
  /\ life' = [life EXCEPT ![c] = "registered"]
  /\ UNCHANGED <<hub, chatPartner, pages, search, handler, now>>

\* GET /chat-ws: the client's WebSocket, and its first search.
ServeWs(c) ==
  /\ Alive
  /\ life[c] = "registered"
  /\ c \in hubClients
  /\ life' = [life EXCEPT ![c] = "online"]
  /\ search' = [search EXCEPT ![c] = NewSearch(c)]
  /\ UNCHANGED <<storeVars, hub, memory, pages, handler, now>>

\* The connection closes: ReadPump returns, and its defer unregisters.
Leave(c) ==
  /\ Alive
  /\ c \in Leavers \/ hub = "stopping"
  /\ life[c] = "online"
  /\ life' = [life EXCEPT ![c] = "gone"]
  /\ handler' = [handler EXCEPT ![c] =
                   [pc |-> "delete", kind |-> "unregister", client |-> c, partner |-> NoOne]]
  /\ button' = [button EXCEPT ![c] = "new"]
  /\ inner' = [inner EXCEPT ![c] = NoOne]
  /\ UNCHANGED <<storeVars, hub, memory, search, now>>

(***************************************************************************)
(* What a page can send: New Chat when that button is shown, peer_connected *)
(* when another page holds the other end of its pair of peer ids, typing at *)
(* any time.  Nothing in the page sends end_connection.                     *)
(***************************************************************************)
PageMaySend(c, kind) ==
  CASE kind = "new_connection" -> button[c] = "new"
    [] kind = "peer_connected" ->
         inner[c] # NoOne /\ \E b \in Clients \ {c} : inner[b] = inner[c]
    [] OTHER -> TRUE

\* ReadPump hands the message to the hub, which starts a goroutine for it:
\* handlers run in any order, from any later moment on.
Send(m, c, kind) ==
  /\ hub = "up"
  /\ life[c] = "online"
  /\ handler[m].pc = "off"
  /\ PageMaySend(c, kind)
  /\ handler' = [handler EXCEPT ![m] =
                   [pc |-> "start", kind |-> kind, client |-> c, partner |-> NoOne]]
  /\ UNCHANGED <<storeVars, hub, memory, life, pages, search, now>>

---------------------------------------------------------------------------
(* StartMatchmaking: one goroutine per search.                             *)

Me(t) == search[t].client

Partner(t) == search[t].partner

SearchAt(t, pc) == Alive /\ search[t].pc = pc

SearchGo(t, pc) == search' = [search EXCEPT ![t].pc = pc]

SearchEnds(t) == search' = [search EXCEPT ![t] = Searched]

\* A delivery to a page that is closed has no effect.
ShowButton(c, b) ==
  button' = IF life[c] = "online" THEN [button EXCEPT ![c] = b] ELSE button

\* The client's session is read; without it the goroutine just returns.
GetSession(t) ==
  /\ SearchAt(t, "get")
  /\ \/ /\ HasSession(Me(t))
        /\ search' = [search EXCEPT ![t].pc = "match", ![t].score = now]
     \/ ~HasSession(Me(t)) /\ SearchEnds(t)
     \/ MayFail /\ SearchEnds(t)
  /\ UNCHANGED <<storeVars, hub, memory, life, pages, handler, now>>

RunMatchFound(t) ==
  /\ SearchAt(t, "match")
  /\ MatchFound(Me(t))
  /\ search' = [search EXCEPT ![t].pc = "partner", ![t].score = 0,
                              ![t].partner = MatchPartner(Me(t))]
  /\ UNCHANGED <<hub, memory, life, pages, handler, now>>

RunMatchWait_NoSessionCheck(t) ==
  /\ SearchAt(t, "match")
  /\ MatchPartner(Me(t)) = NoOne
  /\ queue' = [queue EXCEPT ![Me(t)] = search[t].score]
  /\ search' = [search EXCEPT ![t].pc = "subscribe", ![t].score = 0]
  /\ UNCHANGED <<session, hub, memory, life, pages, handler, now>>

\* Nobody there, or no session any more: both go on to wait.
RunMatchWait(t) ==
  /\ SearchAt(t, "match")
  /\ MatchEnqueue(Me(t), search[t].score) \/ MatchNoSession(Me(t))
  /\ search' = [search EXCEPT ![t].pc = "subscribe", ![t].score = 0]
  /\ UNCHANGED <<hub, memory, life, pages, handler, now>>

\* An error says nothing about whether the script ran.
RunMatchFails(t) ==
  /\ MayFail
  /\ SearchAt(t, "match")
  /\ Match(Me(t), search[t].score) \/ UNCHANGED storeVars
  /\ search' = [search EXCEPT ![t].pc = "matchFailed", ![t].score = 0]
  /\ UNCHANGED <<hub, memory, life, pages, handler, now>>

ShowMatchFailed(t) ==
  /\ SearchAt(t, "matchFailed")
  /\ ShowButton(Me(t), "new")
  /\ SearchEnds(t)
  /\ UNCHANGED <<storeVars, hub, memory, life, inner, handler, now>>

\* "told" is the partner_id of the partner's own session, as just read.
GetPartnerSession(t) ==
  /\ SearchAt(t, "partner")
  /\ \/ /\ HasSession(Partner(t))
        /\ search' = [search EXCEPT ![t].pc = "lookup", ![t].told = session[Partner(t)]]
     \/ ~HasSession(Partner(t)) /\ SearchEnds(t)
     \/ MayFail /\ SearchEnds(t)
  /\ UNCHANGED <<storeVars, hub, memory, life, pages, handler, now>>

\* connectPairedClients: nothing is shown to anyone if the partner is gone.
LookupPartner(t) ==
  /\ SearchAt(t, "lookup")
  /\ IF Partner(t) \in hubClients THEN SearchGo(t, "notify") ELSE SearchEnds(t)
  /\ UNCHANGED <<storeVars, hub, memory, life, pages, handler, now>>

Subscribers_AnyChannel(c) ==
  {u \in Threads : search[u].pc = "wait" /\ search[u].inbox = Absent}

\* Searches of c whose SubscribeMatch still takes a message: it takes one.
Subscribers(c) ==
  {u \in Threads : Me(u) = c /\ search[u].pc = "wait" /\ search[u].inbox = Absent}

\* PUBLISH: only who is subscribed by now hears of it; "own" is what becomes of t.
Publish(t, own) ==
  \E reached \in SUBSET Subscribers(Partner(t)) :
    /\ ~MayFail => reached = Subscribers(Partner(t))
    /\ search' = [u \in Threads |->
                    IF u = t THEN own
                    ELSE IF u \in reached THEN [search[u] EXCEPT !.inbox = search[t].told]
                    ELSE search[u]]

Notify(t) ==
  /\ SearchAt(t, "notify")
  /\ Publish(t, [search[t] EXCEPT !.pc = "checkSelf", !.told = NoOne])
  /\ UNCHANGED <<storeVars, hub, memory, life, pages, handler, now>>

\* An error says nothing about who has heard of the match.
NotifyFails(t) ==
  /\ MayFail
  /\ SearchAt(t, "notify")
  /\ Publish(t, Searched)
  /\ UNCHANGED <<storeVars, hub, memory, life, pages, handler, now>>

\* Client.Connect: two checks, then two writes.
ConnectCheckSelf(t) ==
  /\ SearchAt(t, "checkSelf")
  /\ IF chatPartner[Me(t)] = NoOne THEN SearchGo(t, "checkPartner") ELSE SearchEnds(t)
  /\ UNCHANGED <<storeVars, hub, memory, life, pages, handler, now>>

ConnectCheckPartner(t) ==
  /\ SearchAt(t, "checkPartner")
  /\ IF chatPartner[Partner(t)] = NoOne THEN SearchGo(t, "setSelf") ELSE SearchEnds(t)
  /\ UNCHANGED <<storeVars, hub, memory, life, pages, handler, now>>

ConnectSetSelf(t) ==
  /\ SearchAt(t, "setSelf")
  /\ chatPartner' = [chatPartner EXCEPT ![Me(t)] = Partner(t)]
  /\ SearchGo(t, "setPartner")
  /\ UNCHANGED <<storeVars, hub, hubClients, life, pages, handler, now>>

ConnectSetPartner_OneSided(t) ==
  /\ SearchAt(t, "setPartner")
  /\ SearchGo(t, "innerSelf")
  /\ UNCHANGED <<storeVars, hub, memory, life, pages, handler, now>>

ConnectSetPartner(t) ==
  /\ SearchAt(t, "setPartner")
  /\ chatPartner' = [chatPartner EXCEPT ![Partner(t)] = Me(t)]
  /\ SearchGo(t, "innerSelf")
  /\ UNCHANGED <<storeVars, hub, hubClients, life, pages, handler, now>>

\* ChatInner brings the peer ids of this search, and a New Chat button.
ShowInner(t, pc, c, next) ==
  /\ SearchAt(t, pc)
  /\ inner' = IF life[c] = "online" THEN [inner EXCEPT ![c] = t] ELSE inner
  /\ ShowButton(c, "new")
  /\ SearchGo(t, next)
  /\ UNCHANGED <<storeVars, hub, memory, life, handler, now>>

ShowInnerSelf(t) == ShowInner(t, "innerSelf", Me(t), "innerPartner")

ShowInnerPartner(t) == ShowInner(t, "innerPartner", Partner(t), "buttonSelf")

ShowConnectingSelf(t) ==
  /\ SearchAt(t, "buttonSelf")
  /\ ShowButton(Me(t), "connecting")
  /\ SearchGo(t, "buttonPartner")
  /\ UNCHANGED <<storeVars, hub, memory, life, inner, handler, now>>

ShowConnectingPartner(t) ==
  /\ SearchAt(t, "buttonPartner")
  /\ ShowButton(Partner(t), "connecting")
  /\ SearchEnds(t)
  /\ UNCHANGED <<storeVars, hub, memory, life, inner, handler, now>>

\* waitForMatch.  Redis gets to the SUBSCRIBE at some time after it is sent.
Subscribe(t) ==
  /\ SearchAt(t, "subscribe")
  /\ SearchGo(t, "wait")
  /\ UNCHANGED <<storeVars, hub, memory, life, pages, handler, now>>

ReceiveNotify_AnyRoom(t) ==
  /\ SearchAt(t, "wait")
  /\ search[t].inbox # Absent
  /\ search' = [search EXCEPT ![t].pc = "notified", ![t].inbox = Absent,
                              ![t].partner = search[t].inbox]
  /\ UNCHANGED <<storeVars, hub, memory, life, pages, handler, now>>

(***************************************************************************)
(* A notification without a room is ignored, but the channel is closed      *)
(* after the first one: from then on the loop spins until the timeout.      *)
(***************************************************************************)
ReceiveNotify(t) ==
  /\ SearchAt(t, "wait")
  /\ \/ /\ search[t].inbox = NoOne
        /\ search' = [search EXCEPT ![t].pc = "spin", ![t].inbox = Absent]
     \/ /\ search[t].inbox \in Clients
        /\ search' = [search EXCEPT ![t].pc = "notified", ![t].inbox = Absent,
                                    ![t].partner = search[t].inbox]
  /\ UNCHANGED <<storeVars, hub, memory, life, pages, handler, now>>

\* "The matcher's goroutine may have already connected both clients."
CheckNotified(t) ==
  /\ SearchAt(t, "notified")
  /\ IF chatPartner[Me(t)] = NoOne THEN SearchGo(t, "partner") ELSE SearchEnds(t)
  /\ UNCHANGED <<storeVars, hub, memory, life, pages, handler, now>>

Waiting_NoTimer(t) == search[t].pc = "subscribe"

Waiting(t) == search[t].pc \in {"subscribe", "wait", "spin"}

Timeout(t) ==
  /\ Alive /\ Waiting(t)
  /\ ShowButton(Me(t), "new")
  /\ SearchEnds(t)
  /\ UNCHANGED <<storeVars, hub, memory, life, inner, handler, now>>

StopWaiting(t) ==
  /\ hub = "stopping" /\ Waiting(t)
  /\ SearchEnds(t)
  /\ UNCHANGED <<storeVars, hub, memory, life, pages, handler, now>>

SearchStep(t) ==
  \/ GetSession(t) \/ RunMatchFound(t) \/ RunMatchWait(t) \/ RunMatchFails(t) \/ ShowMatchFailed(t)
  \/ GetPartnerSession(t) \/ LookupPartner(t) \/ Notify(t) \/ NotifyFails(t)
  \/ ConnectCheckSelf(t) \/ ConnectCheckPartner(t)
  \/ ConnectSetSelf(t) \/ ConnectSetPartner(t)
  \/ ShowInnerSelf(t) \/ ShowInnerPartner(t)
  \/ ShowConnectingSelf(t) \/ ShowConnectingPartner(t)
  \/ Subscribe(t) \/ ReceiveNotify(t) \/ CheckNotified(t)
  \/ Timeout(t) \/ StopWaiting(t)

---------------------------------------------------------------------------
(* The message handlers of Hub.Start, and UnregisterClient.                *)

From(t) == handler[t].client

HandlerAt(t, pc) == Alive /\ handler[t].pc = pc

HandlerGo(t, pc) == handler' = [handler EXCEPT ![t].pc = pc]

HandlerEnds(t) == handler' = [handler EXCEPT ![t] = Handled]

IsKind(t, kinds) == handler[t].kind \in kinds

\* peer_connected first tells its sender, whatever has become of the chat.
PeerConnected(t) ==
  /\ HandlerAt(t, "start") /\ IsKind(t, {"peer_connected"})
  /\ ShowButton(From(t), "new")
  /\ HandlerGo(t, "check")
  /\ UNCHANGED <<storeVars, hub, memory, life, inner, search, now>>

\* "message.From.ChatPartner == nil": the first of two or three reads of it.
CheckPartner(t) ==
  /\ \/ HandlerAt(t, "start") /\ IsKind(t, {"typing"})
     \/ HandlerAt(t, "check")
  /\ IF chatPartner[From(t)] = NoOne THEN HandlerEnds(t) ELSE HandlerGo(t, "use")
  /\ UNCHANGED <<storeVars, hub, memory, life, pages, search, now>>

\* SendMessage through the ChatPartner of this read, not of the checked one.
UsePartner(t) ==
  /\ HandlerAt(t, "use")
  /\ chatPartner[From(t)] # NoOne
  /\ IF IsKind(t, {"typing"}) THEN HandlerEnds(t) ELSE HandlerGo(t, "useAgain")
  /\ UNCHANGED <<storeVars, hub, memory, life, pages, search, now>>

UsePartnerAgain(t) ==
  /\ HandlerAt(t, "useAgain")
  /\ chatPartner[From(t)] # NoOne
  /\ ShowButton(chatPartner[From(t)], "new")
  /\ HandlerEnds(t)
  /\ UNCHANGED <<storeVars, hub, memory, life, inner, search, now>>

\* A nil pointer in a goroutine that does not recover ends the process.
NilPartner(t) ==
  /\ HandlerAt(t, "use") \/ HandlerAt(t, "useAgain")
  /\ chatPartner[From(t)] = NoOne
  /\ hub' = "down"
  /\ UNCHANGED <<storeVars, memory, life, pages, search, handler, now>>

\* Where a handler goes once the chat is over, or was none.
AfterChat(kind) ==
  CASE kind = "new_connection" -> "getOwn"
    [] kind = "end_connection" -> "tellSelf"
    [] kind = "unregister"     -> "zrem"

StartEnd(t) ==
  /\ HandlerAt(t, "start") /\ IsKind(t, {"new_connection", "end_connection"})
  /\ HandlerGo(t, IF chatPartner[From(t)] # NoOne THEN "load"
                  ELSE AfterChat(handler[t].kind))
  /\ UNCHANGED <<storeVars, hub, memory, life, pages, search, now>>

\* UnregisterClient starts with the map, and always calls Disconnect.
DeleteClient(t) ==
  /\ HandlerAt(t, "delete")
  /\ hubClients' = hubClients \ {From(t)}
  /\ HandlerGo(t, "load")
  /\ UNCHANGED <<storeVars, hub, chatPartner, life, pages, search, now>>

\* Disconnect: read the partner, clear one side, clear the other.
DisconnectLoad(t) ==
  /\ HandlerAt(t, "load")
  /\ handler' = [handler EXCEPT ![t].pc = "clearOwn", ![t].partner = chatPartner[From(t)]]
  /\ UNCHANGED <<storeVars, hub, memory, life, pages, search, now>>

DisconnectOwn(t) ==
  /\ HandlerAt(t, "clearOwn")
  /\ chatPartner' = [chatPartner EXCEPT ![From(t)] = NoOne]
  /\ HandlerGo(t, IF handler[t].partner = NoOne THEN AfterChat(handler[t].kind)
                  ELSE "clearPartner")
  /\ UNCHANGED <<storeVars, hub, hubClients, life, pages, search, now>>

DisconnectPartner(t) ==
  /\ HandlerAt(t, "clearPartner")
  /\ chatPartner' = [chatPartner EXCEPT ![handler[t].partner] = NoOne]
  /\ HandlerGo(t, IF IsKind(t, {"unregister"}) THEN "clearAgain"
                  ELSE AfterChat(handler[t].kind))
  /\ UNCHANGED <<storeVars, hub, hubClients, life, pages, search, now>>

\* UnregisterClient clears the partner's side a second time.
UnregisterClearAgain(t) ==
  /\ HandlerAt(t, "clearAgain")
  /\ chatPartner' = [chatPartner EXCEPT ![handler[t].partner] = NoOne]
  /\ HandlerGo(t, "tellPartner")
  /\ UNCHANGED <<storeVars, hub, hubClients, life, pages, search, now>>

UnregisterTellPartner(t) ==
  /\ HandlerAt(t, "tellPartner")
  /\ ShowButton(handler[t].partner, "new")
  /\ HandlerGo(t, "zrem")
  /\ UNCHANGED <<storeVars, hub, memory, life, inner, search, now>>

\* Errors of the two Redis calls are logged and passed over.
UnregisterRemove(t) ==
  /\ HandlerAt(t, "zrem")
  /\ RemoveFromQueue(From(t)) \/ (MayFail /\ UNCHANGED storeVars)
  /\ HandlerGo(t, "del")
  /\ UNCHANGED <<hub, memory, life, pages, search, now>>

UnregisterDelete(t) ==
  /\ HandlerAt(t, "del")
  /\ DeleteSession(From(t)) \/ (MayFail /\ UNCHANGED storeVars)
  /\ HandlerEnds(t)
  /\ UNCHANGED <<hub, memory, life, pages, search, now>>

EndTellSelf(t) ==
  /\ HandlerAt(t, "tellSelf")
  /\ ShowButton(From(t), "new")
  /\ HandlerEnds(t)
  /\ UNCHANGED <<storeVars, hub, memory, life, inner, search, now>>

ClearTarget_SenderTwice(t) == From(t)

\* ClearPartnerFields, of the sender and then of the partner it left.
ClearTarget(t) ==
  IF handler[t].pc \in {"getOwn", "putOwn"} THEN From(t) ELSE handler[t].partner

AfterClear(t) ==
  IF handler[t].pc \in {"getOwn", "putOwn"} /\ handler[t].partner # NoOne
  THEN "getPartner" ELSE "search"

ClearGet(t) ==
  /\ HandlerAt(t, "getOwn") \/ HandlerAt(t, "getPartner")
  /\ \/ /\ HasSession(ClearTarget(t))
        /\ HandlerGo(t, IF handler[t].pc = "getOwn" THEN "putOwn" ELSE "putPartner")
     \/ ~HasSession(ClearTarget(t)) /\ HandlerGo(t, AfterClear(t))
     \/ MayFail /\ HandlerGo(t, AfterClear(t))
  /\ UNCHANGED <<storeVars, hub, memory, life, pages, search, now>>

ClearPut(t) ==
  /\ HandlerAt(t, "putOwn") \/ HandlerAt(t, "putPartner")
  /\ PutUnpaired(ClearTarget(t)) \/ (MayFail /\ UNCHANGED storeVars)
  /\ HandlerGo(t, AfterClear(t))
  /\ UNCHANGED <<hub, memory, life, pages, search, now>>

SearchAgain(t) ==
  /\ HandlerAt(t, "search")
  /\ ShowButton(From(t), "searching")
  /\ search' = [search EXCEPT ![t] = NewSearch(From(t))]
  /\ HandlerEnds(t)
  /\ UNCHANGED <<storeVars, hub, memory, life, inner, now>>

HandlerStep(t) ==
  \/ PeerConnected(t) \/ CheckPartner(t) \/ UsePartner(t) \/ UsePartnerAgain(t)
  \/ NilPartner(t) \/ StartEnd(t)
  \/ DeleteClient(t) \/ DisconnectLoad(t) \/ DisconnectOwn(t) \/ DisconnectPartner(t)
  \/ UnregisterClearAgain(t) \/ UnregisterTellPartner(t)
  \/ UnregisterRemove(t) \/ UnregisterDelete(t) \/ EndTellSelf(t)
  \/ ClearGet(t) \/ ClearPut(t) \/ SearchAgain(t)

---------------------------------------------------------------------------
(* The process, and time.                                                  *)

\* Hub.Stop: every connection is closed and the context cancelled.
Stop ==
  /\ MayStop
  /\ hub = "up"
  /\ hub' = "stopping"
  /\ UNCHANGED <<storeVars, memory, life, pages, search, handler, now>>

\* The process ends: at the end of serve(), or killed.
Exit ==
  /\ MayStop
  /\ Alive
  /\ hub' = "down"
  /\ UNCHANGED <<storeVars, memory, life, pages, search, handler, now>>

\* The container is started again: Redis keeps its keys, the hub has lost
\* its clients, and a page's cookie names nobody any more.
Restart ==
  /\ hub = "down"
  /\ hub' = "up"
  /\ hubClients' = {}
  /\ life' = [c \in Clients |-> IF life[c] = "new" THEN "new" ELSE "gone"]
  /\ chatPartner' = [c \in Clients |-> NoOne]
  /\ search' = [t \in Threads |->
                  IF search[t].pc = "off" THEN search[t] ELSE Searched]
  /\ handler' = [t \in Threads |->
                  IF handler[t].pc = "off" THEN handler[t] ELSE Handled]
  /\ UNCHANGED <<storeVars, pages, now>>

SessionExpires(c) ==
  /\ MayExpire
  /\ HasSession(c)
  /\ DeleteSession(c)
  /\ UNCHANGED <<hub, memory, life, pages, search, handler, now>>

QueueExpires(type) ==
  /\ MayExpire
  /\ DropQueue(type)
  /\ UNCHANGED <<hub, memory, life, pages, search, handler, now>>

Tick ==
  /\ now < MaxClock
  /\ now' = now + 1
  /\ UNCHANGED <<storeVars, hub, memory, life, pages, search, handler>>

Next ==
  \/ \E c \in Clients : Register(c) \/ ServeWs(c) \/ Leave(c) \/ SessionExpires(c)
  \/ \E m \in Messages, c \in Senders, kind \in Kinds : Send(m, c, kind)
  \/ \E t \in Threads : SearchStep(t) \/ HandlerStep(t)
  \/ \E type \in {"text", "video"} : QueueExpires(type)
  \/ Stop \/ Exit \/ Restart \/ Tick

Spec == Init /\ [][Next]_hubVars

(***************************************************************************)
(* Goroutines are scheduled, Redis calls return and timers fire.  A process *)
(* that is down is started again (compose.yaml, restart: unless-stopped).   *)
(* Nobody has to connect, leave or send.                                    *)
(***************************************************************************)
Fairness ==
  /\ \A t \in Threads : WF_hubVars(SearchStep(t)) /\ WF_hubVars(HandlerStep(t))
  /\ WF_hubVars(Restart)

FairSpec == Spec /\ Fairness

---------------------------------------------------------------------------
(* Steps of a search at which its partner is known, and of a handler.      *)
Partnered ==
  {"partner", "lookup", "notify", "checkSelf", "checkPartner", "setSelf", "setPartner",
   "innerSelf", "innerPartner", "buttonSelf", "buttonPartner", "notified"}

SearchRecord ==
  [pc : Partnered \cup
          {"off", "get", "match", "matchFailed", "subscribe", "wait", "spin", "done"},
   client : Clients \cup {NoOne}, partner : Clients \cup {NoOne},
   told : Clients \cup {NoOne}, inbox : Clients \cup {NoOne, Absent}, score : Nat]

Ending == {"delete", "load", "clearOwn", "clearPartner"}

Leaving == {"clearPartner", "clearAgain", "tellPartner", "getPartner", "putPartner"}

HandlerSteps ==
  Ending \cup Leaving \cup
    {"off", "start", "check", "use", "useAgain", "zrem", "del", "tellSelf",
     "getOwn", "putOwn", "search", "done"}

HandlerRecord ==
  [pc : HandlerSteps, kind : Kinds \cup {"none", "unregister"},
   client : Clients \cup {NoOne}, partner : Clients \cup {NoOne}]

\* A goroutine that is at a step of its code has the locals of that step.
SearchOK(s) ==
  /\ s \in SearchRecord
  /\ s.pc \notin {"off", "done"} => s.client \in Clients
  /\ s.pc \in Partnered => s.partner \in Clients
  /\ s.pc # "wait" => s.inbox = Absent
  /\ s.score <= now

HandlerOK(h) ==
  /\ h \in HandlerRecord
  /\ h.pc \notin {"off", "done"} => h.client \in Clients
  /\ h.pc \in Ending => h.kind \in {"new_connection", "end_connection", "unregister"}
  /\ h.pc \in Leaving => h.partner \in Clients

\* Every goroutine is at a step of its own code, with the locals of that step.
HubTypeOK ==
  /\ StoreTypeOK
  /\ hub \in {"up", "stopping", "down"}
  /\ hubClients \subseteq Clients
  /\ life \in [Clients -> {"new", "registered", "online", "gone"}]
  /\ chatPartner \in [Clients -> Clients \cup {NoOne}]
  /\ button \in [Clients -> {"new", "searching", "connecting"}]
  /\ inner \in [Clients -> Threads \cup {NoOne}]
  /\ search \in [Threads -> SearchRecord]
  /\ handler \in [Threads -> HandlerRecord]
  /\ \A t \in Threads : SearchOK(search[t]) /\ HandlerOK(handler[t])
  /\ now \in Nat

(***************************************************************************)
(* Nobody is ever put into a chat the matching rules forbid: whatever stale *)
(* session, late or lost notification, overlapping search or late clear a   *)
(* search went through, a ChatPartner is of the same chat type and shares   *)
(* an interest, or both clients are non-strict.                             *)
(***************************************************************************)
PairsObeyRules ==
  \A c \in Clients : chatPartner[c] # NoOne => Compatible(c, chatPartner[c])

(***************************************************************************)
(* All the hub does to Redis, from any number of goroutines and across a    *)
(* crash, is what MatchQueue allows: so its invariants hold of the store.   *)
(***************************************************************************)
Clearing ==
  {handler[t].client : t \in {u \in Threads : handler[u].pc = "putOwn"}}
    \cup {handler[t].partner : t \in {u \in Threads : handler[u].pc = "putPartner"}}

Store == INSTANCE MatchQueue WITH
  registered <- {c \in Clients : life[c] # "new"},
  clearing   <- Clearing

ImplementsMatchQueue == Store!Spec

(***************************************************************************)
(* A search hears of a match as Mailbox promises: once, only of what was    *)
(* published for its own client while it was subscribed, and nothing after  *)
(* a notification without a room.  Notifier shows the same of the           *)
(* goroutine and the channels of SubscribeMatch.                            *)
(***************************************************************************)
Box == INSTANCE Mailbox WITH
  Boxes   <- Threads,
  Owners  <- Clients,
  MayLose <- MayFail,
  box     <- [t \in Threads |-> IF Waiting(t) THEN search[t].pc ELSE "off"],
  owner   <- [t \in Threads |-> IF Waiting(t) THEN Me(t) ELSE NoOne],
  inbox   <- [t \in Threads |-> search[t].inbox]

ImplementsMailbox == Box!Spec

(***************************************************************************)
(* Every search ends, whatever fails or whoever leaves meanwhile: also one  *)
(* whose notification is lost, whose partner vanishes, or that spins on the *)
(* closed notification channel (hub.go:330-359).                            *)
(***************************************************************************)
EverySearchEnds ==
  \A t \in Threads : (search[t].pc \notin {"off", "done"}) ~> (search[t].pc = "done")

---------------------------------------------------------------------------
\* No goroutine has anything left to do.
AtRest ==
  \A t \in Threads :
    search[t].pc \in {"off", "done"} /\ handler[t].pc \in {"off", "done"}

\* No message has been handled and nobody has left, since the start.
NobodyAsks == \A t \in Threads : handler[t].pc = "off"

(***************************************************************************)
(* A first chat is never taken over: a ChatPartner that is set becomes nil  *)
(* before it becomes someone else.  That is what the two checks of          *)
(* Client.Connect are for (client.go:170-176); they suffice as long as      *)
(* every client has one search.                                             *)
(***************************************************************************)
FirstChatNotTakenOver ==
  [][NobodyAsks =>
       \A c \in Clients :
         chatPartner[c] # NoOne => chatPartner'[c] \in {chatPartner[c], NoOne}]_hubVars

(***************************************************************************)
(* First chats come about: once all searches are over, two online clients   *)
(* the rules allow to chat are not both without a partner, and partners are *)
(* partners of each other.  Whether the one that matched or the one that    *)
(* was notified connects them, before or after a timeout, does not matter.  *)
(***************************************************************************)
FirstChatsComeAbout ==
  AtRest /\ NobodyAsks =>
    /\ \A a, b \in Clients :
         (/\ life[a] = "online" /\ chatPartner[a] = NoOne
          /\ life[b] = "online" /\ chatPartner[b] = NoOne)
         => ~Compatible(a, b)
    /\ \A c \in Clients :
         chatPartner[c] # NoOne => chatPartner[chatPartner[c]] = c

(***************************************************************************)
(* Partners end up with the two ends of the same pair of peer ids, without  *)
(* which their browsers cannot find each other: not both of them connect    *)
(* the pair (hub.go:336-339).                                               *)
(***************************************************************************)
PartnersShareIds ==
  AtRest => \A c \in Clients : chatPartner[c] # NoOne => inner[c] = inner[chatPartner[c]]

(***************************************************************************)
(* No message takes the process down: a partner is used only after a check  *)
(* that there is one (hub.go:168-171, 187-190).                             *)
(***************************************************************************)
ProcessSurvives == hub # "down"

(***************************************************************************)
(* A page that says "Searching..." (components.templ:94), with its button   *)
(* disabled, belongs to a client somebody is searching for, or that has     *)
(* been given a partner meanwhile.                                          *)
(***************************************************************************)
SearchingMeansSearching ==
  \A c \in Clients :
    button[c] = "searching" => chatPartner[c] # NoOne \/ \E t \in Threads : Me(t) = c

=============================================================================
