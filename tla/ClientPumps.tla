----------------------------- MODULE ClientPumps -----------------------------
(***************************************************************************)
(* From a form on the home page to the two pumps of a WebSocket, and back:  *)
(* chatPost, chat and ServeWs (src/cmd/web/handlers.go) behind their        *)
(* middleware, ReadPump, WritePump and SendMessage                          *)
(* (src/internal/matchmaking/client.go), the hub's loop, what its handlers  *)
(* send and write to sessions, UnregisterClient, and Hub.Stop (hub.go).     *)
(*                                                                          *)
(* A tab opens one page and one WebSocket; the tabs of a browser share its  *)
(* cookie.  A reload of the page and a reconnect of its WebSocket are a     *)
(* second tab.  A client is named after the tab that posted its form.       *)
(* Whom a handler finds as its sender's partner is left open: Hub says it.  *)
(***************************************************************************)
EXTENDS ChatForm, FiniteSets

CONSTANTS
  Tabs,
  Browsers,
  Sharings,     \* the ways tabs may share browsers: functions from Tabs to Browsers
  Forms,        \* the forms that may be posted
  Handlers,     \* handlers that may run at once (the code has no bound)
  SendCap,      \* capacity of Client.send (256)
  ReceiveCap,   \* capacity of Hub.receive (256)
  MayFail,      \* Redis calls of handlers and of UnregisterClient may fail
  NoOne

ASSUME PumpsAssumption ==
  /\ IsFiniteSet(Tabs)
  /\ Sharings \subseteq [Tabs -> Browsers]
  /\ SendCap \in Nat \ {0} /\ ReceiveCap \in Nat \ {0}
  /\ MayFail \in BOOLEAN
  /\ NoOne \notin Tabs

VARIABLES
  hub,        \* "up"; Hub.Stop: "closing", "clients", "handlers"; "stopped"; "down"
  toClose,    \* clients whose connections Stop has yet to close
  loop,       \* the goroutine of Hub.Start: "select", "drain", "returned"
  receive,    \* Hub.receive: the clients the messages are from
  handler,    \* what each running handler has still to do, and to whom
  hubClients, \* Hub.clients
  clientCount,
  sessions,   \* clients that have a session in Redis
  browser,    \* the browser of a tab
  cookie,     \* clientSessionId of a browser
  stage,      \* how far a tab has come
  link,       \* its WebSocket: "none", "open", "gone" (the other end), "closed"
  client,     \* the client ServeWs found for it
  conn,       \* Client.Conn, named after its tab
  sendq,      \* length of Client.send
  done,       \* Client.done is closed
  reader,     \* ReadPump of a tab's WebSocket
  writer      \* WritePump of a tab's WebSocket

web == <<browser, cookie, stage, client>>
clientVars == <<conn, sendq, done>>
hubState == <<hub, toClose, loop, receive, handler>>
registry == <<hubClients, clientCount, sessions>>
pumpVars == <<hubState, registry, web, link, clientVars, reader, writer>>

NoReader == [pc |-> "off", on |-> NoOne, partner |-> NoOne]

Init ==
  /\ hub = "up" /\ toClose = {} /\ loop = "select" /\ receive = <<>>
  /\ handler = [h \in Handlers |-> <<>>]
  /\ hubClients = {} /\ clientCount = 0 /\ sessions = {}
  /\ browser \in Sharings
  /\ cookie = [b \in Browsers |-> NoOne]
  /\ stage = [k \in Tabs |-> "home"]
  /\ link = [k \in Tabs |-> "none"]
  /\ client = [k \in Tabs |-> NoOne]
  /\ conn = [c \in Tabs |-> NoOne]
  /\ sendq = [c \in Tabs |-> 0]
  /\ done = [c \in Tabs |-> FALSE]
  /\ reader = [k \in Tabs |-> NoReader]
  /\ writer = [k \in Tabs |-> "off"]

Alive == hub # "down"

\* Hub.ctx is done.
Cancelled == hub \in {"clients", "handlers", "stopped"}

Cookie(k) == cookie[browser[k]]

---------------------------------------------------------------------------
(* HTTP.                                                                   *)

AtStage(k, s) == Alive /\ stage[k] = s

StageGo(k, s) == stage' = [stage EXCEPT ![k] = s]

\* POST /chat/{type}: a form that does not validate is shown again.  A tab
\* makes one client.
ChatPost(k, form) ==
  /\ AtStage(k, "home") /\ k \notin sessions /\ conn[k] = NoOne
  /\ Valid(form)
  /\ sessions' = sessions \cup {k}
  /\ hubClients' = hubClients \cup {k}
  /\ cookie' = [cookie EXCEPT ![browser[k]] = k]
  /\ UNCHANGED <<hubState, clientCount, browser, stage, client, link, clientVars, reader,
                 writer>>

\* authenticate and requireAuthentication: the cookie names a client of the hub;
\* who has none is sent back home.
Authenticated(k) == Cookie(k) \in hubClients

\* GET /chat, after a form or without one.
Chat(k) ==
  /\ AtStage(k, "home") /\ Authenticated(k)
  /\ StageGo(k, "page")
  /\ UNCHANGED <<hubState, registry, browser, cookie, client, link, clientVars, reader, writer>>

\* GET /chat-ws, up to the upgrade.
Upgrade(k) ==
  /\ AtStage(k, "page") /\ Authenticated(k)
  /\ StageGo(k, "upgraded")
  /\ link' = [link EXCEPT ![k] = "open"]
  /\ UNCHANGED <<hubState, registry, browser, cookie, client, clientVars, reader, writer>>

\* The client is looked up again; if it has gone, the WebSocket stays open.
\* Its search starts here: Hub has it.
ServeWs(k) ==
  /\ AtStage(k, "upgraded")
  /\ \/ /\ ~Authenticated(k)
        /\ StageGo(k, "orphan")
        /\ UNCHANGED <<client, conn>>
     \/ /\ Authenticated(k)
        /\ StageGo(k, "starting")
        /\ client' = [client EXCEPT ![k] = Cookie(k)]
        /\ conn' = [conn EXCEPT ![Cookie(k)] = k]
  /\ UNCHANGED <<hubState, registry, browser, cookie, link, sendq, done, reader, writer>>

ClientConnected_NotCounted(k) ==
  /\ AtStage(k, "starting")
  /\ writer' = [writer EXCEPT ![k] = "select"]
  /\ reader' = [reader EXCEPT ![k].pc = "check"]
  /\ StageGo(k, "on")
  /\ UNCHANGED <<hubState, registry, browser, cookie, client, link, clientVars>>

\* ClientConnected starts the two pumps.
ClientConnected(k) ==
  /\ AtStage(k, "starting")
  /\ clientCount' = clientCount + 1
  /\ writer' = [writer EXCEPT ![k] = "select"]
  /\ reader' = [reader EXCEPT ![k].pc = "check"]
  /\ StageGo(k, "on")
  /\ UNCHANGED <<hubState, hubClients, sessions, browser, cookie, client, link, clientVars>>

HttpStep(k) == ServeWs(k) \/ ClientConnected(k)

\* The page is closed, or the network fails.
LinkLost(k) ==
  /\ Alive
  /\ link[k] = "open"
  /\ link' = [link EXCEPT ![k] = "gone"]
  /\ UNCHANGED <<hubState, registry, web, clientVars, reader, writer>>

---------------------------------------------------------------------------
(* WritePump.                                                              *)

WriterAt(k, pc) == Alive /\ writer[k] = pc

WriterGo(k, pc) == writer' = [writer EXCEPT ![k] = pc]

WriterHearsStop(k) ==
  /\ WriterAt(k, "select") /\ Cancelled
  /\ WriterGo(k, "closeDone")
  /\ UNCHANGED <<hubState, registry, web, link, clientVars, reader>>

\* A write to an end that has gone may still be buffered.
WriteMessage(k) ==
  /\ WriterAt(k, "select")
  /\ sendq[client[k]] > 0
  /\ sendq' = [sendq EXCEPT ![client[k]] = @ - 1]
  /\ \/ link[conn[client[k]]] \in {"open", "gone"} /\ UNCHANGED writer
     \/ link[conn[client[k]]] \in {"gone", "closed"} /\ WriterGo(k, "closeDone")
  /\ UNCHANGED <<hubState, registry, web, link, conn, done, reader>>

\* The ticker's ping finds the connection broken.
PingFails(k) ==
  /\ WriterAt(k, "select")
  /\ link[conn[client[k]]] # "open"
  /\ WriterGo(k, "closeDone")
  /\ UNCHANGED <<hubState, registry, web, link, clientVars, reader>>

(***************************************************************************)
(* The deferred function: close(done), Conn.Close(), and only then          *)
(* recover().  Closing a closed channel panics before the recover.          *)
(***************************************************************************)
CloseDone(k) ==
  /\ WriterAt(k, "closeDone")
  /\ ~done[client[k]]
  /\ done' = [done EXCEPT ![client[k]] = TRUE]
  /\ WriterGo(k, "closeConn")
  /\ UNCHANGED <<hubState, registry, web, link, conn, sendq, reader>>

CloseDoneTwice(k) ==
  /\ WriterAt(k, "closeDone")
  /\ done[client[k]]
  /\ hub' = "down"
  /\ UNCHANGED <<toClose, loop, receive, handler, registry, web, link, clientVars, reader,
                 writer>>

CloseConn_LeftOpen(k) ==
  /\ WriterAt(k, "closeConn")
  /\ WriterGo(k, "returned")
  /\ UNCHANGED <<hubState, registry, web, link, clientVars, reader>>

CloseConn(k) ==
  /\ WriterAt(k, "closeConn")
  /\ link' = [link EXCEPT ![conn[client[k]]] = "closed"]
  /\ WriterGo(k, "returned")
  /\ UNCHANGED <<hubState, registry, web, clientVars, reader>>

WriterStep(k) ==
  \/ WriterHearsStop(k) \/ WriteMessage(k) \/ PingFails(k)
  \/ CloseDone(k) \/ CloseDoneTwice(k) \/ CloseConn(k)

SendMessage_NoDone(c) ==
  /\ sendq[c] < SendCap
  /\ sendq' = [sendq EXCEPT ![c] = @ + 1]

\* SendMessage: into the channel, or to nobody once the pump has gone.
SendMessage(c) ==
  \/ sendq[c] < SendCap /\ sendq' = [sendq EXCEPT ![c] = @ + 1]
  \/ done[c] /\ UNCHANGED sendq

---------------------------------------------------------------------------
(* ReadPump, and its deferred UnregisterClient.                            *)

\* Whom ChatPartner may name: somebody who has searched, hence been in ServeWs.
Partners(c) == {p \in Tabs \ {c} : conn[p] # NoOne}

ReaderAt(k, pc) == Alive /\ reader[k].pc = pc

ReaderGo(k, pc) == reader' = [reader EXCEPT ![k].pc = pc]

\* ReadJSON is called on the connection the client has at that moment.
ReaderChecks(k) ==
  /\ ReaderAt(k, "check")
  /\ IF Cancelled THEN ReaderGo(k, "delete")
     ELSE reader' = [reader EXCEPT ![k].pc = "read", ![k].on = conn[client[k]]]
  /\ UNCHANGED <<hubState, registry, web, link, clientVars, writer>>

ReadMessage(k) ==
  /\ ReaderAt(k, "read")
  /\ link[reader[k].on] = "open"
  /\ reader' = [reader EXCEPT ![k].pc = "post", ![k].on = NoOne]
  /\ UNCHANGED <<hubState, registry, web, link, clientVars, writer>>

\* "client.Hub.receive <- message" watches nothing else.
PostMessage(k) ==
  /\ ReaderAt(k, "post")
  /\ Len(receive) < ReceiveCap
  /\ receive' = Append(receive, client[k])
  /\ ReaderGo(k, "check")
  /\ UNCHANGED <<hub, toClose, loop, handler, registry, web, link, clientVars, writer>>

ReadFails_NoDefer(k) ==
  /\ ReaderAt(k, "read")
  /\ reader' = [reader EXCEPT ![k].pc = "returned", ![k].on = NoOne]
  /\ UNCHANGED <<hubState, registry, web, link, clientVars, writer>>

\* The connection is closed, its read deadline passes without a pong, or what
\* it brings is no JSON or too long: then it stays open behind ReadPump.
ReadFails(k) ==
  /\ ReaderAt(k, "read")
  /\ reader' = [reader EXCEPT ![k].pc = "delete", ![k].on = NoOne]
  /\ UNCHANGED <<hubState, registry, web, link, clientVars, writer>>

ReadMustFail(k) == ReadFails(k) /\ link[reader[k].on] # "open"

DeleteClient_ClosesDone(k) ==
  /\ ReaderAt(k, "delete")
  /\ hubClients' = hubClients \ {client[k]}
  /\ done' = [done EXCEPT ![client[k]] = TRUE]
  /\ ReaderGo(k, "tellSelf")
  /\ UNCHANGED <<hubState, clientCount, sessions, web, link, conn, sendq, writer>>

DeleteClient(k) ==
  /\ ReaderAt(k, "delete")
  /\ hubClients' = hubClients \ {client[k]}
  /\ ReaderGo(k, "tellSelf")
  /\ UNCHANGED <<hubState, clientCount, sessions, web, link, clientVars, writer>>

TellSelf(k) ==
  /\ ReaderAt(k, "tellSelf")
  /\ SendMessage(client[k])
  /\ \E p \in Partners(client[k]) \cup {NoOne} :
       reader' = [reader EXCEPT ![k].pc = IF p = NoOne THEN "redis" ELSE "tellPartner",
                                ![k].partner = p]
  /\ UNCHANGED <<hubState, registry, web, link, conn, done, writer>>

TellPartner(k) ==
  /\ ReaderAt(k, "tellPartner")
  /\ SendMessage(reader[k].partner)
  /\ reader' = [reader EXCEPT ![k].pc = "redis", ![k].partner = NoOne]
  /\ UNCHANGED <<hubState, registry, web, link, conn, done, writer>>

\* The count, and the session in Redis: that its DEL fails is only logged.
DropSession(k) ==
  /\ ReaderAt(k, "redis")
  /\ clientCount' = clientCount - 1
  /\ \/ sessions' = sessions \ {client[k]}
     \/ MayFail /\ UNCHANGED sessions
  /\ ReaderGo(k, "returned")
  /\ UNCHANGED <<hubState, hubClients, web, link, clientVars, writer>>

ReaderStep(k) ==
  \/ ReaderChecks(k) \/ PostMessage(k) \/ ReadMustFail(k)
  \/ DeleteClient(k) \/ TellSelf(k) \/ TellPartner(k) \/ DropSession(k)

---------------------------------------------------------------------------
(* The hub's loop and its handlers.                                        *)

LoopStops ==
  /\ Alive /\ loop = "select" /\ Cancelled
  /\ loop' = "drain"
  /\ UNCHANGED <<hub, toClose, receive, handler, registry, web, link, clientVars, reader,
                 writer>>

To(do, c) == [do |-> do, to |-> c]

Tell(c) == To("send", c)

(***************************************************************************)
(* What a handler does: typing tells the partner, peer_connected the sender *)
(* and then the partner, end_connection the partner and then the sender,    *)
(* and new_connection clears their sessions in between.                     *)
(***************************************************************************)
Targets(from) ==
  {<<>>, <<Tell(from)>>, <<To("clear", from), Tell(from)>>}
    \cup UNION {{<<Tell(p)>>, <<Tell(from), Tell(p)>>, <<Tell(p), Tell(from)>>,
                 <<Tell(p), To("clear", from), To("clear", p), Tell(from)>>}
                : p \in Partners(from)}

\* A goroutine for the message.
LoopTakes ==
  /\ Alive /\ loop = "select"
  /\ receive # <<>>
  /\ \E h \in Handlers, to \in Targets(Head(receive)) :
       /\ handler[h] = <<>>
       /\ handler' = [handler EXCEPT ![h] = to]
  /\ receive' = Tail(receive)
  /\ UNCHANGED <<hub, toClose, loop, registry, web, link, clientVars, reader, writer>>

Doing(h, do) == Alive /\ handler[h] # <<>> /\ Head(handler[h]).do = do

Target(h) == Head(handler[h]).to

Done(h) == handler' = [handler EXCEPT ![h] = Tail(@)]

HandlerSends(h) ==
  /\ Doing(h, "send")
  /\ SendMessage(Target(h))
  /\ Done(h)
  /\ UNCHANGED <<hub, toClose, loop, receive, registry, web, link, conn, done,
                 reader, writer>>

ClearGet_NoErrorCheck(h) ==
  /\ Doing(h, "clear")
  /\ handler' = [handler EXCEPT ![h][1].do = "put"]
  /\ UNCHANGED <<hub, toClose, loop, receive, registry, web, link, clientVars, reader, writer>>

\* ClearPartnerFields reads the session; without one, it is over.
ClearGet(h) ==
  /\ Doing(h, "clear")
  /\ \/ Target(h) \in sessions /\ handler' = [handler EXCEPT ![h][1].do = "put"]
     \/ (Target(h) \notin sessions \/ MayFail) /\ Done(h)
  /\ UNCHANGED <<hub, toClose, loop, receive, registry, web, link, clientVars, reader, writer>>

\* It writes the session, whether it is still there or not.
ClearPut(h) ==
  /\ Doing(h, "put")
  /\ \/ sessions' = sessions \cup {Target(h)}
     \/ MayFail /\ UNCHANGED sessions
  /\ Done(h)
  /\ UNCHANGED <<hub, toClose, loop, receive, hubClients, clientCount, web, link, clientVars,
                 reader, writer>>

HandlerStep(h) == HandlerSends(h) \/ ClearGet(h) \/ ClearPut(h)

HandlersDone == \A h \in Handlers : handler[h] = <<>>

\* handlerWg.Wait() of the loop.
LoopReturns ==
  /\ Alive /\ loop = "drain" /\ HandlersDone
  /\ loop' = "returned"
  /\ UNCHANGED <<hub, toClose, receive, handler, registry, web, link, clientVars, reader,
                 writer>>

---------------------------------------------------------------------------
(* Hub.Stop, called on SIGINT or SIGTERM.                                  *)

HubGo(from, to) ==
  /\ hub = from /\ hub' = to
  /\ UNCHANGED <<loop, receive, handler, registry, web, clientVars, reader, writer>>

Stop == HubGo("up", "closing") /\ toClose' = hubClients /\ UNCHANGED link

\* A client that arrives during the Range may be missed.
StopCloses(c) ==
  /\ c \in toClose
  /\ HubGo("closing", "closing")
  /\ toClose' = toClose \ {c}
  /\ link' = IF conn[c] = NoOne THEN link ELSE [link EXCEPT ![conn[c]] = "closed"]

Cancel == toClose = {} /\ HubGo("closing", "clients") /\ UNCHANGED <<toClose, link>>

PumpsReturned ==
  \A k \in Tabs : reader[k].pc \in {"off", "returned"} /\ writer[k] \in {"off", "returned"}

ClientsWaited == PumpsReturned /\ HubGo("clients", "handlers") /\ UNCHANGED <<toClose, link>>

HandlersWaited == HandlersDone /\ HubGo("handlers", "stopped") /\ UNCHANGED <<toClose, link>>

\* After Stop the HTTP server shuts down, and the process ends.
Exit == HubGo("stopped", "down") /\ UNCHANGED <<toClose, link>>

StopStep ==
  (\E c \in Tabs : StopCloses(c)) \/ Cancel \/ ClientsWaited \/ HandlersWaited

LoopStep == LoopStops \/ LoopTakes \/ LoopReturns

Next ==
  \/ \E k \in Tabs :
       \/ \E form \in Forms : ChatPost(k, form)
       \/ Chat(k) \/ Upgrade(k) \/ HttpStep(k) \/ LinkLost(k) \/ ReadMessage(k)
       \/ ReadFails(k) \/ WriterStep(k) \/ ReaderStep(k)
  \/ \E h \in Handlers : HandlerStep(h)
  \/ LoopStep \/ Stop \/ StopStep \/ Exit

Spec == Init /\ [][Next]_pumpVars

(***************************************************************************)
(* Goroutines run, timers fire, and a select whose case stays ready takes   *)
(* it in the end.  Nobody has to visit, write, leave or stop the process,   *)
(* and no read of an open connection has to fail.                           *)
(***************************************************************************)
Fairness ==
  /\ \A k \in Tabs :
       /\ WF_pumpVars(HttpStep(k))
       /\ WF_pumpVars(WriterStep(k)) /\ WF_pumpVars(ReaderStep(k))
  /\ \A h \in Handlers : WF_pumpVars(HandlerStep(h))
  /\ WF_pumpVars(LoopStep) /\ WF_pumpVars(StopStep)

FairSpec == Spec /\ Fairness

---------------------------------------------------------------------------
Readers ==
  [pc : {"off", "check", "read", "post", "delete", "tellSelf", "tellPartner", "redis",
         "returned"},
   on : Tabs \cup {NoOne}, partner : Tabs \cup {NoOne}]

Work == [do : {"send", "clear", "put"}, to : Tabs]

HubTyped ==
  /\ hub \in {"up", "closing", "clients", "handlers", "stopped", "down"}
  /\ toClose \subseteq Tabs
  /\ loop \in {"select", "drain", "returned"}
  /\ receive \in Seq(Tabs) /\ Len(receive) <= ReceiveCap
  /\ handler \in [Handlers -> Seq(Work)]
  /\ hubClients \subseteq Tabs /\ sessions \subseteq Tabs

TabsTyped ==
  /\ browser \in Sharings
  /\ cookie \in [Browsers -> Tabs \cup {NoOne}]
  /\ stage \in [Tabs -> {"home", "page", "upgraded", "orphan", "starting", "on"}]
  /\ link \in [Tabs -> {"none", "open", "gone", "closed"}]
  /\ client \in [Tabs -> Tabs \cup {NoOne}]
  /\ conn \in [Tabs -> Tabs \cup {NoOne}]
  /\ sendq \in [Tabs -> 0..SendCap]
  /\ done \in [Tabs -> BOOLEAN]
  /\ reader \in [Tabs -> Readers]
  /\ writer \in [Tabs -> {"off", "select", "closeDone", "closeConn", "returned"}]

\* The goroutines of a tab and the locals of their steps.
PumpsPaired ==
  \A k \in Tabs :
    /\ stage[k] \in {"starting", "on"} <=> client[k] # NoOne
    /\ client[k] # NoOne => conn[client[k]] # NoOne
    /\ writer[k] = "off" <=> stage[k] # "on"
    /\ reader[k].pc = "off" <=> stage[k] # "on"
    /\ reader[k].pc = "read" <=> reader[k].on # NoOne
    /\ reader[k].pc = "tellPartner" <=> reader[k].partner # NoOne

\* The tabs whose ReadPump has yet to return.
Running == {k \in Tabs : reader[k].pc \notin {"off", "returned"}}

\* Every pump has a client and a connection, and the counter counts the
\* WebSockets whose ReadPump has yet to return.
PumpsTypeOK ==
  HubTyped /\ TabsTyped /\ PumpsPaired /\ clientCount = Cardinality(Running)

(***************************************************************************)
(* No pump takes the process down: WritePump recovers from its panics       *)
(* (client.go:116-118).                                                     *)
(***************************************************************************)
PumpsSurvive ==
  \A k \in Tabs : writer[k] = "closeDone" => ~done[client[k]]

(***************************************************************************)
(* Where a WritePump is about to close a done that is closed, the WritePump *)
(* of another WebSocket of the same client has closed it (client.go:113,    *)
(* handlers.go:109-121): nothing else can.                                  *)
(***************************************************************************)
ClosedByAnotherSocket ==
  \A k \in Tabs : writer[k] = "closeDone" /\ done[client[k]] =>
    \E j \in Tabs \ {k} : client[j] = client[k] /\ writer[j] \in {"closeConn", "returned"}

(***************************************************************************)
(* A client that sends is never kept waiting for ever by one that does not  *)
(* read: SendMessage waits on done beside the channel (client.go:154-159).  *)
(***************************************************************************)
HandlersReturn ==
  \A h \in Handlers : handler[h] # <<>> ~> (handler[h] = <<>> \/ ~Alive)

(***************************************************************************)
(* A client whose page is gone is unregistered, whoever notices first: the  *)
(* ping, a write or the read deadline.  Unless its browser has opened       *)
(* another WebSocket, or the process is being stopped.                      *)
(***************************************************************************)
GoneIsForgotten ==
  \A k \in Tabs :
    (link[k] = "gone" /\ client[k] # NoOne) ~>
      \/ client[k] \notin hubClients /\ reader[k].pc = "returned"
      \/ client[k] # NoOne /\ conn[client[k]] # k
      \/ hub # "up"

\* A client that has had its WebSocket is in neither the map nor Redis, and no
\* ClearPartnerFields is between its GET and its SET.
Forgotten(c) ==
  /\ conn[c] # NoOne /\ c \notin hubClients \cup sessions
  /\ \A h \in Handlers : \A i \in DOMAIN handler[h] : handler[h][i] # To("put", c)

(***************************************************************************)
(* A client that is forgotten stays so: messages of it, or of its partner,  *)
(* that are handled after its unregistration do not bring its session back  *)
(* (session.go:62-65).  Only a clear that has read it before can.           *)
(***************************************************************************)
ForgottenStays == [][\A c \in Tabs : Forgotten(c) => Forgotten(c)']_pumpVars

(***************************************************************************)
(* Stop comes to an end, whatever the pumps and handlers are doing: unless  *)
(* a ReadPump waits to post a message to a full channel that the loop has   *)
(* stopped to read (client.go:104, hub.go:159-161).                         *)
(***************************************************************************)
PostStuck ==
  /\ loop # "select" /\ Len(receive) = ReceiveCap
  /\ \E k \in Tabs : reader[k].pc = "post"

StopReturns ==
  (hub = "closing") ~> (hub \in {"stopped", "down"} \/ PostStuck)

(***************************************************************************)
(* "Redis operations use context.Background() so cleanup completes during   *)
(* shutdown" (hub.go:38): when clientWg.Wait returns, Redis has no session  *)
(* of a client whose ReadPump has started by then.                          *)
(***************************************************************************)
CleanupCompletes ==
  [][hub = "clients" /\ hub' = "handlers" =>
       \A k \in Tabs : reader[k].pc # "off" => client[k] \notin sessions]_pumpVars

=============================================================================
