-------------------------- MODULE ClientPumpsProofs --------------------------
(* What holds of the pumps for any tabs, browsers, forms and capacities.    *)
EXTENDS ClientPumps, FiniteSetTheorems, TLAPS

---------------------------------------------------------------------------
(* Types.                                                                  *)

Types == HubTyped /\ TabsTyped /\ PumpsPaired

LEMMA InitTypes == Init => Types
BY PumpsAssumption
   DEF Init, Types, HubTyped, TabsTyped, PumpsPaired, NoReader, Readers

\* The cookie of a tab is a client or nobody.
LEMMA CookieOK == ASSUME Types, NEW k \in Tabs PROVE Cookie(k) \in Tabs \cup {NoOne}
BY PumpsAssumption DEF Types, TabsTyped, Cookie

\* A send leaves the buffer within its capacity.
LEMMA SendOK ==
  ASSUME Types, NEW c \in Tabs, SendMessage(c)
  PROVE  sendq' \in [Tabs -> 0..SendCap]
BY PumpsAssumption DEF Types, TabsTyped, SendMessage

\* HTTP.
LEMMA WebTypes ==
  ASSUME Types, NEW k \in Tabs,
         (\E form \in Forms : ChatPost(k, form)) \/ Chat(k) \/ Upgrade(k) \/ HttpStep(k)
  PROVE  Types'
<1>0. Cookie(k) \in Tabs \cup {NoOne}
  BY CookieOK
<1>1. ASSUME NEW form \in Forms, ChatPost(k, form) PROVE Types'
  <2>1. HubTyped' BY <1>1 DEF ChatPost, Types, HubTyped, hubState
  <2>2. TabsTyped' /\ PumpsPaired'
    BY <1>1, PumpsAssumption
       DEF ChatPost, Types, TabsTyped, PumpsPaired, hubState, clientVars
  <2> QED BY <2>1, <2>2 DEF Types
<1>2. CASE Chat(k)
  <2>1. HubTyped' BY <1>2 DEF Chat, Types, HubTyped, hubState, registry
  <2>2. TabsTyped' /\ PumpsPaired'
    BY <1>2 DEF Chat, AtStage, StageGo, Types, TabsTyped, PumpsPaired, clientVars
  <2> QED BY <2>1, <2>2 DEF Types
<1>3. CASE Upgrade(k)
  <2>1. HubTyped' BY <1>3 DEF Upgrade, Types, HubTyped, hubState, registry
  <2>2. TabsTyped' /\ PumpsPaired'
    BY <1>3 DEF Upgrade, AtStage, StageGo, Types, TabsTyped, PumpsPaired, clientVars
  <2> QED BY <2>1, <2>2 DEF Types
<1>4. CASE ServeWs(k)
  <2>1. HubTyped' BY <1>4 DEF ServeWs, Types, HubTyped, hubState, registry
  <2>2. Authenticated(k) => Cookie(k) \in Tabs
    BY <1>0, PumpsAssumption DEF Authenticated, Types, HubTyped
  <2>3. TabsTyped' /\ PumpsPaired'
    <3>1. CASE stage' = [stage EXCEPT ![k] = "orphan"] /\ UNCHANGED <<client, conn>>
      BY <1>4, <3>1 DEF ServeWs, AtStage, Types, TabsTyped, PumpsPaired
    <3>2. CASE /\ Authenticated(k) /\ stage' = [stage EXCEPT ![k] = "starting"]
               /\ client' = [client EXCEPT ![k] = Cookie(k)]
               /\ conn' = [conn EXCEPT ![Cookie(k)] = k]
      <4> DEFINE c == Cookie(k)
      <4>1. c \in Tabs BY <2>2, <3>2
      <4> HIDE DEF c
      <4>2. /\ client' = [client EXCEPT ![k] = c] /\ conn' = [conn EXCEPT ![c] = k]
        BY <3>2 DEF c
      <4>3. TabsTyped'
        BY <1>4, <3>2, <4>1, <4>2 DEF ServeWs, Types, TabsTyped
      <4>4. PumpsPaired'
        BY <1>4, <3>2, <4>1, <4>2, PumpsAssumption
           DEF ServeWs, AtStage, Types, TabsTyped, PumpsPaired
      <4> QED BY <4>3, <4>4
    <3> QED BY <1>4, <3>1, <3>2 DEF ServeWs, StageGo
  <2> QED BY <2>1, <2>3 DEF Types
<1>5. CASE ClientConnected(k)
  <2>1. HubTyped' BY <1>5 DEF ClientConnected, Types, HubTyped, hubState
  <2>2. TabsTyped' /\ PumpsPaired'
    BY <1>5
       DEF ClientConnected, AtStage, StageGo, Types, TabsTyped, PumpsPaired, Readers, clientVars
  <2> QED BY <2>1, <2>2 DEF Types
<1> QED BY <1>1, <1>2, <1>3, <1>4, <1>5 DEF HttpStep

\* The other end, and WritePump.
LEMMA WriterTypes ==
  ASSUME Types, NEW k \in Tabs, LinkLost(k) \/ WriterStep(k)
  PROVE  Types'
<1>0. writer[k] # "off" => client[k] \in Tabs /\ conn[client[k]] \in Tabs
  BY PumpsAssumption DEF Types, TabsTyped, PumpsPaired
<1>1. CASE LinkLost(k)
  <2>1. HubTyped' BY <1>1 DEF LinkLost, Types, HubTyped, hubState, registry
  <2>2. TabsTyped' /\ PumpsPaired'
    BY <1>1 DEF LinkLost, Types, TabsTyped, PumpsPaired, web, clientVars
  <2> QED BY <2>1, <2>2 DEF Types
<1>2. CASE WriterHearsStop(k)
  <2>1. HubTyped' BY <1>2 DEF WriterHearsStop, Types, HubTyped, hubState, registry
  <2>2. TabsTyped' /\ PumpsPaired'
    BY <1>2 DEF WriterHearsStop, Types, TabsTyped, PumpsPaired, WriterAt, WriterGo, web, clientVars
  <2> QED BY <2>1, <2>2 DEF Types
<1>3. CASE WriteMessage(k)
  <2>1. HubTyped' BY <1>3 DEF WriteMessage, Types, HubTyped, hubState, registry
  <2>2. TabsTyped' /\ PumpsPaired'
    BY <1>3, <1>0, PumpsAssumption DEF WriteMessage, Types, TabsTyped, PumpsPaired, WriterAt, WriterGo, web
  <2> QED BY <2>1, <2>2 DEF Types
<1>4. CASE PingFails(k)
  <2>1. HubTyped' BY <1>4 DEF PingFails, Types, HubTyped, hubState, registry
  <2>2. TabsTyped' /\ PumpsPaired'
    BY <1>4 DEF PingFails, Types, TabsTyped, PumpsPaired, WriterAt, WriterGo, web, clientVars
  <2> QED BY <2>1, <2>2 DEF Types
<1>5. CASE CloseDone(k)
  <2>1. HubTyped' BY <1>5 DEF CloseDone, Types, HubTyped, hubState, registry
  <2>2. TabsTyped' /\ PumpsPaired'
    BY <1>5, <1>0 DEF CloseDone, Types, TabsTyped, PumpsPaired, WriterAt, WriterGo, web
  <2> QED BY <2>1, <2>2 DEF Types
<1>6. CASE CloseDoneTwice(k)
  <2>1. HubTyped' BY <1>6 DEF CloseDoneTwice, Types, HubTyped, registry
  <2>2. TabsTyped' /\ PumpsPaired'
    BY <1>6 DEF CloseDoneTwice, Types, TabsTyped, PumpsPaired, web, clientVars
  <2> QED BY <2>1, <2>2 DEF Types
<1>7. CASE CloseConn(k)
  <2>1. HubTyped' BY <1>7 DEF CloseConn, Types, HubTyped, hubState, registry
  <2>2. TabsTyped' /\ PumpsPaired'
    BY <1>7, <1>0 DEF CloseConn, Types, TabsTyped, PumpsPaired, WriterAt, WriterGo, web, clientVars
  <2> QED BY <2>1, <2>2 DEF Types
<1> QED BY <1>1, <1>2, <1>3, <1>4, <1>5, <1>6, <1>7 DEF WriterStep

\* ReadPump.
LEMMA ReaderTypes ==
  ASSUME Types, NEW k \in Tabs, ReadMessage(k) \/ ReadFails(k) \/ ReaderStep(k)
  PROVE  Types'
<1>0. reader[k].pc # "off" => client[k] \in Tabs /\ conn[client[k]] \in Tabs
  BY PumpsAssumption DEF Types, TabsTyped, PumpsPaired
<1>1. CASE ReaderChecks(k)
  <2>1. HubTyped' BY <1>1 DEF ReaderChecks, Types, HubTyped, hubState, registry
  <2>2. TabsTyped' /\ PumpsPaired'
    <3>1. CASE reader' = [reader EXCEPT ![k].pc = "delete"]
      BY <1>1, <3>1 DEF ReaderChecks, ReaderAt, Types, TabsTyped, PumpsPaired, Readers, web,
                        clientVars
    <3>2. CASE reader' = [reader EXCEPT ![k].pc = "read", ![k].on = conn[client[k]]]
      <4> DEFINE r == conn[client[k]]
      <4>1. r \in Tabs /\ r # NoOne
        BY <1>1, <1>0, PumpsAssumption DEF ReaderChecks, ReaderAt
      <4>2. reader' = [reader EXCEPT ![k].pc = "read", ![k].on = r]
        BY <3>2
      <4> HIDE DEF r
      <4>3. TabsTyped'
        <5>1. [reader[k] EXCEPT !.pc = "read", !.on = r] \in Readers
          <6>1. reader[k] \in Readers BY DEF Types, TabsTyped
          <6> QED BY <4>1, <6>1 DEF Readers
        <5>2. reader' \in [Tabs -> Readers]
          BY <4>2, <5>1 DEF Types, TabsTyped
        <5> QED BY <1>1, <5>2 DEF ReaderChecks, Types, TabsTyped, web, clientVars
      <4>4. PumpsPaired'
        BY <1>1, <4>1, <4>2
           DEF ReaderChecks, ReaderAt, Types, TabsTyped, PumpsPaired, Readers, web, clientVars
      <4> QED BY <4>3, <4>4
    <3> QED BY <1>1, <3>1, <3>2 DEF ReaderChecks, ReaderGo
  <2> QED BY <2>1, <2>2 DEF Types
<1>2. CASE ReadMessage(k)
  <2>1. HubTyped' BY <1>2 DEF ReadMessage, Types, HubTyped, hubState, registry
  <2>2. TabsTyped' /\ PumpsPaired'
    BY <1>2, PumpsAssumption DEF ReadMessage, Types, TabsTyped, PumpsPaired, Readers, ReaderAt, ReaderGo, web, clientVars
  <2> QED BY <2>1, <2>2 DEF Types
<1>3. CASE PostMessage(k)
  <2>1. HubTyped'
    <3>1. receive' \in Seq(Tabs) /\ Len(receive') <= ReceiveCap
      BY <1>3, <1>0, PumpsAssumption
         DEF PostMessage, ReaderAt, Types, HubTyped, TabsTyped, Readers
    <3> QED BY <1>3, <3>1 DEF PostMessage, Types, HubTyped, registry
  <2>2. TabsTyped' /\ PumpsPaired'
    BY <1>3 DEF PostMessage, Types, TabsTyped, PumpsPaired, Readers, ReaderAt, ReaderGo, web, clientVars
  <2> QED BY <2>1, <2>2 DEF Types
<1>4. CASE ReadFails(k)
  <2>1. HubTyped' BY <1>4 DEF ReadFails, Types, HubTyped, hubState, registry
  <2>2. TabsTyped' /\ PumpsPaired'
    BY <1>4 DEF ReadFails, Types, TabsTyped, PumpsPaired, Readers, ReaderAt, ReaderGo, web, clientVars
  <2> QED BY <2>1, <2>2 DEF Types
<1>5. CASE DeleteClient(k)
  <2>1. HubTyped' BY <1>5 DEF DeleteClient, Types, HubTyped, hubState
  <2>2. TabsTyped' /\ PumpsPaired'
    BY <1>5 DEF DeleteClient, Types, TabsTyped, PumpsPaired, Readers, ReaderAt, ReaderGo, web, clientVars
  <2> QED BY <2>1, <2>2 DEF Types
<1>6. CASE TellSelf(k)
  <2>1. HubTyped' BY <1>6 DEF TellSelf, Types, HubTyped, hubState, registry
  <2>2. sendq' \in [Tabs -> 0..SendCap]
    BY <1>6, <1>0, SendOK DEF TellSelf, ReaderAt
  <2>3. PICK p \in Tabs \cup {NoOne} :
          reader' = [reader EXCEPT ![k].pc = IF p = NoOne THEN "redis" ELSE "tellPartner",
                                   ![k].partner = p]
    BY <1>6 DEF TellSelf, Partners
  <2>4. TabsTyped' /\ PumpsPaired'
    <3>1. CASE p = NoOne
      <4>1. reader' = [reader EXCEPT ![k].pc = "redis", ![k].partner = NoOne]
        BY <2>3, <3>1
      <4>2. TabsTyped'
        <5>1. [reader[k] EXCEPT !.pc = "redis", !.partner = NoOne] \in Readers
          <6>1. reader[k] \in Readers BY DEF Types, TabsTyped
          <6> QED BY <6>1 DEF Readers
        <5>2. reader' \in [Tabs -> Readers]
          BY <4>1, <5>1 DEF Types, TabsTyped
        <5> QED BY <1>6, <2>2, <5>2 DEF TellSelf, Types, TabsTyped, web
      <4>3. PumpsPaired'
        BY <1>6, <4>1 DEF TellSelf, ReaderAt, Types, TabsTyped, PumpsPaired, Readers, web
      <4> QED BY <4>2, <4>3
    <3>2. CASE p # NoOne
      <4>1. reader' = [reader EXCEPT ![k].pc = "tellPartner", ![k].partner = p]
        BY <2>3, <3>2
      <4> QED BY <1>6, <2>2, <3>2, <4>1 DEF TellSelf, ReaderAt, Types, TabsTyped,
                                            PumpsPaired, Readers, web
    <3> QED BY <3>1, <3>2
  <2> QED BY <2>1, <2>4 DEF Types
<1>7. CASE TellPartner(k)
  <2>1. HubTyped' BY <1>7 DEF TellPartner, Types, HubTyped, hubState, registry
  <2>2. sendq' \in [Tabs -> 0..SendCap]
    <3>1. reader[k].partner \in Tabs
      BY <1>7 DEF TellPartner, ReaderAt, Types, TabsTyped, PumpsPaired, Readers
    <3> QED BY <1>7, <3>1, SendOK DEF TellPartner
  <2>3. TabsTyped' /\ PumpsPaired'
    BY <1>7, <2>2 DEF TellPartner, ReaderAt, Types, TabsTyped, PumpsPaired, Readers, web
  <2> QED BY <2>1, <2>3 DEF Types
<1>8. CASE DropSession(k)
  <2>1. HubTyped' BY <1>8 DEF DropSession, Types, HubTyped, hubState
  <2>2. TabsTyped' /\ PumpsPaired'
    BY <1>8 DEF DropSession, Types, TabsTyped, PumpsPaired, Readers, ReaderAt, ReaderGo, web, clientVars
  <2> QED BY <2>1, <2>2 DEF Types
<1> QED BY <1>1, <1>2, <1>3, <1>4, <1>5, <1>6, <1>7, <1>8 DEF ReaderStep, ReadMustFail

\* What a handler does is a sequence of deeds to clients.
LEMMA TargetsOK ==
  ASSUME NEW from \in Tabs, NEW to \in Targets(from)
  PROVE  to \in Seq(Work)
<1>1. ASSUME NEW c \in Tabs PROVE Tell(c) \in Work /\ To("clear", c) \in Work
  BY DEF Tell, To, Work
<1>2. CASE to \in {<<>>, <<Tell(from)>>, <<To("clear", from), Tell(from)>>}
  <2>1. PICK x \in Work, y \in Work : x = Tell(from) /\ y = To("clear", from)
    BY <1>1
  <2>2. <<>> \in Seq(Work) /\ <<x>> \in Seq(Work) /\ <<y, x>> \in Seq(Work)
    OBVIOUS
  <2> QED BY <1>2, <2>1, <2>2
<1>3. ASSUME NEW p \in Partners(from),
             to \in {<<Tell(p)>>, <<Tell(from), Tell(p)>>, <<Tell(p), Tell(from)>>,
                     <<Tell(p), To("clear", from), To("clear", p), Tell(from)>>}
      PROVE  to \in Seq(Work)
  <2>1. p \in Tabs BY DEF Partners
  <2>2. /\ Tell(p) \in Work /\ To("clear", p) \in Work
        /\ Tell(from) \in Work /\ To("clear", from) \in Work
    BY <1>1, <2>1
  <2>3. PICK u \in Work, v \in Work, x \in Work, y \in Work :
          /\ u = Tell(p) /\ v = To("clear", p)
          /\ x = Tell(from) /\ y = To("clear", from)
    BY <2>2
  <2>4. /\ <<u>> \in Seq(Work) /\ <<x, u>> \in Seq(Work) /\ <<u, x>> \in Seq(Work)
        /\ <<u, y, v, x>> \in Seq(Work)
    OBVIOUS
  <2> QED BY <1>3, <2>3, <2>4
<1> QED BY <1>2, <1>3 DEF Targets

\* A handler that goes on is left with a sequence of deeds.
LEMMA HandlerOK ==
  ASSUME Types, NEW h \in Handlers, handler[h] # <<>>,
         Done(h) \/ handler' = [handler EXCEPT ![h][1].do = "put"]
  PROVE  handler' \in [Handlers -> Seq(Work)]
<1> DEFINE w == handler[h]
<1>1. w \in Seq(Work) /\ w # <<>> /\ handler \in [Handlers -> Seq(Work)]
  BY DEF Types, HubTyped
<1>2. CASE Done(h)
  BY <1>1, <1>2 DEF Done
<1>3. CASE handler' = [handler EXCEPT ![h][1].do = "put"]
  <2>1. handler' = [handler EXCEPT ![h] = [w EXCEPT ![1] = [w[1] EXCEPT !.do = "put"]]]
    BY <1>1, <1>3
  <2>2. w[1] \in Work
    BY <1>1
  <2>3. [w[1] EXCEPT !.do = "put"] \in Work
    BY <2>2 DEF Work
  <2>4. PICK x \in Work : x = [w[1] EXCEPT !.do = "put"]
    BY <2>3
  <2> HIDE DEF w
  <2>5. [w EXCEPT ![1] = x] \in Seq(Work)
    BY <1>1
  <2> QED BY <1>1, <2>1, <2>4, <2>5
<1> QED BY <1>2, <1>3

LEMMA TargetOK ==
  ASSUME Types, NEW h \in Handlers, handler[h] # <<>>
  PROVE  Target(h) \in Tabs
<1>1. handler[h] \in Seq(Work)
  BY DEF Types, HubTyped
<1>2. Head(handler[h]) \in Work
  BY <1>1
<1> QED BY <1>2 DEF Target, Work

\* The hub's loop and its handlers.
LEMMA LoopTypes ==
  ASSUME Types, LoopStep \/ \E h \in Handlers : HandlerStep(h)
  PROVE  Types'
<1>1. CASE LoopStops
  <2>1. HubTyped' BY <1>1 DEF LoopStops, Types, HubTyped, registry
  <2>2. TabsTyped' /\ PumpsPaired'
    BY <1>1 DEF LoopStops, Types, TabsTyped, PumpsPaired, web, clientVars
  <2> QED BY <2>1, <2>2 DEF Types
<1>2. CASE LoopTakes
  <2>1. Head(receive) \in Tabs /\ Tail(receive) \in Seq(Tabs) /\ Len(Tail(receive)) <= ReceiveCap
    BY <1>2, PumpsAssumption DEF LoopTakes, Types, HubTyped
  <2>2. Targets(Head(receive)) \subseteq Seq(Work)
    BY <2>1, TargetsOK
  <2>3. handler' \in [Handlers -> Seq(Work)]
    BY <1>2, <2>2 DEF LoopTakes, Types, HubTyped
  <2>4. HubTyped' BY <1>2, <2>1, <2>3 DEF LoopTakes, Types, HubTyped, registry
  <2>5. TabsTyped' /\ PumpsPaired'
    BY <1>2 DEF LoopTakes, Types, TabsTyped, PumpsPaired, web, clientVars
  <2> QED BY <2>4, <2>5 DEF Types
<1>3. CASE LoopReturns
  <2>1. HubTyped' BY <1>3 DEF LoopReturns, Types, HubTyped, registry
  <2>2. TabsTyped' /\ PumpsPaired'
    BY <1>3 DEF LoopReturns, Types, TabsTyped, PumpsPaired, web, clientVars
  <2> QED BY <2>1, <2>2 DEF Types
<1>4. ASSUME NEW h \in Handlers, HandlerSends(h) PROVE Types'
  <2>1. Target(h) \in Tabs
    BY <1>4, TargetOK DEF HandlerSends, Doing
  <2>2. sendq' \in [Tabs -> 0..SendCap]
    BY <1>4, <2>1, SendOK DEF HandlerSends
  <2>3. handler' \in [Handlers -> Seq(Work)]
    BY <1>4, HandlerOK DEF HandlerSends, Doing
  <2>4. HubTyped' BY <1>4, <2>3 DEF HandlerSends, Types, HubTyped, registry
  <2>5. TabsTyped' /\ PumpsPaired'
    BY <1>4, <2>2 DEF HandlerSends, Types, TabsTyped, PumpsPaired, web
  <2> QED BY <2>4, <2>5 DEF Types
<1>5. ASSUME NEW h \in Handlers, ClearGet(h) PROVE Types'
  <2>1. handler' \in [Handlers -> Seq(Work)]
    BY <1>5, HandlerOK DEF ClearGet, Doing
  <2>2. HubTyped' BY <1>5, <2>1 DEF ClearGet, Types, HubTyped, registry
  <2>3. TabsTyped' /\ PumpsPaired'
    BY <1>5 DEF ClearGet, Types, TabsTyped, PumpsPaired, web, clientVars
  <2> QED BY <2>2, <2>3 DEF Types
<1>6. ASSUME NEW h \in Handlers, ClearPut(h) PROVE Types'
  <2>1. Target(h) \in Tabs
    BY <1>6, TargetOK DEF ClearPut, Doing
  <2>2. handler' \in [Handlers -> Seq(Work)]
    BY <1>6, HandlerOK DEF ClearPut, Doing
  <2>3. HubTyped' BY <1>6, <2>1, <2>2 DEF ClearPut, Types, HubTyped
  <2>4. TabsTyped' /\ PumpsPaired'
    BY <1>6 DEF ClearPut, Types, TabsTyped, PumpsPaired, web, clientVars
  <2> QED BY <2>3, <2>4 DEF Types
<1> QED BY <1>1, <1>2, <1>3, <1>4, <1>5, <1>6 DEF LoopStep, HandlerStep

\* Hub.Stop, and the end of the process.
LEMMA StopTypes ==
  ASSUME Types, Stop \/ StopStep \/ Exit
  PROVE  Types'
<1>1. /\ hub' \in {"closing", "clients", "handlers", "stopped", "down"}
      /\ UNCHANGED <<loop, receive, handler, registry, web, clientVars, reader, writer>>
  BY DEF Stop, StopStep, StopCloses, Cancel, ClientsWaited, HandlersWaited, Exit, HubGo
<1>2. toClose' \subseteq Tabs
  BY DEF Stop, StopStep, StopCloses, Cancel, ClientsWaited, HandlersWaited, Exit, Types,
         HubTyped
<1>3. link' \in [Tabs -> {"none", "open", "gone", "closed"}]
  BY DEF Stop, StopStep, StopCloses, Cancel, ClientsWaited, HandlersWaited, Exit, Types,
         TabsTyped
<1>4. HubTyped' BY <1>1, <1>2 DEF Types, HubTyped, registry
<1>5. TabsTyped' /\ PumpsPaired'
  BY <1>1, <1>3 DEF Types, TabsTyped, PumpsPaired, web, clientVars
<1> QED BY <1>4, <1>5 DEF Types

LEMMA NextTypes == Types /\ [Next]_pumpVars => Types'
<1> SUFFICES ASSUME Types, [Next]_pumpVars PROVE Types'
  OBVIOUS
<1>1. CASE UNCHANGED pumpVars
  BY <1>1 DEF Types, HubTyped, TabsTyped, PumpsPaired, pumpVars, hubState, registry, web,
              clientVars
<1>2. CASE Next
  BY <1>2, WebTypes, WriterTypes, ReaderTypes, LoopTypes, StopTypes DEF Next
<1> QED BY <1>1, <1>2

---------------------------------------------------------------------------
(* The count.                                                              *)

Counted == clientCount = Cardinality(Running)

\* Of the steps, only two count; the others leave a running ReadPump running.
LEMMA CountKept ==
  ASSUME Types, Next, \A k \in Tabs : ~ClientConnected(k) /\ ~DropSession(k)
  PROVE  clientCount' = clientCount /\ Running' = Running
<1>1. ASSUME NEW k \in Tabs,
             (\E form \in Forms : ChatPost(k, form)) \/ Chat(k) \/ Upgrade(k) \/ ServeWs(k)
               \/ LinkLost(k) \/ WriterStep(k)
      PROVE  clientCount' = clientCount /\ reader' = reader
  BY <1>1 DEF ChatPost, Chat, Upgrade, ServeWs, LinkLost, WriterStep, WriterHearsStop,
              WriteMessage, PingFails, CloseDone, CloseDoneTwice, CloseConn, registry
<1>2. ASSUME NEW k \in Tabs, ReadMessage(k) \/ ReadFails(k) \/ (ReaderStep(k) /\ ~DropSession(k))
      PROVE  /\ clientCount' = clientCount
             /\ reader[k].pc \notin {"off", "returned"}
             /\ \E r : reader' = [reader EXCEPT ![k] = r] /\ r.pc \notin {"off", "returned"}
  <2>1. ASSUME NEW pc \in {"delete", "check", "tellSelf"}, ReaderGo(k, pc)
        PROVE  \E r : reader' = [reader EXCEPT ![k] = r] /\ r.pc \notin {"off", "returned"}
    <3>1. reader' = [reader EXCEPT ![k] = [reader[k] EXCEPT !.pc = pc]]
      BY <2>1 DEF ReaderGo
    <3>2. [reader[k] EXCEPT !.pc = pc].pc = pc
      BY DEF Types, TabsTyped, Readers
    <3> QED BY <3>1, <3>2
  <2>2. ASSUME NEW pc \in {"read", "post", "delete"}, NEW on,
               reader' = [reader EXCEPT ![k].pc = pc, ![k].on = on]
        PROVE  \E r : reader' = [reader EXCEPT ![k] = r] /\ r.pc \notin {"off", "returned"}
    <3>1. reader' = [reader EXCEPT ![k] = [reader[k] EXCEPT !.pc = pc, !.on = on]]
      BY <2>2
    <3>2. [reader[k] EXCEPT !.pc = pc, !.on = on].pc = pc
      BY DEF Types, TabsTyped, Readers
    <3> QED BY <3>1, <3>2
  <2>3. ASSUME NEW pc \in {"redis", "tellPartner"}, NEW p,
               reader' = [reader EXCEPT ![k].pc = pc, ![k].partner = p]
        PROVE  \E r : reader' = [reader EXCEPT ![k] = r] /\ r.pc \notin {"off", "returned"}
    <3>1. reader' = [reader EXCEPT ![k] = [reader[k] EXCEPT !.pc = pc, !.partner = p]]
      BY <2>3
    <3>2. [reader[k] EXCEPT !.pc = pc, !.partner = p].pc = pc
      BY DEF Types, TabsTyped, Readers
    <3> QED BY <3>1, <3>2
  <2>4. CASE ReaderChecks(k)
    <3>1. CASE ReaderGo(k, "delete") BY <2>1, <2>4, <3>1 DEF ReaderChecks, ReaderAt, registry
    <3>2. CASE reader' = [reader EXCEPT ![k].pc = "read", ![k].on = conn[client[k]]]
      BY <2>2, <2>4, <3>2 DEF ReaderChecks, ReaderAt, registry
    <3> QED BY <2>4, <3>1, <3>2 DEF ReaderChecks
  <2>5. CASE ReadMessage(k) BY <2>2, <2>5 DEF ReadMessage, ReaderAt, registry
  <2>6. CASE PostMessage(k) BY <2>1, <2>6 DEF PostMessage, ReaderAt, registry
  <2>7. CASE ReadFails(k) BY <2>2, <2>7 DEF ReadFails, ReaderAt, registry
  <2>8. CASE DeleteClient(k) BY <2>1, <2>8 DEF DeleteClient, ReaderAt
  <2>9. CASE TellSelf(k)
    <3>1. PICK p \in Partners(client[k]) \cup {NoOne} :
            reader' = [reader EXCEPT ![k].pc = IF p = NoOne THEN "redis" ELSE "tellPartner",
                                     ![k].partner = p]
      BY <2>9 DEF TellSelf
    <3>2. CASE p = NoOne
      <4>1. reader' = [reader EXCEPT ![k].pc = "redis", ![k].partner = p]
        BY <3>1, <3>2
      <4> QED BY <2>3, <2>9, <4>1 DEF TellSelf, ReaderAt, registry
    <3>3. CASE p # NoOne
      <4>1. reader' = [reader EXCEPT ![k].pc = "tellPartner", ![k].partner = p]
        BY <3>1, <3>3
      <4> QED BY <2>3, <2>9, <4>1 DEF TellSelf, ReaderAt, registry
    <3> QED BY <3>2, <3>3
  <2>10. CASE TellPartner(k) BY <2>3, <2>10 DEF TellPartner, ReaderAt, registry
  <2> QED BY <1>2, <2>4, <2>5, <2>6, <2>7, <2>8, <2>9, <2>10 DEF ReaderStep, ReadMustFail
<1>3. ASSUME LoopStep \/ (\E h \in Handlers : HandlerStep(h)) \/ Stop \/ StopStep \/ Exit
      PROVE  clientCount' = clientCount /\ reader' = reader
  BY <1>3 DEF LoopStep, LoopStops, LoopTakes, LoopReturns, HandlerStep, HandlerSends,
              ClearGet, ClearPut, Stop, StopStep,
              StopCloses, Cancel, ClientsWaited, HandlersWaited, Exit, HubGo, registry
<1>4. ASSUME NEW k \in Tabs, reader[k].pc \notin {"off", "returned"},
             \E r : reader' = [reader EXCEPT ![k] = r] /\ r.pc \notin {"off", "returned"}
      PROVE  Running' = Running
  BY <1>4 DEF Running, Types, TabsTyped
<1>5. reader' = reader => Running' = Running
  BY DEF Running
<1> QED BY <1>1, <1>2, <1>3, <1>4, <1>5 DEF Next, HttpStep

LEMMA NextCount == Types /\ Counted /\ [Next]_pumpVars => Counted'
<1> SUFFICES ASSUME Types, Counted, [Next]_pumpVars PROVE Counted'
  OBVIOUS
<1>0. IsFiniteSet(Running)
  BY FS_Subset, PumpsAssumption DEF Running
<1>1. ASSUME NEW k \in Tabs, ClientConnected(k) PROVE Counted'
  <2>1. k \notin Running /\ Running' = Running \cup {k}
    BY <1>1 DEF ClientConnected, AtStage, Running, Types, TabsTyped, PumpsPaired, Readers
  <2>2. Cardinality(Running') = Cardinality(Running) + 1
    BY <1>0, <2>1, FS_AddElement
  <2> QED BY <1>1, <2>2 DEF ClientConnected, Counted
<1>2. ASSUME NEW k \in Tabs, DropSession(k) PROVE Counted'
  <2>1. k \in Running /\ Running' = Running \ {k}
    BY <1>2 DEF DropSession, ReaderAt, ReaderGo, Running, Types, TabsTyped, Readers
  <2>2. Cardinality(Running') = Cardinality(Running) - 1
    BY <1>0, <2>1, FS_RemoveElement
  <2> QED BY <1>2, <2>2 DEF DropSession, Counted
<1>3. CASE UNCHANGED pumpVars
  BY <1>3 DEF Counted, Running, pumpVars, registry
<1> QED BY <1>1, <1>2, <1>3, CountKept DEF Counted

(***************************************************************************)
(* Every pump has a client and a connection, every goroutine the locals of  *)
(* its step, and the counter shown on the home page counts the WebSockets   *)
(* whose ReadPump has yet to return, whoever shares a browser or a client.  *)
(***************************************************************************)
THEOREM PumpsTypeCorrect == Spec => []PumpsTypeOK
<1>1. Init => Types /\ Counted
  <2>1. Init => Running = {}
    BY DEF Init, Running, NoReader
  <2> QED BY <2>1, InitTypes, FS_EmptySet DEF Init, Counted
<1>2. Types /\ Counted /\ [Next]_pumpVars => (Types /\ Counted)'
  BY NextTypes, NextCount
<1>3. Types /\ Counted => PumpsTypeOK
  BY DEF Types, Counted, PumpsTypeOK
<1> QED BY <1>1, <1>2, <1>3, PTL DEF Spec

---------------------------------------------------------------------------
(* What is left of a client that has gone.                                 *)

\* A step of the handlers that is not the SET of a clear writes no session.
LEMMA SessionsKept ==
  ASSUME Next,
         \A k \in Tabs : ~DropSession(k) /\ \A form \in Forms : ~ChatPost(k, form),
         \A h \in Handlers : ~ClearPut(h)
  PROVE  sessions' = sessions
BY DEF Next, Chat, Upgrade, HttpStep, ServeWs, ClientConnected, LinkLost, ReadMessage, ReadFails,
       ReadMustFail, WriterStep, WriterHearsStop, WriteMessage, PingFails, CloseDone,
       CloseDoneTwice, CloseConn, ReaderStep, ReaderChecks, PostMessage, DeleteClient, TellSelf,
       TellPartner, LoopStep, LoopStops, LoopTakes, LoopReturns, HandlerStep, HandlerSends,
       ClearGet, Stop, StopStep, StopCloses, Cancel, ClientsWaited, HandlersWaited, Exit, HubGo,
       registry

\* Only the start of a WebSocket gives a tab its client, and none loses it.
LEMMA ClientsKept ==
  ASSUME Types, Next, NEW k \in Tabs, client[k] # NoOne
  PROVE  client'[k] = client[k]
<1>1. ASSUME NEW j \in Tabs, ServeWs(j) PROVE client'[k] = client[k]
  BY <1>1 DEF ServeWs, AtStage, Types, TabsTyped, PumpsPaired
<1>2. ASSUME \A j \in Tabs : ~ServeWs(j) PROVE client' = client
  BY <1>2 DEF Next, ChatPost, Chat, Upgrade, HttpStep, ClientConnected, LinkLost, ReadMessage,
       ReadFails, ReadMustFail, WriterStep, WriterHearsStop, WriteMessage, PingFails, CloseDone,
       CloseDoneTwice, CloseConn, ReaderStep, ReaderChecks, PostMessage, DeleteClient, TellSelf,
       TellPartner, DropSession, LoopStep, LoopStops, LoopTakes, LoopReturns, HandlerStep,
       HandlerSends, ClearGet, ClearPut, Stop, StopStep, StopCloses, Cancel, ClientsWaited,
       HandlersWaited, Exit, HubGo, web
<1> QED BY <1>1, <1>2
---------------------------------------------------------------------------
(* The cleanup.                                                            *)

\* Between the GET of a clear and its SET the session has been deleted.
LateSet(h) == ClearPut(h) /\ Target(h) \notin sessions

InTime == \A h \in Handlers : ~LateSet(h)

NoLateSet == [][InTime]_pumpVars

\* A ReadPump that has returned has dropped its client's session.  The client
\* has had a WebSocket, so no form makes a session of its name again.
Dropped == \A k \in Tabs : reader[k].pc = "returned" => client[k] \notin sessions

\* Only DropSession lets a ReadPump return.
LEMMA ReturnsOnce ==
  ASSUME Types, Next, NEW k \in Tabs, ~DropSession(k), reader'[k].pc = "returned"
  PROVE  reader[k].pc = "returned"
<1>1. ASSUME reader' = reader PROVE reader[k].pc = "returned"
  BY <1>1
<1>2. ASSUME NEW j \in Tabs, reader'[j].pc # "returned",
             \A i \in Tabs \ {j} : reader'[i] = reader[i]
      PROVE  reader[k].pc = "returned"
  BY <1>2
<1>3. ASSUME NEW j \in Tabs, ReadMessage(j) \/ ReadFails(j) \/ ClientConnected(j)
                               \/ (ReaderStep(j) /\ ~DropSession(j))
      PROVE  reader[k].pc = "returned"
  <2>1. /\ reader'[j].pc # "returned"
        /\ \A i \in Tabs \ {j} : reader'[i] = reader[i]
    <3>1. CASE ReaderChecks(j) BY <3>1 DEF ReaderChecks, ReaderGo, Types, TabsTyped, Readers
    <3>2. CASE ReadMessage(j) BY <3>2 DEF ReadMessage, Types, TabsTyped, Readers
    <3>3. CASE PostMessage(j) BY <3>3 DEF PostMessage, ReaderGo, Types, TabsTyped, Readers
    <3>4. CASE ReadFails(j) BY <3>4 DEF ReadFails, Types, TabsTyped, Readers
    <3>5. CASE DeleteClient(j) BY <3>5 DEF DeleteClient, ReaderGo, Types, TabsTyped, Readers
    <3>6. CASE TellSelf(j) BY <3>6 DEF TellSelf, Types, TabsTyped, Readers
    <3>7. CASE TellPartner(j) BY <3>7 DEF TellPartner, Types, TabsTyped, Readers
    <3>8. CASE ClientConnected(j) BY <3>8 DEF ClientConnected, Types, TabsTyped, Readers
    <3> QED BY <1>3, <3>1, <3>2, <3>3, <3>4, <3>5, <3>6, <3>7, <3>8 DEF ReaderStep, ReadMustFail
  <2> QED BY <1>2, <2>1
<1>4. ASSUME NEW j \in Tabs, DropSession(j) PROVE reader[k].pc = "returned"
  <2>1. j # k BY <1>4
  <2> QED BY <1>4, <2>1 DEF DropSession, ReaderGo, Types, TabsTyped
<1>5. ASSUME NEW j \in Tabs,
             (\E form \in Forms : ChatPost(j, form)) \/ Chat(j) \/ Upgrade(j) \/ ServeWs(j)
               \/ LinkLost(j) \/ WriterStep(j)
      PROVE  reader' = reader
  BY <1>5 DEF ChatPost, Chat, Upgrade, ServeWs, LinkLost, WriterStep, WriterHearsStop,
              WriteMessage, PingFails, CloseDone, CloseDoneTwice, CloseConn
<1>6. ASSUME LoopStep \/ (\E h \in Handlers : HandlerStep(h)) \/ Stop \/ StopStep \/ Exit
      PROVE  reader' = reader
  BY <1>6 DEF LoopStep, LoopStops, LoopTakes, LoopReturns, HandlerStep, HandlerSends, ClearGet,
              ClearPut, Stop, StopStep, StopCloses, Cancel, ClientsWaited, HandlersWaited, Exit,
              HubGo
<1> QED BY <1>1, <1>3, <1>4, <1>5, <1>6 DEF Next, HttpStep

LEMMA NextDropped ==
  ASSUME ~MayFail, Types, Dropped, Next, InTime
  PROVE  Dropped'
<1> SUFFICES ASSUME NEW k \in Tabs, reader'[k].pc = "returned"
             PROVE  client'[k] \notin sessions'
  BY DEF Dropped
<1>1. CASE DropSession(k)
  BY <1>1 DEF DropSession, web
<1>2. CASE ~DropSession(k)
  <2>1. reader[k].pc = "returned" /\ client[k] \notin sessions
    BY <1>2, ReturnsOnce DEF Dropped
  <2>2. client'[k] = client[k] /\ client[k] \in Tabs /\ conn[client[k]] # NoOne
    BY <2>1, ClientsKept DEF Types, TabsTyped, PumpsPaired
  <2>3. ASSUME NEW j \in Tabs, NEW form \in Forms, ChatPost(j, form)
        PROVE  client[k] \notin sessions'
    BY <2>1, <2>2, <2>3 DEF ChatPost
  <2>4. ASSUME NEW j \in Tabs, DropSession(j) PROVE client[k] \notin sessions'
    BY <2>1, <2>4 DEF DropSession
  <2>5. ASSUME NEW h \in Handlers, ClearPut(h) PROVE client[k] \notin sessions'
    BY <2>1, <2>5 DEF ClearPut, LateSet, InTime
  <2> QED BY <2>1, <2>2, <2>3, <2>4, <2>5, SessionsKept
<1> QED BY <1>1, <1>2

\* Only clientWg.Wait leads Stop from the clients to the handlers.
LEMMA WaitedForPumps ==
  ASSUME Types, Next, hub = "clients", hub' = "handlers"
  PROVE  PumpsReturned
<1>1. ASSUME NEW k \in Tabs,
             (\E form \in Forms : ChatPost(k, form)) \/ Chat(k) \/ Upgrade(k) \/ HttpStep(k)
               \/ LinkLost(k) \/ ReadMessage(k) \/ ReadFails(k) \/ WriterStep(k) \/ ReaderStep(k)
      PROVE  FALSE
  BY <1>1 DEF ChatPost, Chat, Upgrade, HttpStep, ServeWs, ClientConnected, LinkLost, ReadMessage,
              WriterStep, WriterHearsStop, WriteMessage, PingFails, CloseDone, CloseDoneTwice,
              CloseConn, ReaderStep, ReaderChecks, PostMessage, ReadFails, ReadMustFail,
              DeleteClient, TellSelf, TellPartner, DropSession, hubState
<1>2. ASSUME LoopStep \/ (\E h \in Handlers : HandlerStep(h)) PROVE FALSE
  BY <1>2 DEF LoopStep, LoopStops, LoopTakes, LoopReturns, HandlerStep, HandlerSends, ClearGet,
              ClearPut
<1>3. ASSUME Stop \/ StopStep \/ Exit PROVE PumpsReturned
  BY <1>3 DEF Stop, StopStep, StopCloses, Cancel, ClientsWaited, HandlersWaited, Exit, HubGo
<1> QED BY <1>1, <1>2, <1>3 DEF Next

(***************************************************************************)
(* CleanupCompletes has two ways to be violated: where the deletions do not *)
(* fail, and no clear writes back a session that was deleted since it read  *)
(* it, Redis has no session of a client whose ReadPump had started when     *)
(* Hub.Stop has waited for the clients, however many tabs use it, and       *)
(* however far each of them had come when Stop was called.                  *)
(***************************************************************************)
THEOREM StopCleansUp ==
  ASSUME ~MayFail
  PROVE  Spec /\ NoLateSet => CleanupCompletes
<1>1. Init => Types /\ Dropped
  <2>1. Init => Dropped
    BY DEF Init, Dropped, NoReader
  <2> QED BY <2>1, InitTypes
<1>2. Types /\ Dropped /\ [Next]_pumpVars /\ [InTime]_pumpVars => (Types /\ Dropped)'
  <2> SUFFICES ASSUME Types, Dropped, [Next]_pumpVars, [InTime]_pumpVars
               PROVE  (Types /\ Dropped)'
    OBVIOUS
  <2>1. CASE UNCHANGED pumpVars
    <3>1. Dropped'
      BY <2>1 DEF Dropped, pumpVars, registry, web
    <3> QED BY <3>1, NextTypes
  <2>2. CASE Next /\ InTime
    BY <2>2, NextDropped, NextTypes
  <2> QED BY <2>1, <2>2
<1>3. Types /\ Dropped /\ [Next]_pumpVars =>
        [hub = "clients" /\ hub' = "handlers" =>
           \A k \in Tabs : reader[k].pc # "off" => client[k] \notin sessions]_pumpVars
  <2> SUFFICES ASSUME Types, Dropped, Next, hub = "clients", hub' = "handlers",
                      NEW k \in Tabs, reader[k].pc # "off"
               PROVE  client[k] \notin sessions
    OBVIOUS
  <2>1. PumpsReturned
    BY WaitedForPumps
  <2> QED BY <2>1 DEF PumpsReturned, Dropped
<1> QED BY <1>1, <1>2, <1>3, PTL DEF Spec, CleanupCompletes, NoLateSet

---------------------------------------------------------------------------
(* What is forgotten stays so.                                             *)

NoPut(c) == \A h \in Handlers : \A i \in DOMAIN handler[h] : handler[h][i] # To("put", c)

\* A clear gets to its SET only by reading a session that is there.
LEMMA NoPutKept ==
  ASSUME Types, Next, NEW c \in Tabs, c \notin sessions, NoPut(c)
  PROVE  NoPut(c)'
<1>1. CASE handler' = handler
  BY <1>1 DEF NoPut
<1>2. CASE LoopTakes
  <2>1. Head(receive) \in Tabs
    BY <1>2 DEF LoopTakes, Types, HubTyped
  <2>2. PICK g \in Handlers, to \in Targets(Head(receive)) :
          handler' = [handler EXCEPT ![g] = to]
    BY <1>2 DEF LoopTakes
  <2>3. \A i \in DOMAIN to : to[i].do # "put"
    <3>1. \A x : Tell(x).do # "put" /\ To("clear", x).do # "put"
      BY DEF Tell, To
    <3> QED BY <3>1 DEF Targets
  <2>4. To("put", c).do = "put"
    BY DEF To
  <2>5. \A h \in Handlers : handler'[h] = IF h = g THEN to ELSE handler[h]
    BY <2>2 DEF Types, HubTyped
  <2> QED BY <2>3, <2>4, <2>5 DEF NoPut
<1>3. ASSUME NEW g \in Handlers, Done(g), handler[g] # <<>> PROVE NoPut(c)'
  <2>1. handler[g] \in Seq(Work) /\ handler \in [Handlers -> Seq(Work)]
    BY DEF Types, HubTyped
  <2>2. \A i \in DOMAIN Tail(handler[g]) :
          i + 1 \in DOMAIN handler[g] /\ Tail(handler[g])[i] = handler[g][i + 1]
    BY <1>3, <2>1
  <2>3. \A h \in Handlers : handler'[h] = IF h = g THEN Tail(handler[g]) ELSE handler[h]
    BY <1>3, <2>1 DEF Done
  <2> QED BY <2>2, <2>3 DEF NoPut
<1>4. ASSUME NEW g \in Handlers, Doing(g, "clear"), Target(g) \in sessions,
             handler' = [handler EXCEPT ![g][1].do = "put"]
      PROVE  NoPut(c)'
  <2>1. handler[g] \in Seq(Work) /\ handler[g] # <<>> /\ handler \in [Handlers -> Seq(Work)]
    BY <1>4 DEF Doing, Types, HubTyped
  <2>2. handler[g][1].to # c
    BY <1>4, <2>1 DEF Target
  <2>3. /\ \A h \in Handlers \ {g} : handler'[h] = handler[h]
        /\ DOMAIN handler'[g] = DOMAIN handler[g]
        /\ \A i \in DOMAIN handler[g] : i # 1 => handler'[g][i] = handler[g][i]
        /\ handler'[g][1] = [handler[g][1] EXCEPT !.do = "put"]
    BY <1>4, <2>1
  <2>4. handler[g][1] \in Work
    BY <2>1
  <2>5. handler'[g][1].to # c
    BY <2>2, <2>3, <2>4 DEF Work
  <2>6. To("put", c).to = c
    BY DEF To
  <2>7. ASSUME NEW h \in Handlers, NEW i \in DOMAIN handler'[h] PROVE handler'[h][i] # To("put", c)
    <3>1. CASE h = g /\ i = 1
      BY <2>5, <2>6, <3>1
    <3>2. CASE h = g /\ i # 1
      BY <2>3, <3>2 DEF NoPut
    <3>3. CASE h # g
      BY <2>3, <3>3 DEF NoPut
    <3> QED BY <3>1, <3>2, <3>3
  <2> QED BY <2>7 DEF NoPut
<1>5. ASSUME NEW g \in Handlers, HandlerStep(g) PROVE NoPut(c)'
  BY <1>3, <1>4, <1>5 DEF HandlerStep, HandlerSends, ClearGet, ClearPut, Doing
<1>6. ASSUME ~LoopTakes, \A h \in Handlers : ~HandlerStep(h) PROVE handler' = handler
  BY <1>6 DEF Next, ChatPost, Chat, Upgrade, HttpStep, ServeWs, ClientConnected, LinkLost,
       ReadMessage, ReadFails, ReadMustFail, WriterStep, WriterHearsStop, WriteMessage, PingFails,
       CloseDone, CloseDoneTwice, CloseConn, ReaderStep, ReaderChecks, PostMessage, DeleteClient,
       TellSelf, TellPartner, DropSession, LoopStep, LoopStops, LoopReturns, Stop, StopStep,
       StopCloses, Cancel, ClientsWaited, HandlersWaited, Exit, HubGo, hubState
<1> QED BY <1>1, <1>2, <1>5, <1>6

LEMMA ForgottenKept ==
  ASSUME Types, Next, NEW c \in Tabs, Forgotten(c)
  PROVE  Forgotten(c)'
<1>0. c \notin hubClients /\ c \notin sessions /\ conn[c] # NoOne /\ NoPut(c)
  BY DEF Forgotten, NoPut
<1>1. NoPut(c)'
  BY <1>0, NoPutKept
<1>2. c \notin sessions'
  <2>1. ASSUME NEW k \in Tabs, NEW form \in Forms, ChatPost(k, form) PROVE c \notin sessions'
    BY <1>0, <2>1 DEF ChatPost
  <2>2. ASSUME NEW k \in Tabs, DropSession(k) PROVE c \notin sessions'
    BY <1>0, <2>2 DEF DropSession
  <2>3. ASSUME NEW h \in Handlers, ClearPut(h) PROVE c \notin sessions'
    <3>1. handler[h] \in Seq(Work) /\ handler[h] # <<>> /\ handler[h][1].do = "put"
      BY <2>3 DEF ClearPut, Doing, Types, HubTyped
    <3>2. handler[h][1] \in Work /\ 1 \in DOMAIN handler[h]
      BY <3>1
    <3>3. handler[h][1] # To("put", c)
      BY <1>0, <3>2 DEF NoPut
    <3>4. Target(h) # c
      BY <3>1, <3>2, <3>3 DEF Target, To, Work
    <3> QED BY <1>0, <2>3, <3>4 DEF ClearPut
  <2> QED BY <1>0, <2>1, <2>2, <2>3, SessionsKept
<1>3. c \notin hubClients'
  <2>1. ASSUME NEW k \in Tabs, NEW form \in Forms, ChatPost(k, form) PROVE c \notin hubClients'
    BY <1>0, <2>1 DEF ChatPost
  <2>2. ASSUME NEW k \in Tabs, DeleteClient(k) PROVE c \notin hubClients'
    BY <1>0, <2>2 DEF DeleteClient
  <2>3. ASSUME \A k \in Tabs : ~DeleteClient(k) /\ \A form \in Forms : ~ChatPost(k, form)
        PROVE  hubClients' = hubClients
    BY <2>3 DEF Next, Chat, Upgrade, HttpStep, ServeWs, ClientConnected, LinkLost, ReadMessage,
         ReadFails, ReadMustFail, WriterStep, WriterHearsStop, WriteMessage, PingFails, CloseDone,
         CloseDoneTwice, CloseConn, ReaderStep, ReaderChecks, PostMessage, TellSelf, TellPartner,
         DropSession, LoopStep, LoopStops, LoopTakes, LoopReturns, HandlerStep, HandlerSends,
         ClearGet, ClearPut, Stop, StopStep, StopCloses, Cancel, ClientsWaited, HandlersWaited,
         Exit, HubGo, registry
  <2> QED BY <1>0, <2>1, <2>2, <2>3
<1>4. conn'[c] # NoOne
  <2>1. ASSUME NEW k \in Tabs, ServeWs(k) PROVE conn'[c] # NoOne
    <3>1. k # NoOne
      BY PumpsAssumption
    <3> QED BY <1>0, <2>1, <3>1 DEF ServeWs, Types, TabsTyped
  <2>2. ASSUME \A k \in Tabs : ~ServeWs(k) PROVE conn' = conn
    BY <2>2 DEF Next, ChatPost, Chat, Upgrade, HttpStep, ClientConnected, LinkLost, ReadMessage,
         ReadFails, ReadMustFail, WriterStep, WriterHearsStop, WriteMessage, PingFails, CloseDone,
         CloseDoneTwice, CloseConn, ReaderStep, ReaderChecks, PostMessage, DeleteClient, TellSelf,
         TellPartner, DropSession, LoopStep, LoopStops, LoopTakes, LoopReturns, HandlerStep,
         HandlerSends, ClearGet, ClearPut, Stop, StopStep, StopCloses, Cancel, ClientsWaited,
         HandlersWaited, Exit, HubGo, clientVars
  <2> QED BY <1>0, <2>1, <2>2
<1> QED BY <1>1, <1>2, <1>3, <1>4 DEF Forgotten, NoPut

(***************************************************************************)
(* A client that has been unregistered and deleted from Redis, with no      *)
(* clear between its GET and its SET, never comes back, whatever messages   *)
(* of it and of its partners are still to be handled, by any number of      *)
(* handlers, and whether their Redis calls fail or not.                     *)
(***************************************************************************)
THEOREM ForgottenForGood == Spec => ForgottenStays
<1>1. Init => Types
  BY InitTypes
<1>2. Types /\ [Next]_pumpVars => Types'
  BY NextTypes
<1>3. Types /\ [Next]_pumpVars => [\A c \in Tabs : Forgotten(c) => Forgotten(c)']_pumpVars
  BY ForgottenKept
<1> QED BY <1>1, <1>2, <1>3, PTL DEF Spec, ForgottenStays

---------------------------------------------------------------------------
(* Who closes done.                                                        *)

Closed(j) == writer[j] \in {"closeConn", "returned"}

\* A done that is closed was closed by a WritePump of its client.
DoneByPump == \A c \in Tabs : done[c] => \E j \in Tabs : client[j] = c /\ Closed(j)

LEMMA ClosedKept ==
  ASSUME Types, Next, NEW j \in Tabs, Closed(j)
  PROVE  Closed(j)'
<1>1. ASSUME NEW k \in Tabs, ClientConnected(k) PROVE Closed(j)'
  <2>1. writer[k] = "off"
    BY <1>1 DEF ClientConnected, AtStage, Types, PumpsPaired
  <2> QED BY <1>1, <2>1 DEF ClientConnected, Closed, Types, TabsTyped
<1>2. ASSUME NEW k \in Tabs, WriterStep(k) PROVE Closed(j)'
  BY <1>2 DEF WriterStep, WriterHearsStop, WriteMessage, PingFails, CloseDone, CloseDoneTwice,
              CloseConn, WriterAt, WriterGo, Closed, Types, TabsTyped
<1>3. ASSUME \A k \in Tabs : ~ClientConnected(k) /\ ~WriterStep(k)
      PROVE  writer' = writer
  BY <1>3 DEF Next, ChatPost, Chat, Upgrade, HttpStep, ServeWs, LinkLost, ReadMessage, ReadFails,
       ReadMustFail, ReaderStep, ReaderChecks, PostMessage, DeleteClient, TellSelf, TellPartner,
       DropSession, LoopStep, LoopStops, LoopTakes, LoopReturns, HandlerStep, HandlerSends,
       ClearGet, ClearPut, Stop, StopStep, StopCloses, Cancel, ClientsWaited, HandlersWaited,
       Exit, HubGo
<1> QED BY <1>1, <1>2, <1>3 DEF Closed

LEMMA NextDoneByPump ==
  ASSUME Types, DoneByPump, Next
  PROVE  DoneByPump'
<1> SUFFICES ASSUME NEW c \in Tabs, done'[c]
             PROVE  \E j \in Tabs : client'[j] = c /\ Closed(j)'
  BY DEF DoneByPump
<1>1. CASE done[c]
  <2>1. PICK j \in Tabs : client[j] = c /\ Closed(j)
    BY <1>1 DEF DoneByPump
  <2>2. client[j] # NoOne
    BY <2>1, PumpsAssumption
  <2> QED BY <2>1, <2>2, ClientsKept, ClosedKept
<1>2. CASE ~done[c]
  <2>1. ASSUME NEW k \in Tabs, CloseDone(k) PROVE client'[k] = c /\ Closed(k)'
    BY <1>2, <2>1 DEF CloseDone, WriterAt, WriterGo, Closed, web, Types, TabsTyped
  <2>2. ASSUME \A k \in Tabs : ~CloseDone(k) PROVE done' = done
    BY <2>2 DEF Next, ChatPost, Chat, Upgrade, HttpStep, ServeWs, ClientConnected, LinkLost,
         ReadMessage, ReadFails, ReadMustFail, WriterStep, WriterHearsStop, WriteMessage, PingFails,
         CloseDoneTwice, CloseConn, ReaderStep, ReaderChecks, PostMessage, DeleteClient, TellSelf,
         TellPartner, DropSession, LoopStep, LoopStops, LoopTakes, LoopReturns, HandlerStep,
         HandlerSends, ClearGet, ClearPut, Stop, StopStep, StopCloses, Cancel, ClientsWaited,
         HandlersWaited, Exit, HubGo, clientVars
  <2> QED BY <1>2, <2>1, <2>2
<1> QED BY <1>1, <1>2

(***************************************************************************)
(* Whoever shares a browser, and however often pages are loaded again: a    *)
(* WritePump finds done closed only because the WritePump of another        *)
(* WebSocket of the same client has closed it.  So the process is taken     *)
(* down, as the run that violates PumpsSurvive shows it, by a second        *)
(* WebSocket of a client and by nothing else.                               *)
(***************************************************************************)
THEOREM SecondSocketIsTheCause == Spec => []ClosedByAnotherSocket
<1>1. Init => Types /\ DoneByPump
  <2>1. Init => DoneByPump
    BY DEF Init, DoneByPump
  <2> QED BY <2>1, InitTypes
<1>2. Types /\ DoneByPump /\ [Next]_pumpVars => (Types /\ DoneByPump)'
  <2> SUFFICES ASSUME Types, DoneByPump, [Next]_pumpVars
               PROVE  (Types /\ DoneByPump)'
    OBVIOUS
  <2>1. CASE UNCHANGED pumpVars
    <3>1. DoneByPump'
      BY <2>1 DEF DoneByPump, Closed, pumpVars, web, clientVars
    <3> QED BY <3>1, NextTypes
  <2>2. CASE Next
    BY <2>2, NextDoneByPump, NextTypes
  <2> QED BY <2>1, <2>2
<1>3. Types /\ DoneByPump => ClosedByAnotherSocket
  <2> SUFFICES ASSUME Types, DoneByPump, NEW k \in Tabs, writer[k] = "closeDone", done[client[k]]
               PROVE  \E j \in Tabs \ {k} : client[j] = client[k] /\ Closed(j)
    BY DEF ClosedByAnotherSocket, Closed
  <2>1. client[k] \in Tabs
    BY DEF Types, TabsTyped, PumpsPaired
  <2>2. PICK j \in Tabs : client[j] = client[k] /\ Closed(j)
    BY <2>1 DEF DoneByPump
  <2>3. j # k
    BY <2>2 DEF Closed
  <2> QED BY <2>2, <2>3
<1> QED BY <1>1, <1>2, <1>3, PTL DEF Spec

=============================================================================
