# Verification of Chatopia

Chatopia pairs strangers for text or video chats. A Go server keeps one WebSocket per
visitor, finds partners through a Lua script in Redis, and hands two browsers a pair of peer
ids with which they connect to each other over WebRTC. This directory holds TLA+
specifications of that server and of the two browsers of a chat, the TLC configurations that
check them on small instances, and proofs that TLAPS checks for every value of the constants.

    tlc -workers 2 -config MCHubRules.cfg MCHub      # model-check one configuration
    tlapm HubProofs.tla                              # check the proofs of one module

All paths below are relative to `src/`.

## 1. The system

| component | code | state it keeps | operations |
|---|---|---|---|
| matching rules and script | `internal/redis/match.go` | none of its own: runs inside Redis | `Match` (one Lua script) |
| session and queue store | `internal/redis/session.go`, `queue.go`, `keys.go` | `session:<id>` (24 h TTL), ZSETs `queue:text`, `queue:video` (1 h TTL) | `Save`, `GetSession`, `ClearPartnerFields`, `DeleteSession`, `RemoveFromQueue` |
| match notifications | `internal/redis/pubsub.go` | a Redis channel per session, a Go channel per subscription | `NotifyMatch`, `SubscribeMatch` |
| hub: searches | `internal/matchmaking/hub.go` | `Hub.clients` | `StartMatchmaking`, `waitForMatch`, `connectPairedClients` |
| hub: messages | `internal/matchmaking/hub.go` | `Hub.receive`, `handlerWg` | the four message types of `Start`, `RegisterClient`, `UnregisterClient` |
| client pairing | `internal/matchmaking/client.go` | `Client.ChatPartner` | `Connect`, `Disconnect` |
| client pumps, shutdown | `client.go`, `hub.go`, `cmd/web/server.go` | `send`, `done`, the connection, `ctx`, `clientWg` | `ReadPump`, `WritePump`, `SendMessage`, `ClientConnected`, `Stop`, `serve` |
| web handlers | `cmd/web/handlers.go`, `helpers.go`, `middleware.go`, `routes.go` | the session cookie | `home`, `chatPost`, `chat`, `ServeWs` |
| browser chat | `public/assets/chat.js`, `ui/templates/*.templ` | PeerJS peer, connection, retries, the action button | the PeerJS callbacks, the buttons |
| metrics | `internal/metrics`, `cmd/web/metrics.go` | Prometheus counters and gauges | `Inc`, `Dec`, `Observe` |
| message codec, logging, configuration, vendored scripts | | none that control flow reads | |

How they interact. `POST /chat/{type}` saves a session in Redis and puts a `Client` into
`Hub.clients`; `GET /chat-ws` opens its WebSocket, starts its two pumps and its first search.
`ReadPump` sends messages over `Hub.receive`, and `Hub.Start` runs *one goroutine per
message*; `new_connection` starts a further search. A search is a goroutine too: it reads the
client's session, runs the script, and either connects the pair the script found, after
publishing a notification for the partner, or subscribes to its own notifications and waits
for 30 s. Nothing but Redis's own atomicity orders any of these: `Client.ChatPartner` is read
and written by all of them without a lock, and the `sync.Map` is only safe per call.

What is hard here:

* overlapping searches of one client (first search, *New Chat*, notified goroutine) and of
  two clients that were told of the same match;
* `ChatPartner` tested and then used, tested and then written;
* sessions read by one command and written back by another;
* a subscription that starts after the client can already be matched;
* searches that end halfway, after the script has taken both clients out of the queue;
* keys that expire, calls that fail, a process that restarts over a Redis that does not;
* two goroutines per WebSocket that have to end each other, full channels, a shutdown that waits
  for all of them, and several WebSockets for one session;
* browsers whose callbacks outlive the pair of ids they were made for, and sockets that close in
  the middle of an offer.

What makes the components correct:

* *rules and script*: the loop finds the oldest live entry with a shared interest, else the
  oldest fallback; a strict client is never matched without a shared interest; pairing takes
  both clients out of the queue, not pairing adds the caller once.
* *store*: two clients that may chat never both wait; the partner a session names is one the
  rules allow, after any number of expiries, clears and re-matches.
* *searches, messages, pairing*: nobody is put into a chat the rules forbid; all searches
  end; first chats come about, are mutual and are not taken over; partners hold two ends of one
  pair of peer ids; a page that says "Searching..." is being searched for; no message
  ends the process.
* *notifications*: a wait hears the first message published for its client since it subscribed, and
  no other; the subscriber's goroutine does not outlive the wait.
* *pumps, web handlers*: no `done` is closed twice; the live-user counter counts; a page that is
  gone is forgotten; shutdown terminates and cleans up; a slow client does not block others for ever.
* *browser*: callbacks of an earlier peer do not disturb a later chat; a pair chats, or a page says
  that it cannot, after boundedly many attempts.

`PROJECT.json` lists the places in the code where these can go wrong ("hazards"), each with the
properties that watch it.

## 2. The modules

    MatchRules            who may chat with whom
      RedisStore          the keys, and each command as one atomic operator
        MatchQueue        what the store promises under any callers      (abstract)
          MatchScript     the Lua loop, command by command               (implements MatchQueue)
        Hub               clients, searches, handlers, faults, restart   (implements MatchQueue, Mailbox)
    Mailbox               what a subscription promises its waiter        (abstract)
      Notifier            the subscriber's goroutine and channels        (implements Mailbox)
    ChatForm              what the form lets through
      ClientPumps         sessions, WebSockets, pumps, the hub's loop, shutdown
    PeerHandshake         the two browsers of a chat

    RedisStoreProofs      lemmas on single commands
      MatchQueueProofs    theorems about MatchQueue, and that MatchScript implements it
      HubProofs           the hub's types, and whom its clients may be connected to
        HubRefinementProofs   Hub implements MatchQueue and Mailbox
          HubFirstChatsProofs first chats come about and are not taken over
    NotifierProofs        Notifier's types, and that it implements Mailbox
    ClientPumpsProofs     theorems about ClientPumps
    PeerHandshakeProofs   theorems about PeerHandshake
    MCMatchScript, MCHub, MCNotifier, MCClientPumps, MCPeerHandshake
                          instances for TLC

`Hub`, `ClientPumps` and `PeerHandshake` describe the same program at three places, and meet where one's
inputs are the other's outputs: a search starts with `ServeWs` in both of the first two, `ClientPumps`
leaves open whom a handler finds as its sender's partner and `Hub` says it, and `Hub` sends the
`ChatInner` with which a round of `PeerHandshake` begins. `Mailbox` is the joint between `Hub` and
`Notifier`: what a search relies on, and what the goroutine delivers.

### MatchRules and RedisStore

The data a client is matched on (chat type, strictness, interests) is fixed by the form and
never changes, so it is a parameter: `ChatType`, `IsStrict`, `Interests`. `IdRank` stands for
the order of the id strings, which breaks ties between equal scores in a ZSET.
`FormAssumption` is what `validateInterests` lets through.

`session[c]` is `Absent` or the stored `partner_id` (`NoOne` for `""`). `room_id` is not kept
apart: every writer sets and clears it together with `partner_id`, to a value that is a
function of the two ids, so "the notification has a room" is "it has a partner". `queue[c]` is
`Absent` or the score. The two ZSETs are one function because an id never changes its type.
The match script appears here as what it leaves behind (`MatchFound`, `MatchEnqueue`,
`MatchNoSession`).

### MatchQueue

The abstract specification of the store. Any client may be matched, cleared, removed or
deleted at any moment; sessions and queues may expire between any two commands;
`ClearPartnerFields` is a `GET` and a `SET`, with anything in between, and may be lost after
the `GET`. `registered` and `clearing` are what a caller must have done before; the score of a
match was read earlier and may lag the clock.

### MatchScript

The script as the loop it is: `ZRANGE` once, then one candidate after the other, each
`redis.call` changing the keys where it stands in the text, the early return on the first
shared interest, the remembered fallback, the final `ZADD`. Redis runs nothing else meanwhile,
so `OtherCommand` is only enabled between runs. `ScriptImplementsMatch` maps it to `MatchQueue` by
showing the keys as they were until the script returns: the whole loop is one `MatchStep`.
`NoMissedMatch` and `PartnerFieldsObeyRules` are stated of the keys as they are, so they are checked and
proved between any two calls of a running script, too; `MatchQueue` is model-checked by way of the loop.

### Hub

The server. `search[t]` is a `StartMatchmaking` goroutine with its program counter and locals,
`handler[t]` the handler of a message (or the deferred `UnregisterClient`); a client id names
the search `ServeWs` starts for it and its unregistration, a message id the message's handler
and the search it may start. Every read or write of a `ChatPartner`, every Redis command,
every access to the map and every delivery to a page is a step of its own, which is what the
code's lack of locks allows.

| in the model | in the code |
|---|---|
| `Register`, `ServeWs`, `Leave`, `Send` | `chatPost`/`RegisterClient`, `ServeWs`, the end of `ReadPump`, a message read by `ReadPump` |
| `GetSession` ... `LookupPartner` | `StartMatchmaking` up to the map lookup of `connectPairedClients`; a script that fails and the button it shows are `RunMatchFails` and `ShowMatchFailed` |
| `Notify`, `NotifyFails`, `Subscribe`, `ReceiveNotify`, `CheckNotified`, `Timeout`, `StopWaiting` | `NotifyMatch`, `SubscribeMatch`, the three branches of `waitForMatch` |
| `ConnectCheckSelf` ... `ConnectSetPartner` | the two tests and the two writes of `Client.Connect` |
| `ShowInner*`, `ShowConnecting*` | `renderAndSend` and the messages after it |
| `PeerConnected`, `CheckPartner`, `UsePartner`, `UsePartnerAgain`, `NilPartner` | `typing` and `peer_connected`, with each read of `ChatPartner` |
| `StartEnd`, `Disconnect*`, `ClearGet`, `ClearPut`, `SearchAgain`, `EndTellSelf` | `new_connection` and `end_connection` |
| `DeleteClient`, `Disconnect*`, `Unregister*` | `UnregisterClient` |
| `Stop`, `Exit`, `Restart` | `Hub.Stop`, the end or kill of the process, compose's restart |
| `SessionExpires`, `QueueExpires` | the two TTLs |

What is abstracted, and why it may be:

* A page is its action button and the search whose `ChatInner` it shows. The status line is sent
  together with the button each time and changes nothing else, so the two are one delivery. The
  one status sent alone (`new_connection` tells the old partner "disconnected") is left out.
* A delivery reaches the page at once. In the code it waits in `send` (`ClientPumps`); what the page
  does with it, though, comes back only as a message, whose handler may start at any later time in
  the model too. Pages whose connection is gone ignore deliveries.
* `Hub.receive` keeps order, but each message gets a goroutine, so handlers start in any order:
  `Send` puts the handler into `"start"` and anything may happen before it moves.
* A published message reaches the subscriptions that Redis has by then, and a subscription takes
  one message: `inbox`. With `MayFail` any of them may miss it, and `NotifyMatch` may report an error
  after some or all have heard it (`Publish` is the part both have in common). `MayExpire` lets
  keys reach their time to live.
* A failing Redis call may or may not have been carried out; with `MayFail` each call has these
  outcomes where the code goes on differently. A registration that fails is no behaviour: its
  id is never used.
* Metrics, logging and the time stamps for them are left out; no control flow reads them.

### Mailbox and Notifier

`SubscribeMatch` starts a goroutine between go-redis's channel of messages and `notifyChan`, a channel of
capacity 1, and returns a cleanup function that closes the channel `closed`. `Notifier` has each `select`
branch, the send, the deferred `close` and the cleanup as steps of their own, against the loop of
`waitForMatch`, a Redis that takes the `SUBSCRIBE` some time later, and messages that may be lost.
`Mailbox` is what the waiting side may rely on: at most one notification, the first published for its
client since the subscription was taken; after one without a room nothing more comes. `BoxOf` and
`FirstNote` say where that notification is at each moment: in go-redis's channel, in the goroutine, in
`notifyChan`. `Hub` has the mailbox as the fields `pc` and `inbox` of a search.

### ChatForm and ClientPumps

`ChatForm` is `validateInterests` on forms whose interests have a topic and a length. `ClientPumps` goes
from there to the two pumps and back:

| in the model | in the code |
|---|---|
| `ChatPost`, `Chat`, `Upgrade`, `ServeWs` | the handlers of `handlers.go`, behind `authenticate` and `requireAuthentication` |
| `ClientConnected` | the count and the two `clientWg.Go` |
| `WriterHearsStop`, `WriteMessage`, `PingFails`, `CloseDone`, `CloseConn` | the three branches of `WritePump`'s `select` and its deferred function |
| `ReaderChecks`, `ReadMessage`, `PostMessage`, `ReadFails` | the loop of `ReadPump`; the post blocks; a read may also fail on an open connection (malformed JSON, a message too long), which then stays open |
| `DeleteClient`, `TellSelf`, `TellPartner`, `DropSession` | the deferred `UnregisterClient`; with `MayFail` its `DEL` may fail, which is only logged |
| `SendMessage` | the `select` on `send` and `done` |
| `HandlerSends`, `ClearGet`, `ClearPut` | what a handler sends, and the `GET` and the `SET` of `ClearPartnerFields` |
| `LoopTakes`, `LoopStops`, `LoopReturns` | `Hub.Start`: one goroutine per message, `handlerWg` |
| `Stop`, `StopCloses`, `Cancel`, `ClientsWaited`, `HandlersWaited`, `Exit` | `Hub.Stop` and the end of `serve` |

A tab is a page with one WebSocket; a reload or a reconnect is a second tab of the same browser, which
has the same cookie and so the same `Client`. `browser` says which tabs share one. What messages say is
left out: `sendq` is a length, `receive` the senders. A handler is the sequence of what it has still to
do: a send, a clear, or the write half of one (`"put"`), each with the client it is for. `Targets` has
the sequences of the four kinds of message, for any partner the sender may have; several sends to one
client in a row count as one.

### PeerHandshake

`initChat`, the callbacks it installs, `setupChat` and `showError`, for two pages that the hub pairs in
rounds. A page gets each round in its own time, so one page may still be at the last pair when the other
has gone on. `peer[p][r]` is the `Peer` that page p made for round r, `server[p][r]` what the PeerServer
knows of its id, `conns[r]` the connections of the round with how far each has come and at which ends it
is open. `LeftBehind` is the odd case of `destroy()`: it emits "disconnected" while `window.peer` is still
this peer, so the guard of `chat.js:93` passes and the handler reconnects an object that is then
destroyed; its id stays registered though nobody listens ("deaf").

PeerJS, the PeerServer and WebRTC are external: an offer is delivered, answered by EXPIRE
("peer-unavailable"), or swallowed by a socket nobody reads; what is on its way through a socket may be
lost when it closes, and so is an answer to an id the PeerServer no longer knows (`Unanswered`): `"lost"`.
A connection that is answered may find no way through the network (`Fails`): `"failed"`, an error event
that `chat.js` only writes to the console.

## 3. What TLC checks

All runs take minutes on two cores. Deadlock is checked for the script; not in the other
runs: nobody has to connect, leave or write, so the system may stop.

| run | configuration | shows |
|---|---|---|
| `match_script` | `MCMatchScript.cfg` | the loop computes the atomic match (`ScriptImplementsMatch`, `LoopInvariant`), and the store keeps its promises between any two calls: `NoMissedMatch`, `PartnerFieldsObeyRules`, `PairedLeaveQueue`; four clients, equal, different and lagging scores |
| `hub_rules` | `MCHubRules.cfg` | `PairsObeyRules`, and `FirstChatsComeAbout` and `FirstChatNotTakenOver` until somebody asks again: three clients, two of which must not meet, and a *New Chat* |
| `hub_faults` | `MCHubFaults.cfg` | `ImplementsMatchQueue` with failing calls, expiry, a client that leaves, stop, kill and restart |
| `hub_ends` | `MCHubEnds.cfg` | `EverySearchEnds` under fairness, `ImplementsMatchQueue` and `ImplementsMailbox`, with failing calls and every kind of message |
| `notifier` | `MCNotifier.cfg` | `ImplementsMailbox`, `EverySubscriptionEnds` (the goroutine, and the subscription of a wait that heard nothing; after a message the connection is left open): three subscriptions of two clients, messages that are lost |
| `pumps` | `MCPumps.cfg` | `PumpsTypeOK` (with the live-user counter), `ClosedByAnotherSocket`, `ForgottenStays`, and under fairness `HandlersReturn`, `GoneIsForgotten`, `StopReturns`: with clears, failing reads and failing Redis calls |
| `peers` | `MCPeers.cfg` | `ChatIsCurrent`, `GivesUp`, `NeverStranded`, `ChatsOrTells`: two rounds, sockets that close, connections that fail, *New Chat* at any moment |
| `hub_peer_ids` | `MCHubIds.cfg` | violated: both goroutines connect the pair, the pages hold different peer ids |
| `hub_nil_partner` | `MCHubPanic.cfg` | violated: `ChatPartner` is nil at the second read, the process ends |
| `hub_stuck_searching` | `MCHubStuck.cfg` | violated: the partner is gone, the search ends without a word |
| `pumps_second_socket` | `MCSecondSocket.cfg` | violated: two WebSockets of one session close one `done` twice |
| `pumps_cleanup` | `MCCleanup.cfg` | violated: a handler writes the session of a client back after its `DEL`, and `Stop` does not wait for that |

The five violations are behaviours of the code that contradict what it says of itself;
`PROJECT.json` quotes the lines ("findings"). In short:

1. *Two pairs of peer ids.* `waitForMatch` tests `ChatPartner` before it reads a session and
   calls `connectPairedClients`; the matcher may be between the tests and the writes of `Connect`
   at that time. Both goroutines connect the same two clients, each with fresh peer ids, and
   the two pages may end up with ids of different pairs. This needs no failure, no second search
   and no third client.
2. *A nil partner.* `typing` tests `message.From.ChatPartner` and reads it again; the partner's
   *New Chat* or departure clears it in between. The handler's goroutine does not recover.
3. *Searching for ever.* A search whose partner was unregistered before the lookup returns
   silently; both clients are out of the queue and the button stays disabled.
4. *A second socket.* A reload, a reconnect or a second tab gives one `Client` a second pair of pumps.
   Both `WritePump`s close `done`; the second close panics inside the deferred function, before it gets
   to its own `recover()`, and the process ends. Nothing else closes
   a `done` twice (`SecondSocketIsTheCause`, proved).
5. *A session that comes back.* `new_connection` clears the partner fields of its sender with a `GET` and
   a `SET`. When the sender leaves meanwhile, the `SET` follows the `DEL` of `UnregisterClient`: the
   session stays in Redis for 24 hours, at a shutdown too, where the hub waits for its clients so that
   the cleanup completes. No call has to fail. This and a failing `DEL` are the only ways (`StopCleansUp`,
   proved); once a client is gone from Redis, it stays gone (`ForgottenStays`).

Two exceptions in properties are statements about the code. `StopReturns` does not hold
when a `ReadPump` waits to post to a full `receive` after the loop has stopped (`PostStuck`): `client.go:104`
watches nothing but the channel, and with 256 messages in it `Hub.Stop` waits for ever, although the
context that should end the pumps (`hub.go:36-37`) is cancelled. `ChatsOrTells` and `NeverStranded` let
a pair stay silent when its *last* connection was lost on its way between two sockets thought open, or has failed after its answer (`Silent`): `chat.js` has no
timeout for the first and only logs the second, and the page stays on "Connecting..." with a disabled
button. A lost or failed connection with another one after it excuses nothing.

`GoneIsForgotten` speaks of `Hub.clients`: that a session leaves Redis is `CleanupCompletes` and
`ForgottenStays`.

### Bounds, and why they are enough

* *Clients.* Two for what concerns one pair; three for takeovers and wrong pairs, with
  interests such that one client may meet both others and those two must not meet (a strict one
  among them); four for the store, strict and not, of one chat type: the
  queues of the two types never meet. `NoMissedMatch` itself
  bounds what a queue can hold: at most one non-strict client, and no two with a common interest,
  so a longer queue holds only further strict clients of pairwise disjoint interests. Four
  clients reach a queue with two entries the caller shares an interest with, and the order
  between an interest hit and a fallback.
* *Messages.* At most one per behaviour of `Hub`. It adds a handler and, for `new_connection`, a second
  search of the same client, overlapping its first: the interleavings of interest. The theorems
  of section 4 hold for any number.
  In `hub_rules` it is sent only when the first search is over or has passed the tests of
  `Connect` (the `CONSTRAINT` `AskLate` of `MCHub`): where a second search can meet a first one
  that is still going to write.
  In `hub_ends` the other client may leave only while that message's handler is about to use it
  (`LeaveLate`): the nil partner; `hub_faults` has departures at any time.
* *Script.* A script runs alone, so clears matter to it one at a time (`OneClearing`).
* *Subscriptions.* Three, two of them of one client, and two messages (`MaxPublished`): one that is taken
  and one that comes behind it.
* *Pumps.* Two tabs, of two browsers or of one; channels of capacity 1 instead of 256 (`SendCap`,
  `ReceiveCap`: full is full), one handler at a time (`Handlers`). `Quiet` keeps the two scenarios apart:
  two tabs of one browser (one form, nothing said, no shutdown), and two browsers, the first ahead of the
  second, whose page speaks and leaves, with a shutdown at any moment. `FewClears` adds
  in `pumps` that clears, which keep nobody waiting, come only in handlers of a client without a partner and
  not during the shutdown, and that no read of an open connection fails once `Stop` has begun;
  `pumps_cleanup` has them at any time, and `ForgottenForGood` is proved for all.
* *Peers.* Two rounds (`MaxRound`) with the caller's and callee's roles exchanged; one reconnect and one
  retry instead of three each: the counters are only compared with their limits. `SecondIsCalm`: the
  sockets of the second round stay open and nobody leaves it; what matters there is what still comes from
  the first.
* *Clock.* `MaxClock` 0 or 1: equal and different scores, and a score that lags by one.
* *Faults.* Not bounded in number: each call may fail each time it is made, and the process may
  restart any number of times. In `hub_ends` nothing expires: a vanished session ends a search at
  once, by the same step as a failing read.

### Fairness

`FairSpec` assumes weak fairness of each search and each handler as a whole, and of `Restart`:
goroutines get scheduled, Redis calls return (they carry `context.Background()`, but
`redis/client.go:29-31` sets timeouts of 3 and 5 s), `time.After` fires, and compose restarts the
container. A waiting
search can always take `Timeout`, so `EverySearchEnds` does not depend on a notification. No fairness
is assumed of clients, of messages, of expiry or of the clock.

`Notifier`: the subscriber's goroutine is scheduled; the `select` may take either of two ready branches,
but one that stays ready is taken in the end. Neither waiters nor Redis are assumed fair.

`ClientPumps`: each pump, each handler, the loop, `Stop` and the handlers of HTTP requests are scheduled;
`PingFails` and `ReadMustFail` (the read of a connection that is closed or whose other end has gone) are
fair because the ping period and the read deadline are timers. No read of an open connection has to fail.
No fairness of visitors, of what they send, or of the signal.

`PeerHandshake`: a socket that is opening opens or fails, an offer is delivered or answered, timers fire,
a connection that is answered opens or fails. Nobody has to click, and no socket has to stay
open or to close.

## 4. What is proved

Assumptions: the named `ASSUME` of each module, which say that the parameters have their types, that
null values are not ids, that ids have distinct ranks, and in `ClientPumps` that there are finitely many
tabs (they are counted). No bound of a configuration is one of them: `Clients`, `Messages`, `Subs` and
`Handlers` may be infinite sets, `MaxClock`, `MaxRound`, the capacities and the limits any number.

* `MatchQueueTypeCorrect`, `HubTypeCorrect`: type correctness. `HubTypeOK` is inductive as it stands:
  it says which locals a goroutine has at which step. The proof splits it into what goroutines
  share (`SharedOK`) and the goroutines (`ThreadsOK`), and has one step per action.
* `NoMatchIsMissed`: `[]NoMissedMatch`. It is inductive given the types. The argument: an entry is
  added only by a run of the script that found nobody, and such a run has looked at the *whole*
  queue (`NobodyFound`), removed the stale entries and seen that the live ones are not eligible
  (`EnqueuedIsAlone`); all other commands only shrink the queue (`QueueOnlyGrowsByEnqueue`). That
  the script returns the oldest entry rests on a least element of a set of scores, then of
  ids (`LeastNatural`, `OldestIsFirst`).
* `LoopMissesNoMatch`, `LoopObeysRules`: the same for each `redis.call` of the loop. Only `EnqueueSelf` adds
  an entry (`OnlyEnqueueAdds`), when all others have been seen (`EnqueueMissesNobody`); who pairs has found
  the entry of a client the rules allow (`PairsWithWaiting`).
* `PairingLeavesNoEntry`: the script returns on the first shared interest, before it may have reached
  the caller's own stale entry. By `NoMissedMatch` there is none: caller and partner would both
  have been waiting.
* `PartnersObeyRules`: sessions name allowed partners only. Symmetry of the rules
  (`CompatibleSymmetric`) is what makes the second write right.
* `ChatsObeyRules`: `[]PairsObeyRules` for the hub. Not inductive: `Connect` uses a partner that
  was found many steps ago. `PairingInv` adds every place a partner may come from: sessions, the
  partner a search goes on with, the `partner_id` it has read for the notification, and the
  notification that waits at a subscriber (`FoundByRules`).
* `HubImplementsMatchQueue`: the refinement. Every step of a search is a run of the script or a
  stutter, every step of a handler a clear, a removal, a deletion or a stutter; a handler that
  fails or is killed between the `GET` and the `SET` is a `ClearLost`. The one invariant it needs,
  `SessionsRegistered`, is itself preserved because the abstract steps preserve it.
* `HubMissesNoMatch`: hence `NoMissedMatch` holds of the store the hub uses.
* `ScriptTypeCorrect`, `LoopCorrect`, `ScriptIsMatch`: the Lua loop. `LoopInvariant` is not inductive:
  the step at candidate i needs that the list is in the order of scores and ids and has no entry twice
  (`ListInOrder`), that what is to come is as `ZRANGE` found it (`RestUntouched`), and that the
  remembered fallback comes first among those passed (`FallbackFirst`). The refinement is then one lemma
  per way to return: a shared interest at candidate i is the oldest one because none before it had
  one; a fallback is the oldest because no candidate had one; a new entry means that nobody was
  allowed. That a list exists at all (a queue is finite, however many clients there are) is part of the
  invariant.
* `FirstChatsStay`: `FirstChatNotTakenOver`, with every failure, expiry and restart. `Connect` tests and
  then writes, and anything may happen in between; what saves a first chat is that everybody who acts for
  one client has heard of the *same* partner. `FirstMates` says so: there is one pairing `mate` of the
  clients, and every session, every `ChatPartner`, every local of a search and every waiting
  notification agrees with it (`Mates`). A pairing is only added to, and by a match of the script, at
  which both clients are out of the queue and neither searches again (`MatesPaired`); all
  other steps hand on what is known (`SearchLearns`, shared with `ChatsObeyRules`).
* `FirstChatsMade`: `[]FirstChatsComeAbout` under the hypothesis `Faultless` (`MayFail`, `MayExpire` and
  `MayStop` are false). The hypothesis is what the property needs, not the proof: with
  any one of the three true TLC finds two clients left apart (a search that ends at a failed read; a
  session that expires; a client matched with one from before a restart). It is the choice of the
  constants that `hub_rules` makes too. `FirstChatsInv` adds to the pairing that a match is
  not lost: until a pair is connected one of the two searches is on its way to connect it
  (`Connecting`, `MatchesProceed`), and whoever is online with nothing on its way waits in the queue
  (`NobodyLost`); so two that may chat and have no partner would both wait, which `HubMissesNoMatch` excludes.

* `HubImplementsMailbox`, `NotifierImplementsMailbox`: both sides of the subscription. For the hub each
  step of a search is a step of its mailbox or a stutter, and a restart gives up all of them at once.
  For the notifier the argument is where the first note is: publishing appends behind it
  (`OldestStays`), and taking, sending and receiving it move it on (`GoroutineMailbox`, `WaiterMailbox`).
* `NotifierTypeCorrect`: with `SubOK`, which is inductive: the send to `notifyChan` never blocks, so no
  goroutine stays behind on it.
* `PumpsTypeCorrect`: the types, and `clientCount = Cardinality(Running)`. The count is the one part that
  is not about a single tab: `CountKept` shows that each step adds or removes at most its own tab.
* `StopCleansUp`: `CleanupCompletes` for behaviours without the two causes of its violation: `~MayFail`,
  and no `SET` of a clear for a session deleted since its `GET` (`NoLateSet`). From `Dropped` (a `ReadPump`
  that has returned has dropped its client's session, and no other tab of the client writes it back) and
  the wait for the pumps (`WaitedForPumps`). So the fifth violation has no other cause.
* `ForgottenForGood`: `ForgottenStays` without any hypothesis. A form of a tab makes one client, a clear
  writes only a session it has read, and a client in neither map nor Redis is read by nobody.
* `SecondSocketIsTheCause`: `[]ClosedByAnotherSocket`, for any sharing of browsers: `done` is closed by
  `WritePump`s only, each once, at the step that leaves `"closeDone"`.
* `PeersTypeCorrect`, `ChatStaysCurrent`: `PeersInv` adds to the types that a peer that has used up its
  attempts is off, and that a connection is answered only when both peers exist (`AnswersOK`). A
  connection opens at a peer that is not destroyed, hence of the round the page shows.
* `PairGivesUp`: `[]GivesUp`. A connection comes from an opening of the caller's peer or from a timer, and
  the counters `attempts` and `retries` belong to the page, not to the round. `Budget` counts a round's
  connections together with the timers that are still to fire (`Spent`) against the openings and timers
  its page has used up (`Offers`, `Again`); a round that has yet to come has none, and one that was left
  keeps what it had. A timer that fires spends what it stood for (`RetryBudget`); the disconnect that
  `destroy()` causes is counted too (`NewChatBudget`).
* `PairIsNotStranded`: `[]NeverStranded`, the safety half of `ChatsOrTells`: until both pages chat, or one says
  that it cannot, some socket, timer, offer or end of a connection still has a step to take. `HopeInv`: a
  caller that is open and shows no error has a last connection that is on its way, chats, was lost or has
  failed (`Hopeful`), and each end that opened has wired the chat form (`TellsOrChats`). An offer to an unknown
  callee is the critical step (`PeerUnavailableHope`): the timer, the next opening or the error takes over.
  What TLC alone shows is that the step is taken.

Every invariant and every safety property of the passing runs is stated by a theorem. Only model-checked
is liveness: `EverySearchEnds`, `EverySubscriptionEnds`, `HandlersReturn`, `GoneIsForgotten`, `StopReturns`
and `ChatsOrTells`; fairness and `ENABLED` are out of the prover's reach.

## 5. What is not modelled

* *Further WebSockets in `Hub`.* There a client has one WebSocket and one first search. Each further
  WebSocket of a session (a reload, a reconnect, a second tab) starts another search of the same client
  (`handlers.go:109-121`), which `ClientPumps` has as a tab but `Hub` has not; a further search of a client
  is there only what *New Chat* starts. `FirstChatsComeAbout`, `FirstChatNotTakenOver` and their theorems
  speak of clients with one WebSocket for that reason: a further one asks again.
* *Cameras and calls* of `chat.js`, chat bubbles, the typing animation, media buttons: user interface
  without a protocol.
* *Metrics.* No control flow reads them. `ActiveChats` is incremented by each of the two peers and
  decremented once per chat (`metrics.go:58`).
* *The rest of the middleware* (request ids, real IP, caching, panic recovery), `home`, `about`,
  `liveUsers`, `ping`: no state.
* `Encode`/`Decode` of messages, which nothing calls. Logging, templates and the Go code generated from
  them, configuration, vendored scripts.
* *A chat after a New Chat.* A late `Disconnect` can end somebody else's new chat (`client.go:187`), and a
  client can be connected to one that has left (`hub.go:365`). Both are behaviours of `Hub`; the code
  makes no promise that they break, so no property states one.

## 6. What could follow

1. The safety half of termination as theorems: that each step of a search or of a subscription brings it
   nearer to its end, and that no other step takes it back.
2. An abstract specification of a chat as its two ends see it, once the code decides who may end it.
