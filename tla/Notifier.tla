------------------------------ MODULE Notifier ------------------------------
(***************************************************************************)
(* Match notifications (src/internal/redis/pubsub.go): SubscribeMatch, the  *)
(* goroutine it starts, its channels and its cleanup function, under the    *)
(* loop of waitForMatch (src/internal/matchmaking/hub.go) that reads them.  *)
(*                                                                          *)
(* The context of a subscription is context.Background(), never done, and   *)
(* its messages are written by NotifyMatch alone, so that they decode: the  *)
(* branches for a cancelled context, a closed msgChan and an undecodable    *)
(* payload are never taken.  A receive from the closed notifyChan gives a   *)
(* notification without a room, which waitForMatch ignores: that step       *)
(* changes nothing.                                                         *)
(***************************************************************************)
EXTENDS Sequences, Naturals

CONSTANTS
  Subs,         \* calls of SubscribeMatch
  Clients,      \* sessions
  Channel,      \* [Subs -> Clients], NotifyKey of the session subscribed to
  NoOne, Absent,
  MayLose,      \* a connection to Redis may break: messages miss subscribers
  MaxPublished  \* bound on the messages published in a behaviour

ASSUME NotifierAssumption ==
  /\ Channel \in [Subs -> Clients]
  /\ NoOne \notin Clients /\ Absent \notin Clients \cup {NoOne}
  /\ MayLose \in BOOLEAN
  /\ MaxPublished \in Nat

\* A notification is the partner it names, NoOne when it has no room.
Notes == Clients \cup {NoOne}

VARIABLES
  waiter,       \* waitForMatch: "off", "wait", "using" (a note), "done"
  sub,          \* the Redis subscription: "none", "sent", "active", "closed"
  msgChan,      \* go-redis's channel of messages, with those on their way
  goroutine,    \* "off", "select", "send", "close" (its defer), "returned"
  notify,       \* the goroutine's decoded message
  notifyChan,   \* make(chan MatchNotification, 1)
  notifyClosed, \* close(notifyChan) has run
  closed,       \* cleanup has closed the channel of that name
  published

notifierVars == <<waiter, sub, msgChan, goroutine, notify, notifyChan, notifyClosed,
                  closed, published>>

Init ==
  /\ waiter = [u \in Subs |-> "off"]
  /\ sub = [u \in Subs |-> "none"]
  /\ msgChan = [u \in Subs |-> <<>>]
  /\ goroutine = [u \in Subs |-> "off"]
  /\ notify = [u \in Subs |-> Absent]
  /\ notifyChan = [u \in Subs |-> <<>>]
  /\ notifyClosed = [u \in Subs |-> FALSE]
  /\ closed = [u \in Subs |-> FALSE]
  /\ published = 0

SubscribeMatch(u) ==
  /\ waiter[u] = "off"
  /\ waiter' = [waiter EXCEPT ![u] = "wait"]
  /\ sub' = [sub EXCEPT ![u] = "sent"]
  /\ goroutine' = [goroutine EXCEPT ![u] = "select"]
  /\ UNCHANGED <<msgChan, notify, notifyChan, notifyClosed, closed, published>>

\* Redis gets to the SUBSCRIBE.
Subscribed(u) ==
  /\ sub[u] = "sent"
  /\ sub' = [sub EXCEPT ![u] = "active"]
  /\ UNCHANGED <<waiter, msgChan, goroutine, notify, notifyChan, notifyClosed, closed,
                 published>>

Subscribers_AnyChannel(c) == {u \in Subs : sub[u] = "active"}

Subscribers(c) == {u \in Subs : Channel[u] = c /\ sub[u] = "active"}

\* PUBLISH.  A message that is lost on its way is not sent, here.
NotifyMatch(c, note) ==
  /\ published < MaxPublished
  /\ published' = published + 1
  /\ \E reached \in SUBSET Subscribers(c) :
       /\ ~MayLose => reached = Subscribers(c)
       /\ msgChan' = [u \in Subs |-> IF u \in reached THEN Append(msgChan[u], note)
                                     ELSE msgChan[u]]
  /\ UNCHANGED <<waiter, sub, goroutine, notify, notifyChan, notifyClosed, closed>>

---------------------------------------------------------------------------
(* The goroutine.                                                          *)

TakeMessage_Loop(u) ==
  /\ goroutine[u] = "select"
  /\ msgChan[u] # <<>>
  /\ Len(notifyChan[u]) < 1
  /\ msgChan' = [msgChan EXCEPT ![u] = Tail(@)]
  /\ notify' = [notify EXCEPT ![u] = Head(msgChan[u])]
  /\ notifyChan' = [notifyChan EXCEPT ![u] = Append(@, Head(msgChan[u]))]
  /\ UNCHANGED <<waiter, sub, goroutine, notifyClosed, closed, published>>

TakeMessage(u) ==
  /\ goroutine[u] = "select"
  /\ msgChan[u] # <<>>
  /\ msgChan' = [msgChan EXCEPT ![u] = Tail(@)]
  /\ notify' = [notify EXCEPT ![u] = Head(msgChan[u])]
  /\ goroutine' = [goroutine EXCEPT ![u] = "send"]
  /\ UNCHANGED <<waiter, sub, notifyChan, notifyClosed, closed, published>>

\* "notifyChan <- notify; return": the subscription is not closed here.
SendNote(u) ==
  /\ goroutine[u] = "send"
  /\ Len(notifyChan[u]) < 1
  /\ notifyChan' = [notifyChan EXCEPT ![u] = Append(@, notify[u])]
  /\ goroutine' = [goroutine EXCEPT ![u] = "close"]
  /\ UNCHANGED <<waiter, sub, msgChan, notify, notifyClosed, closed, published>>

\* "<-closed": pubsub.Close().
HearCleanup(u) ==
  /\ goroutine[u] = "select"
  /\ closed[u]
  /\ sub' = [sub EXCEPT ![u] = "closed"]
  /\ goroutine' = [goroutine EXCEPT ![u] = "close"]
  /\ UNCHANGED <<waiter, msgChan, notify, notifyChan, notifyClosed, closed, published>>

\* The deferred close(notifyChan).
CloseNotifyChan(u) ==
  /\ goroutine[u] = "close"
  /\ notifyClosed' = [notifyClosed EXCEPT ![u] = TRUE]
  /\ goroutine' = [goroutine EXCEPT ![u] = "returned"]
  /\ UNCHANGED <<waiter, sub, msgChan, notify, notifyChan, closed, published>>

---------------------------------------------------------------------------
(* The loop of waitForMatch.                                               *)

ReceiveNote(u) ==
  /\ waiter[u] = "wait"
  /\ notifyChan[u] # <<>>
  /\ notifyChan' = [notifyChan EXCEPT ![u] = Tail(@)]
  /\ waiter' = [waiter EXCEPT ![u] = IF Head(notifyChan[u]) = NoOne THEN "wait" ELSE "using"]
  /\ UNCHANGED <<sub, msgChan, goroutine, notify, notifyClosed, closed, published>>

Return_NoCleanup(u) ==
  /\ waiter[u] \in {"wait", "using"}
  /\ waiter' = [waiter EXCEPT ![u] = "done"]
  /\ UNCHANGED <<sub, msgChan, goroutine, notify, notifyChan, notifyClosed, closed,
                 published>>

\* The timer fires, the hub stops, or the note has been used: the deferred
\* cleanup closes "closed".
Return(u) ==
  /\ waiter[u] \in {"wait", "using"}
  /\ waiter' = [waiter EXCEPT ![u] = "done"]
  /\ closed' = [closed EXCEPT ![u] = TRUE]
  /\ UNCHANGED <<sub, msgChan, goroutine, notify, notifyChan, notifyClosed, published>>

GoroutineStep(u) ==
  TakeMessage(u) \/ SendNote(u) \/ HearCleanup(u) \/ CloseNotifyChan(u)

Next ==
  \/ \E u \in Subs :
       \/ SubscribeMatch(u) \/ Subscribed(u)
       \/ GoroutineStep(u) \/ ReceiveNote(u) \/ Return(u)
  \/ \E c \in Clients, note \in Notes : NotifyMatch(c, note)

Spec == Init /\ [][Next]_notifierVars

\* Goroutines run.  Nobody has to subscribe or to publish.
Fairness == \A u \in Subs : WF_notifierVars(GoroutineStep(u))

FairSpec == Spec /\ Fairness

---------------------------------------------------------------------------
(***************************************************************************)
(* The goroutine hands over at most one note, its send never blocks, and    *)
(* its channel is closed only behind that note or a cleanup: what the       *)
(* capacity 1 of notifyChan and the return after the send are for.          *)
(***************************************************************************)
SubOK(u) ==
  /\ waiter[u] = "off" <=> goroutine[u] = "off"
  /\ sub[u] = "none" <=> goroutine[u] = "off"
  /\ goroutine[u] \in {"off", "select"} => notify[u] = Absent
  /\ goroutine[u] = "send" => notify[u] \in Notes
  /\ goroutine[u] \in {"off", "select", "send"} => notifyChan[u] = <<>>
  /\ sub[u] \in {"none", "sent"} => msgChan[u] = <<>> /\ notify[u] = Absent
  /\ waiter[u] = "done" <=> closed[u]
  /\ notifyClosed[u] <=> goroutine[u] = "returned"
  /\ sub[u] = "closed" <=> goroutine[u] \in {"close", "returned"} /\ notify[u] = Absent
  /\ sub[u] = "closed" => closed[u]
  /\ waiter[u] = "using" => goroutine[u] \in {"close", "returned"} /\ notifyChan[u] = <<>>

\* Every subscription has the types of its code, and SubOK.
NotifierTypeOK ==
  /\ waiter \in [Subs -> {"off", "wait", "using", "done"}]
  /\ sub \in [Subs -> {"none", "sent", "active", "closed"}]
  /\ msgChan \in [Subs -> Seq(Notes)]
  /\ goroutine \in [Subs -> {"off", "select", "send", "close", "returned"}]
  /\ notify \in [Subs -> Notes \cup {Absent}]
  /\ notifyChan \in [Subs -> {<<>>} \cup {<<n>> : n \in Notes}]
  /\ notifyClosed \in [Subs -> BOOLEAN]
  /\ closed \in [Subs -> BOOLEAN]
  /\ published \in Nat
  /\ \A u \in Subs : SubOK(u)

(***************************************************************************)
(* The waiting goroutine sees a mailbox: the first note published since the *)
(* subscription, wherever it is by now, and nothing after it.               *)
(***************************************************************************)
HandedOver(u) == goroutine[u] \in {"close", "returned"} /\ notifyChan[u] = <<>>

BoxOf(u) ==
  CASE waiter[u] # "wait" -> "off"
    [] waiter[u] = "wait" /\ HandedOver(u) -> "spin"
    [] waiter[u] = "wait" /\ sub[u] = "sent" -> "subscribe"
    [] OTHER -> "wait"

FirstNote(u) ==
  IF notifyChan[u] # <<>> THEN notifyChan[u][1]
  ELSE IF goroutine[u] = "send" THEN notify[u]
  ELSE IF goroutine[u] = "select" /\ msgChan[u] # <<>> THEN msgChan[u][1]
  ELSE Absent

Box == INSTANCE Mailbox WITH
  Boxes  <- Subs,
  Owners <- Clients,
  box    <- [u \in Subs |-> BoxOf(u)],
  owner  <- [u \in Subs |-> IF BoxOf(u) = "off" THEN NoOne ELSE Channel[u]],
  inbox  <- [u \in Subs |-> IF BoxOf(u) = "wait" THEN FirstNote(u) ELSE Absent]

ImplementsMailbox == Box!Spec

(***************************************************************************)
(* Whatever arrives while the waiter is leaving, the goroutine ends and     *)
(* closes its subscription, unless it had taken a note: the message path    *)
(* (pubsub.go:69-70) returns without pubsub.Close(), which nobody else      *)
(* calls.                                                                   *)
(***************************************************************************)
EverySubscriptionEnds ==
  \A u \in Subs : waiter[u] = "done" ~>
    /\ goroutine[u] = "returned"
    /\ notify[u] = Absent => sub[u] = "closed"

=============================================================================
