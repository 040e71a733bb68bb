------------------------------- MODULE Mailbox -------------------------------
(***************************************************************************)
(* What a subscription to match notifications promises the goroutine that   *)
(* waits on it (waitForMatch): it hears at most one notification, the first *)
(* one published for its client after Redis has taken the subscription; if  *)
(* that one names no room, nothing more comes, and the wait spins on the    *)
(* closed channel.  Hub implements it with the steps of its searches,       *)
(* Notifier with the goroutine and the channels of pubsub.go.               *)
(***************************************************************************)
CONSTANTS
  Boxes,    \* subscriptions
  Owners,   \* the clients they are for
  NoOne, Absent,
  MayLose   \* a notification may miss a subscription it was published for

VARIABLES
  box,      \* "off", "subscribe" (asked for), "wait" or "spin"
  owner,    \* whose notifications it takes
  inbox     \* the partner the notification names, NoOne if it has no room

boxVars == <<box, owner, inbox>>

Init ==
  /\ box = [u \in Boxes |-> "off"]
  /\ owner = [u \in Boxes |-> NoOne]
  /\ inbox = [u \in Boxes |-> Absent]

Ask(u, c) ==
  /\ box[u] = "off"
  /\ box' = [box EXCEPT ![u] = "subscribe"]
  /\ owner' = [owner EXCEPT ![u] = c]
  /\ UNCHANGED inbox

Open(u) ==
  /\ box[u] = "subscribe"
  /\ box' = [box EXCEPT ![u] = "wait"]
  /\ UNCHANGED <<owner, inbox>>

Listening(c) == {u \in Boxes : owner[u] = c /\ box[u] = "wait" /\ inbox[u] = Absent}

Publish(c, note) ==
  /\ \E heard \in SUBSET Listening(c) :
       /\ ~MayLose => heard = Listening(c)
       /\ inbox' = [u \in Boxes |-> IF u \in heard THEN note ELSE inbox[u]]
  /\ UNCHANGED <<box, owner>>

Take(u) ==
  /\ inbox[u] # Absent
  /\ inbox' = [inbox EXCEPT ![u] = Absent]
  /\ IF inbox[u] = NoOne
     THEN box' = [box EXCEPT ![u] = "spin"] /\ UNCHANGED owner
     ELSE /\ box' = [box EXCEPT ![u] = "off"]
          /\ owner' = [owner EXCEPT ![u] = NoOne]

\* Timers fire one by one; the end of the process ends all waits at once.
GiveUp(gone) ==
  /\ box' = [u \in Boxes |-> IF u \in gone THEN "off" ELSE box[u]]
  /\ owner' = [u \in Boxes |-> IF u \in gone THEN NoOne ELSE owner[u]]
  /\ inbox' = [u \in Boxes |-> IF u \in gone THEN Absent ELSE inbox[u]]

Next ==
  \/ \E u \in Boxes, c \in Owners : Ask(u, c)
  \/ \E u \in Boxes : Open(u) \/ Take(u)
  \/ \E c \in Owners, note \in Owners \cup {NoOne} : Publish(c, note)
  \/ \E gone \in SUBSET Boxes : GiveUp(gone)

Spec == Init /\ [][Next]_boxVars

=============================================================================
