---------------------------- MODULE PeerHandshake ----------------------------
(***************************************************************************)
(* The two browsers of a chat once the hub has sent their pages ChatInner:  *)
(* initChat, its callbacks, setupChat and showError                         *)
(* (src/public/assets/chat.js), the New Chat button                         *)
(* (src/ui/templates/components.templ), and what they use of PeerJS, the    *)
(* PeerServer and WebRTC, which are external.                               *)
(*                                                                          *)
(* The hub pairs the pages in rounds; the peer ids of a round are fresh.  A *)
(* page may get a round it has not asked for (a search that outlived its    *)
(* chat), and each page gets it in its own time.  Cameras and calls are     *)
(* left out.                                                                *)
(***************************************************************************)
EXTENDS Naturals, Sequences

CONSTANTS
  Pages,
  MaxRound,                 \* bound on the rounds of a behaviour
  Caller,                   \* [1..MaxRound -> Pages], who has data-is-caller
  MAX_CONNECT_RETRIES,      \* 3
  MAX_RECONNECT_ATTEMPTS,   \* 3
  None

Rounds == 1..MaxRound

ASSUME PeersAssumption ==
  /\ MaxRound \in Nat \ {0}
  /\ \E p, q \in Pages : p # q /\ Pages = {p, q}
  /\ Caller \in [Rounds -> Pages]
  /\ MAX_CONNECT_RETRIES \in Nat /\ MAX_RECONNECT_ATTEMPTS \in Nat
  /\ None \notin Rounds \X Nat

VARIABLES
  sent,     \* rounds the hub has sent ChatInner of
  round,    \* the round a page shows
  pressed,  \* New Chat was clicked since the page got its round
  attempts, \* window._reconnectAttempts
  retries,  \* window._peerConnectRetries
  error,    \* the page shows an error
  chat,     \* the connection <<round, number>> the Send button is wired to
  peer,     \* Peer of a page's round: "none", "connecting", "open", "off", "destroyed"
  server,   \* its id at the PeerServer: "no", "live", "dead" (the socket has
            \* closed), "deaf" (the socket is open, but nobody listens)
  conns     \* the connections of a round: how far, and the ends that have opened

windowVars == <<round, pressed, attempts, retries, error, chat>>
peerVars == <<sent, windowVars, peer, server, conns>>

Init ==
  /\ sent = 0
  /\ round = [p \in Pages |-> 0]
  /\ pressed = [p \in Pages |-> FALSE]
  /\ attempts = [p \in Pages |-> 0]
  /\ retries = [p \in Pages |-> 0]
  /\ error = [p \in Pages |-> FALSE]
  /\ chat = [p \in Pages |-> None]
  /\ peer = [p \in Pages |-> [r \in Rounds |-> "none"]]
  /\ server = [p \in Pages |-> [r \in Rounds |-> "no"]]
  /\ conns = [r \in Rounds |-> <<>>]

Callee(r) == CHOOSE p \in Pages : p # Caller[r]

Set(f, p, r, x) == [f EXCEPT ![p][r] = x]

\* A connection of round r, by its number.
At(r, n) == conns[r][n].at

Goes(r, n, at) == conns' = [conns EXCEPT ![r][n].at = at]

---------------------------------------------------------------------------
(* The page.                                                                *)

\* The hub makes a pair of the two clients again.
HubPairs ==
  /\ sent < MaxRound
  /\ sent = 0 \/ \E p \in Pages : round[p] = sent /\ pressed[p]
  /\ sent' = sent + 1
  /\ UNCHANGED <<windowVars, peer, server, conns>>

Connected(p, r) == peer[p][r] \in {"connecting", "open"}

\* The handler of "disconnected" is about to find no attempt left.
Exhausted(p) == attempts[p] >= MAX_RECONNECT_ATTEMPTS

(***************************************************************************)
(* The registration after window.peer.destroy() of the round the page       *)
(* shows.  A peer that is connected disconnects, and the handler of         *)
(* "disconnected" sees window.peer unchanged: it reconnects, and the id     *)
(* stays registered though nobody listens any more; or it shows the error,  *)
(* and the socket is closed.  A peer that was off or destroyed returns.     *)
(***************************************************************************)
LeftBehind(p, r) ==
  IF ~Connected(p, r) \/ (Exhausted(p) /\ server[p][r] = "no") THEN server[p][r]
  ELSE IF Exhausted(p) THEN "dead" ELSE "deaf"

\* initChat with a peer id: the old peer is destroyed, a new one made.  The
\* message has replaced the chat form and the error of the page.
InitChat_KeepPeer(p) ==
  /\ round[p] < sent
  /\ round' = [round EXCEPT ![p] = @ + 1]
  /\ pressed' = [pressed EXCEPT ![p] = FALSE]
  /\ attempts' = [attempts EXCEPT ![p] = 0]
  /\ retries' = [retries EXCEPT ![p] = 0]
  /\ error' = [error EXCEPT ![p] = FALSE]
  /\ chat' = [chat EXCEPT ![p] = None]
  /\ peer' = Set(peer, p, round[p] + 1, "connecting")
  /\ UNCHANGED <<sent, server, conns>>

InitChat(p) ==
  LET r == round[p] IN
  /\ r < sent
  /\ round' = [round EXCEPT ![p] = r + 1]
  /\ pressed' = [pressed EXCEPT ![p] = FALSE]
  /\ attempts' = [attempts EXCEPT ![p] = 0]
  /\ retries' = [retries EXCEPT ![p] = 0]
  /\ error' = [error EXCEPT ![p] = r > 0 /\ Connected(p, r) /\ Exhausted(p)]
  /\ chat' = [chat EXCEPT ![p] = None]
  /\ peer' = [peer EXCEPT ![p] = [q \in Rounds |-> IF q = r THEN "destroyed"
                                                ELSE IF q = r + 1 THEN "connecting" ELSE @[q]]]
  /\ server' = IF r > 0 THEN Set(server, p, r, LeftBehind(p, r)) ELSE server
  /\ UNCHANGED <<sent, conns>>

NewChat_KeepPeer(p) ==
  /\ round[p] > 0 /\ ~pressed[p]
  /\ pressed' = [pressed EXCEPT ![p] = TRUE]
  /\ UNCHANGED <<sent, round, attempts, retries, error, chat, peer, server, conns>>

\* A click on New Chat: the button is there until the hub's "connecting" has
\* come, and again once a page has said peer_connected.
NewChat(p) ==
  LET r == round[p] IN
  /\ r > 0 /\ ~pressed[p]
  /\ pressed' = [pressed EXCEPT ![p] = TRUE]
  /\ attempts' = [attempts EXCEPT ![p] = IF Connected(p, r) THEN @ + 1 ELSE @]
  /\ error' = [error EXCEPT ![p] = @ \/ (Connected(p, r) /\ Exhausted(p))]
  /\ peer' = Set(peer, p, r, "destroyed")
  /\ server' = Set(server, p, r, LeftBehind(p, r))
  /\ UNCHANGED <<sent, round, retries, chat, conns>>

---------------------------------------------------------------------------
(* The socket to the PeerServer.                                            *)

Open_FreshAttempts(p, r) ==
  /\ peer[p][r] = "connecting"
  /\ attempts' = [attempts EXCEPT ![p] = 0]
  /\ peer' = Set(peer, p, r, "open")
  /\ server' = Set(server, p, r, "live")
  /\ conns' = IF p # Caller[r] THEN conns
              ELSE [conns EXCEPT ![r] = Append(@, [at |-> "sent", open |-> {}])]
  /\ UNCHANGED <<sent, round, pressed, retries, error, chat>>

\* The handler of "open", at each reconnect too: the caller connects.
Open(p, r) ==
  /\ peer[p][r] = "connecting"
  /\ peer' = Set(peer, p, r, "open")
  /\ server' = Set(server, p, r, "live")
  /\ conns' = IF p # Caller[r] THEN conns
              ELSE [conns EXCEPT ![r] =
                      Append([n \in DOMAIN @ |->
                                IF @[n].at = "queued" THEN [@[n] EXCEPT !.at = "sent"]
                                ELSE @[n]],
                             [at |-> "sent", open |-> {}])]
  /\ UNCHANGED <<sent, windowVars>>

\* What was on its way through the socket may be lost with it.
Hit(p, r, conn) ==
  \/ conn.at = "queued" /\ p = Caller[r]
  \/ conn.at = "delivered"

(***************************************************************************)
(* The socket closes, or does not open: the handler of "disconnected".      *)
(***************************************************************************)
Disconnected(p, r) ==
  /\ Connected(p, r)
  /\ attempts' = [attempts EXCEPT ![p] = @ + 1]
  /\ peer' = Set(peer, p, r, IF Exhausted(p) THEN "off" ELSE "connecting")
  /\ error' = [error EXCEPT ![p] = @ \/ Exhausted(p)]
  /\ \E seen \in {"no", "dead"} :
       server' = Set(server, p, r, IF server[p][r] = "no" THEN "no" ELSE seen)
  /\ \E lost \in SUBSET {n \in DOMAIN conns[r] : Hit(p, r, conns[r][n])} :
       conns' = [conns EXCEPT ![r] = [n \in DOMAIN @ |->
                   IF n \in lost THEN [@[n] EXCEPT !.at = "lost"] ELSE @[n]]]
  /\ UNCHANGED <<sent, round, pressed, retries, chat>>

\* The PeerServer notices that a socket has closed.
Noticed(p, r) ==
  /\ server[p][r] = "dead"
  /\ server' = Set(server, p, r, "no")
  /\ UNCHANGED <<sent, windowVars, peer, conns>>

---------------------------------------------------------------------------
(* Offers and answers.                                                      *)

Deliver(r, n) ==
  /\ At(r, n) = "sent" /\ server[Callee(r)][r] = "live"
  /\ Goes(r, n, "delivered")
  /\ UNCHANGED <<sent, windowVars, peer, server>>

\* Written to a socket nobody reads: no answer and no error.
Swallow(r, n) ==
  /\ \/ At(r, n) = "sent" /\ server[Callee(r)][r] \in {"dead", "deaf"}
     \/ At(r, n) = "delivered" /\ server[Caller[r]][r] \in {"dead", "deaf"}
  /\ Goes(r, n, "lost")
  /\ UNCHANGED <<sent, windowVars, peer, server>>

PeerUnavailable_Silent(r, n) ==
  LET p == Caller[r] IN
  /\ At(r, n) = "sent" /\ server[Callee(r)][r] = "no"
  /\ IF server[p][r] = "live" /\ retries[p] < MAX_CONNECT_RETRIES
     THEN retries' = [retries EXCEPT ![p] = @ + 1] /\ Goes(r, n, "timer")
     ELSE Goes(r, n, "over") /\ UNCHANGED retries
  /\ UNCHANGED <<sent, round, pressed, attempts, error, chat, peer, server>>

(***************************************************************************)
(* The callee's id stays unknown: EXPIRE, and the caller's handler of       *)
(* peer-unavailable, which tries again later or shows the error.            *)
(***************************************************************************)
PeerUnavailable(r, n) ==
  LET p == Caller[r] IN
  /\ At(r, n) = "sent" /\ server[Callee(r)][r] = "no"
  /\ \/ /\ server[p][r] # "live"
        /\ Goes(r, n, "over")
        /\ UNCHANGED <<retries, error>>
     \/ /\ server[p][r] = "live"
        /\ retries' = [retries EXCEPT ![p] = @ + 1]
        /\ IF retries[p] < MAX_CONNECT_RETRIES
           THEN Goes(r, n, "timer") /\ UNCHANGED error
           ELSE Goes(r, n, "over") /\ error' = [error EXCEPT ![p] = TRUE]
  /\ UNCHANGED <<sent, round, pressed, attempts, chat, peer, server>>

\* The timer finds window.peer unchanged, which New Chat has not changed: a
\* destroyed peer that was reconnected offers too, and nobody hears the answer.
Retry(r, n) ==
  LET p == Caller[r] IN
  /\ At(r, n) = "timer"
  /\ IF /\ round[p] = r /\ peer[p][r] # "off"
        /\ peer[p][r] = "destroyed" => server[p][r] = "deaf"
     THEN conns' = [conns EXCEPT ![r] =
                      Append([@ EXCEPT ![n].at = "over"],
                             [at |-> IF peer[p][r] = "connecting" THEN "queued" ELSE "sent",
                              open |-> {}])]
     ELSE Goes(r, n, "over")
  /\ UNCHANGED <<sent, windowVars, peer, server>>

\* The callee's page gets a connection, and its answer gets to the caller.
Answer(r, n) ==
  /\ At(r, n) = "delivered"
  /\ peer[Callee(r)][r] = "open" /\ server[Caller[r]][r] = "live"
  /\ Goes(r, n, "answered")
  /\ UNCHANGED <<sent, windowVars, peer, server>>

\* The answer is to a caller that the PeerServer does not know, or no more.
Unanswered(r, n) ==
  /\ At(r, n) = "delivered" /\ server[Caller[r]][r] = "no"
  /\ Goes(r, n, "lost")
  /\ UNCHANGED <<sent, windowVars, peer, server>>

\* No way through the network: the connection's handlers of "error" only log.
Fails(r, n) ==
  /\ At(r, n) = "answered" /\ conns[r][n].open # Pages
  /\ Goes(r, n, "failed")
  /\ UNCHANGED <<sent, windowVars, peer, server>>

\* An end of a connection is closed with its peer.
MayOpen(p, r, n) ==
  /\ At(r, n) = "answered" /\ p \notin conns[r][n].open
  /\ peer[p][r] # "destroyed"
  /\ \A q \in Pages : peer[q][r] = "destroyed" => q \in conns[r][n].open

\* A connection opens at one end: peer_connected, and setupChat.
ConnOpen(p, r, n) ==
  /\ MayOpen(p, r, n)
  /\ conns' = [conns EXCEPT ![r][n].open = @ \cup {p}]
  /\ chat' = [chat EXCEPT ![p] = <<r, n>>]
  /\ UNCHANGED <<sent, round, pressed, attempts, retries, error, peer, server>>

---------------------------------------------------------------------------
ConnStep(r, n) ==
  \/ Deliver(r, n) \/ Swallow(r, n) \/ PeerUnavailable(r, n) \/ Retry(r, n) \/ Answer(r, n)
  \/ \E p \in Pages : ConnOpen(p, r, n)

Next ==
  \/ HubPairs
  \/ \E p \in Pages : InitChat(p) \/ NewChat(p)
  \/ \E p \in Pages, r \in Rounds : Open(p, r) \/ Disconnected(p, r) \/ Noticed(p, r)
  \/ \E r \in Rounds : \E n \in DOMAIN conns[r] : ConnStep(r, n) \/ Unanswered(r, n) \/ Fails(r, n)

Spec == Init /\ [][Next]_peerVars

\* How many connections a round may have.
MaxConns == 1 + MAX_RECONNECT_ATTEMPTS + MAX_CONNECT_RETRIES

(***************************************************************************)
(* Sockets open or fail, and the PeerServer, timers and WebRTC answer.      *)
(* Nobody has to click, and no socket has to stay open.                     *)
(***************************************************************************)
Fairness ==
  /\ \A p \in Pages, r \in Rounds : WF_peerVars(Open(p, r))
  /\ \A r \in Rounds : WF_peerVars(\E n \in DOMAIN conns[r] : ConnStep(r, n))

FairSpec == Spec /\ Fairness

---------------------------------------------------------------------------
Conns ==
  [at : {"queued", "sent", "delivered", "answered", "timer", "over", "lost", "failed"},
   open : SUBSET Pages]

\* A page has no peer of a round it has yet to get and, of those it has left,
\* only destroyed ones; a peer is registered only while it listens, or by
\* the reconnect of its destruction.
PeersTypeOK ==
  /\ sent \in 0..MaxRound
  /\ round \in [Pages -> 0..MaxRound] /\ \A p \in Pages : round[p] <= sent
  /\ pressed \in [Pages -> BOOLEAN]
  /\ attempts \in [Pages -> 0..MAX_RECONNECT_ATTEMPTS + 1]
  /\ retries \in [Pages -> Nat]
  /\ error \in [Pages -> BOOLEAN]
  /\ chat \in [Pages -> (Rounds \X Nat) \cup {None}]
  /\ peer \in [Pages -> [Rounds -> {"none", "connecting", "open", "off", "destroyed"}]]
  /\ server \in [Pages -> [Rounds -> {"no", "live", "dead", "deaf"}]]
  /\ conns \in [Rounds -> Seq(Conns)]
  /\ \A p \in Pages, r \in Rounds :
       /\ peer[p][r] = "none" <=> r > round[p]
       /\ r < round[p] \/ (r = round[p] /\ pressed[p]) <=> peer[p][r] = "destroyed"
       /\ peer[p][r] = "open" <=> server[p][r] = "live"

(***************************************************************************)
(* The callbacks of an earlier pair's connections, which ask nothing of     *)
(* window.peer, come too late to speak for the pair the page shows now:     *)
(* what Send writes to, and what peer_connected was said of, is a           *)
(* connection of this pair.                                                 *)
(***************************************************************************)
ChatIsCurrent == \A p \in Pages : chat[p] # None => chat[p][1] = round[p]

(***************************************************************************)
(* A pair gives up: its peers reconnect and offer again a bounded number of *)
(* times, however the sockets fail.                                         *)
(***************************************************************************)
GivesUp == \A r \in Rounds : Len(conns[r]) <= MaxConns

Show(r) == \A p \in Pages : round[p] = r

Quiet == \A p \in Pages : ~error[p] /\ ~pressed[p]

\* Something happens without anybody's doing: a socket opens, a timer fires,
\* an offer or an answer arrives, a connection opens.
Underway(r) ==
  \/ \E p \in Pages : peer[p][r] = "connecting"
  \/ \E n \in DOMAIN conns[r] :
       \/ At(r, n) \in {"sent", "timer"}
       \/ /\ At(r, n) = "delivered"
          /\ peer[Callee(r)][r] = "open" /\ server[Caller[r]][r] = "live"
       \/ \E p \in Pages : MayOpen(p, r, n)

\* The last connection of a round is one of which nobody is told: its offer or
\* answer is lost between two sockets, or it has failed.
Silent(r) == conns[r] # <<>> /\ At(r, Len(conns[r])) \in {"lost", "failed"}

(***************************************************************************)
(* A pair that shows no error is not left with nothing to wait for: until   *)
(* both pages chat there is a next step, whatever became of the sockets, of *)
(* unknown ids and of connections before the last one (chat.js:69-118).     *)
(* The exceptions are two silences of the last connection: chat.js has no   *)
(* timeout for an offer or answer that is lost, and a connection that fails *)
(* after its answer is only written to the console (lines 79, 113, 124).    *)
(***************************************************************************)
NeverStranded ==
  \A r \in Rounds :
    Show(r) /\ Quiet /\ ~Silent(r) => Underway(r) \/ \A p \in Pages : chat[p] # None

(***************************************************************************)
(* Two pages that show the same pair come to chat, or one of them says that *)
(* it cannot connect, unless somebody goes on or the last connection gets   *)
(* lost or fails, after which chat.js neither tries again nor says so.      *)
(***************************************************************************)
ChatsOrTells ==
  \A r \in Rounds :
    Show(r) ~>
      \/ \A p \in Pages : chat[p] # None /\ chat[p][1] = r
      \/ \E p \in Pages : error[p] \/ pressed[p] \/ round[p] # r
      \/ Silent(r)

=============================================================================
