------------------------ MODULE PeerHandshakeProofs ------------------------
(* What holds of the two pages for any number of rounds and any limits of  *)
(* retries and reconnects.                                                 *)
EXTENDS PeerHandshake, FiniteSetTheorems, TLAPS

\* The parts of PeersTypeOK.
PageTypes ==
  /\ sent \in 0..MaxRound
  /\ round \in [Pages -> 0..MaxRound] /\ \A p \in Pages : round[p] <= sent
  /\ pressed \in [Pages -> BOOLEAN]
  /\ attempts \in [Pages -> 0..MAX_RECONNECT_ATTEMPTS + 1]
  /\ retries \in [Pages -> Nat]
  /\ error \in [Pages -> BOOLEAN]
  /\ chat \in [Pages -> (Rounds \X Nat) \cup {None}]

PeerTypes ==
  /\ peer \in [Pages -> [Rounds -> {"none", "connecting", "open", "off", "destroyed"}]]
  /\ server \in [Pages -> [Rounds -> {"no", "live", "dead", "deaf"}]]

ConnTypes == conns \in [Rounds -> Seq(Conns)]

PeerOK(p, r) ==
  /\ peer[p][r] = "none" <=> r > round[p]
  /\ r < round[p] \/ (r = round[p] /\ pressed[p]) <=> peer[p][r] = "destroyed"
  /\ peer[p][r] = "open" <=> server[p][r] = "live"
  /\ Connected(p, r) => attempts[p] <= MAX_RECONNECT_ATTEMPTS

\* What PeersTypeOK says of a page's peers, and: a peer that has used up its
\* attempts is off.
PeersOK == \A p \in Pages, r \in Rounds : PeerOK(p, r)

\* An answer was given by a callee that was open to a caller that was live.
AnswerOK(conn, r) == conn.at = "answered" => \A p \in Pages : peer[p][r] # "none"

AnswersOK == \A r \in Rounds : \A n \in DOMAIN conns[r] : AnswerOK(conns[r][n], r)

PeersInv == PageTypes /\ PeerTypes /\ ConnTypes /\ PeersOK /\ AnswersOK /\ ChatIsCurrent

\* A pair is a caller and a callee.
LEMMA Pair ==
  ASSUME NEW r \in Rounds
  PROVE  /\ Caller[r] \in Pages /\ Callee(r) \in Pages
         /\ \A p \in Pages : p = Caller[r] \/ p = Callee(r)
<1>1. PICK p \in Pages, q \in Pages : p # q /\ Pages = {p, q}
  BY PeersAssumption
<1>2. Caller[r] \in Pages
  BY PeersAssumption
<1>3. \E x \in Pages : x # Caller[r]
  BY <1>1
<1>4. Callee(r) \in Pages /\ Callee(r) # Caller[r]
  BY <1>3 DEF Callee
<1> QED BY <1>1, <1>2, <1>4

LEMMA InitPeers == Init => PeersInv
BY PeersAssumption
   DEF Init, PeersInv, PageTypes, PeerTypes, ConnTypes, PeersOK, PeerOK, AnswersOK, AnswerOK,
       ChatIsCurrent, Connected, Rounds

---------------------------------------------------------------------------
(* Pages and their peers.                                                  *)

\* A step that leaves the pages and their peers alone but for errors and
\* retries: only connections may go wrong.
LEMMA PagesKept ==
  ASSUME PeersInv, UNCHANGED <<sent, round, pressed, attempts, peer, server>>
  PROVE  PeerTypes' /\ PeersOK'
BY DEF PeersInv, PeerTypes, PeersOK, PeerOK, Connected

\* Connections that are only added to or lost.
LEMMA AnswersKept ==
  ASSUME PeersInv, UNCHANGED conns,
         \A p \in Pages, r \in Rounds : peer[p][r] # "none" => peer'[p][r] # "none"
  PROVE  ConnTypes' /\ AnswersOK'
BY DEF PeersInv, ConnTypes, AnswersOK, AnswerOK

LEMMA HubPairsInv == PeersInv /\ HubPairs => PeersInv'
<1> SUFFICES ASSUME PeersInv, HubPairs PROVE PeersInv'
  OBVIOUS
<1>1. PageTypes' /\ ChatIsCurrent'
  BY PeersAssumption DEF PeersInv, PageTypes, ChatIsCurrent, HubPairs, windowVars
<1>2. PeerTypes' /\ PeersOK'
  BY DEF PeersInv, PeerTypes, PeersOK, PeerOK, Connected, HubPairs, windowVars
<1>3. ConnTypes' /\ AnswersOK'
  BY AnswersKept DEF HubPairs, windowVars
<1> QED BY <1>1, <1>2, <1>3 DEF PeersInv

LEMMA InitChatInv == ASSUME PeersInv, NEW p \in Pages, InitChat(p) PROVE PeersInv'
<1>0. PICK r : r = round[p]
  OBVIOUS
<1>1. r \in 0..MaxRound /\ r + 1 \in Rounds /\ r < sent
  BY <1>0, PeersAssumption DEF PeersInv, PageTypes, InitChat, Rounds
<1>2. PageTypes' /\ ChatIsCurrent'
  BY <1>1, PeersAssumption, SMTT(30) DEF PeersInv, PageTypes, ChatIsCurrent, InitChat, Rounds
<1>3. r \in Rounds => LeftBehind(p, r) \in {"no", "dead", "deaf"}
  <2> SUFFICES ASSUME r \in Rounds PROVE LeftBehind(p, r) \in {"no", "dead", "deaf"}
    OBVIOUS
  <2>1. server[p][r] \in {"no", "live", "dead", "deaf"}
    BY DEF PeersInv, PeerTypes
  <2>2. server[p][r] = "live" => Connected(p, r)
    BY DEF PeersInv, PeersOK, PeerOK, Connected
  <2> QED BY <2>1, <2>2 DEF LeftBehind
<1>4. /\ round' = [round EXCEPT ![p] = r + 1]
      /\ pressed' = [pressed EXCEPT ![p] = FALSE]
      /\ attempts' = [attempts EXCEPT ![p] = 0]
      /\ peer' = [peer EXCEPT ![p] = [q \in Rounds |-> IF q = r THEN "destroyed"
                                   ELSE IF q = r + 1 THEN "connecting" ELSE @[q]]]
      /\ server' = IF r > 0 THEN [server EXCEPT ![p][r] = LeftBehind(p, r)] ELSE server
  BY <1>0 DEF InitChat, Set
<1>5. PeerTypes'
  <2>1. CASE r = 0
    BY <1>1, <1>4, <2>1 DEF PeersInv, PeerTypes
  <2>2. CASE r \in Rounds
    BY <1>1, <1>3, <1>4, <2>2 DEF PeersInv, PeerTypes, Rounds
  <2> QED BY <1>1, <2>1, <2>2 DEF Rounds
<1>6. ASSUME NEW q \in Rounds PROVE PeerOK(p, q)'
  <2>1. /\ round'[p] = r + 1 /\ ~pressed'[p] /\ attempts'[p] = 0
        /\ peer'[p][q] = IF q = r THEN "destroyed" ELSE IF q = r + 1 THEN "connecting"
                                                    ELSE peer[p][q]
    BY <1>4 DEF PeersInv, PageTypes, PeerTypes
  <2>2. PeerOK(p, q)
    BY DEF PeersInv, PeersOK
  <2>3. CASE q = r
    <3>1. server' = [server EXCEPT ![p][r] = LeftBehind(p, r)]
      BY <1>1, <1>4, <2>3, PeersAssumption DEF Rounds
    <3>2. server'[p][q] # "live"
      BY <1>3, <2>3, <3>1 DEF PeersInv, PeerTypes
    <3> QED BY <1>1, <2>1, <2>3, <3>2 DEF PeerOK, Connected, Rounds
  <2>4. CASE q # r
    <3>1. server'[p][q] = server[p][q]
      BY <1>1, <1>4, <2>4 DEF PeersInv, PeerTypes, Rounds
    <3> QED BY <1>0, <1>1, <2>1, <2>2, <2>4, <3>1, PeersAssumption DEF PeerOK, Connected, Rounds
  <2> QED BY <2>3, <2>4
<1>7. ASSUME NEW q \in Pages, q # p, NEW s \in Rounds PROVE PeerOK(q, s)'
  BY <1>4, <1>7 DEF PeersInv, PageTypes, PeerTypes, PeersOK, PeerOK, Connected
<1>8. ConnTypes' /\ AnswersOK'
  BY AnswersKept DEF PeersInv, PeerTypes, InitChat
<1> QED BY <1>2, <1>5, <1>6, <1>7, <1>8 DEF PeersInv, PeersOK

LEMMA NewChatInv == ASSUME PeersInv, NEW p \in Pages, NewChat(p) PROVE PeersInv'
<1>0. PICK r : r = round[p]
  OBVIOUS
<1>1. r \in Rounds /\ ~pressed[p]
  BY <1>0, PeersAssumption DEF PeersInv, PageTypes, NewChat, Rounds
<1>2. PeerOK(p, r)
  BY <1>1 DEF PeersInv, PeersOK
<1>3. PageTypes' /\ ChatIsCurrent'
  BY <1>0, <1>2, PeersAssumption DEF PeersInv, PageTypes, ChatIsCurrent, NewChat, PeerOK
<1>4. LeftBehind(p, r) \in {"no", "dead", "deaf"}
  BY <1>1, <1>2 DEF PeersInv, PeerTypes, PeerOK, LeftBehind, Connected
<1>5. /\ round' = round /\ pressed' = [pressed EXCEPT ![p] = TRUE]
      /\ attempts' = [attempts EXCEPT ![p] = IF Connected(p, r) THEN @ + 1 ELSE @]
      /\ peer' = [peer EXCEPT ![p][r] = "destroyed"]
      /\ server' = [server EXCEPT ![p][r] = LeftBehind(p, r)]
  BY <1>0 DEF NewChat, Set
<1>6. PeerTypes'
  BY <1>1, <1>4, <1>5 DEF PeersInv, PeerTypes
<1>7. ASSUME NEW q \in Rounds PROVE PeerOK(p, q)'
  <2>1. pressed'[p] /\ round'[p] = r
    BY <1>0, <1>5 DEF PeersInv, PageTypes
  <2>2. PeerOK(p, q)
    BY DEF PeersInv, PeersOK
  <2>3. CASE q = r
    <3>1. peer'[p][q] = "destroyed" /\ server'[p][q] # "live"
      BY <1>1, <1>4, <1>5, <2>3 DEF PeersInv, PeerTypes
    <3> QED BY <1>1, <2>1, <2>3, <3>1 DEF PeerOK, Connected, Rounds
  <2>4. CASE q # r
    <3>1. peer'[p][q] = peer[p][q] /\ server'[p][q] = server[p][q]
      BY <1>1, <1>5, <2>4 DEF PeersInv, PeerTypes
    <3>2. ~Connected(p, q)
      BY <1>0, <1>1, <2>2, <2>4, PeersAssumption DEF PeerOK, Connected, Rounds
    <3> QED BY <1>0, <1>1, <2>1, <2>2, <2>4, <3>1, <3>2, PeersAssumption
            DEF PeerOK, Connected, Rounds
  <2> QED BY <2>3, <2>4
<1>8. ASSUME NEW q \in Pages, q # p, NEW s \in Rounds PROVE PeerOK(q, s)'
  BY <1>5, <1>8 DEF PeersInv, PageTypes, PeerTypes, PeersOK, PeerOK, Connected
<1>9. ConnTypes' /\ AnswersOK'
  BY AnswersKept DEF PeersInv, PeerTypes, NewChat, Set
<1> QED BY <1>3, <1>6, <1>7, <1>8, <1>9 DEF PeersInv, PeersOK

LEMMA NoticedInv == ASSUME PeersInv, NEW p \in Pages, NEW r \in Rounds, Noticed(p, r) PROVE PeersInv'
<1>1. PageTypes' /\ ChatIsCurrent'
  BY DEF PeersInv, PageTypes, ChatIsCurrent, Noticed, windowVars
<1>2. PeerTypes' /\ PeersOK'
  BY DEF PeersInv, PeerTypes, PeersOK, PeerOK, Connected, Noticed, Set, windowVars
<1>3. ConnTypes' /\ AnswersOK'
  BY AnswersKept DEF Noticed
<1> QED BY <1>1, <1>2, <1>3 DEF PeersInv

---------------------------------------------------------------------------
(* Connections.                                                            *)

Ats == {"queued", "sent", "delivered", "answered", "timer", "over", "lost", "failed"}

\* A connection goes on.
LEMMA ConnGoes ==
  ASSUME NEW c \in Conns, NEW at \in Ats
  PROVE  /\ [c EXCEPT !.at = at] \in Conns
         /\ [c EXCEPT !.at = at].at = at /\ [c EXCEPT !.at = at].open = c.open
BY DEF Conns, Ats

\* One connection of a round is replaced.
LEMMA Replaced ==
  ASSUME NEW old \in Seq(Conns), NEW n \in DOMAIN old, NEW c \in Conns,
         NEW new, new = [old EXCEPT ![n] = c]
  PROVE  /\ new \in Seq(Conns) /\ DOMAIN new = DOMAIN old /\ Len(new) = Len(old)
         /\ \A m \in DOMAIN old : new[m] = IF m = n THEN c ELSE old[m]
OBVIOUS

\* The connections of a round are replaced one by one.
LEMMA SameLength ==
  ASSUME NEW old \in Seq(Conns), NEW new, new = [n \in DOMAIN old |-> new[n]],
         \A n \in DOMAIN old : new[n] \in Conns
  PROVE  new \in Seq(Conns) /\ DOMAIN new = DOMAIN old /\ Len(new) = Len(old)
OBVIOUS

\* A connection that goes on to a step other than answered.
LEMMA GoesOn ==
  ASSUME PeersInv, NEW r \in Rounds, NEW n \in DOMAIN conns[r], NEW at \in Ats, Goes(r, n, at),
         UNCHANGED peer, at = "answered" => \A p \in Pages : peer[p][r] # "none"
  PROVE  ConnTypes' /\ AnswersOK'
<1>1. conns[r] \in Seq(Conns)
  BY DEF PeersInv, ConnTypes
<1>2. PICK new : new = [conns[r] EXCEPT ![n] = [conns[r][n] EXCEPT !.at = at]]
  OBVIOUS
<1>3. conns' = [conns EXCEPT ![r] = new]
  BY <1>2 DEF Goes
<1>a. PICK c : c = [conns[r][n] EXCEPT !.at = at]
  OBVIOUS
<1>b. c \in Conns /\ c.at = at
  BY <1>1, <1>a, ConnGoes
<1>4. /\ new \in Seq(Conns) /\ DOMAIN new = DOMAIN conns[r]
      /\ \A m \in DOMAIN conns[r] : new[m] = IF m = n THEN c ELSE conns[r][m]
  BY <1>1, <1>2, <1>a, <1>b, Replaced
<1>5. ConnTypes'
  BY <1>3, <1>4 DEF PeersInv, ConnTypes
<1>6. ASSUME NEW q \in Rounds, NEW m \in DOMAIN conns'[q] PROVE AnswerOK(conns[q][m], q)'
  <2>1. CASE q # r
    BY <1>3, <1>6, <2>1 DEF PeersInv, ConnTypes, AnswersOK, AnswerOK
  <2>2. CASE q = r
    <3>1. m \in DOMAIN conns[r] /\ conns'[q][m] = new[m]
      BY <1>3, <1>4, <1>6, <2>2 DEF PeersInv, ConnTypes
    <3>2. new[m].at = IF m = n THEN at ELSE conns[r][m].at
      BY <1>4, <1>b, <3>1
    <3> QED BY <2>2, <3>1, <3>2 DEF PeersInv, AnswersOK, AnswerOK
  <2> QED BY <2>1, <2>2
<1> QED BY <1>5, <1>6 DEF AnswersOK

\* The connections of one round change, and none of them becomes answered.
LEMMA OneRound ==
  ASSUME PeersInv, NEW r \in Rounds, NEW new \in Seq(Conns),
         conns' = [conns EXCEPT ![r] = new],
         \A m \in DOMAIN new : new[m].at = "answered" =>
           m \in DOMAIN conns[r] /\ conns[r][m].at = "answered",
         \A p \in Pages, s \in Rounds : peer[p][s] # "none" => peer'[p][s] # "none"
  PROVE  ConnTypes' /\ AnswersOK'
<1>1. ConnTypes'
  BY DEF PeersInv, ConnTypes
<1>2. ASSUME NEW q \in Rounds, NEW m \in DOMAIN conns'[q] PROVE AnswerOK(conns[q][m], q)'
  BY <1>2 DEF PeersInv, ConnTypes, AnswersOK, AnswerOK
<1> QED BY <1>1, <1>2 DEF AnswersOK

LEMMA OpenInv == ASSUME PeersInv, NEW p \in Pages, NEW r \in Rounds, Open(p, r) PROVE PeersInv'
<1>1. PageTypes' /\ ChatIsCurrent'
  BY DEF PeersInv, PageTypes, ChatIsCurrent, Open, windowVars
<1>2. PeerTypes'
  BY DEF PeersInv, PeerTypes, Open, Set
<1>3. PeersOK'
  BY DEF PeersInv, PageTypes, PeerTypes, PeersOK, PeerOK, Connected, Open, Set, windowVars
<1>4. \A q \in Pages, s \in Rounds : peer[q][s] # "none" => peer'[q][s] # "none"
  BY DEF PeersInv, PeerTypes, Open, Set
<1>5. CASE p # Caller[r]
  BY <1>1, <1>2, <1>3, <1>4, <1>5, AnswersKept DEF PeersInv, Open
<1>6. CASE p = Caller[r]
  <2>0. PICK which : which = {n \in DOMAIN conns[r] : conns[r][n].at = "queued"}
    OBVIOUS
  <2>1. PICK old : old = [n \in DOMAIN conns[r] |->
                           IF n \in which THEN [conns[r][n] EXCEPT !.at = "sent"] ELSE conns[r][n]]
    OBVIOUS
  <2>2. PICK new : new = Append(old, [at |-> "sent", open |-> {}])
    OBVIOUS
  <2>3. conns[r] \in Seq(Conns)
    BY DEF PeersInv, ConnTypes
  <2>4. /\ old \in Seq(Conns) /\ Len(old) = Len(conns[r])
        /\ \A m \in DOMAIN old : old[m].at = "answered" =>
             m \in DOMAIN conns[r] /\ conns[r][m].at = "answered"
    <3>1. \A n \in DOMAIN conns[r] :
            old[n] \in Conns /\ (old[n].at = "answered" => conns[r][n].at = "answered")
      <4> SUFFICES ASSUME NEW n \in DOMAIN conns[r]
                   PROVE  old[n] \in Conns
                          /\ (old[n].at = "answered" => conns[r][n].at = "answered")
        OBVIOUS
      <4>1. conns[r][n] \in Conns /\ "sent" \in Ats
        BY <2>3 DEF Ats
      <4>2. old[n] \in {conns[r][n], [conns[r][n] EXCEPT !.at = "sent"]}
        BY <2>1
      <4>3. [conns[r][n] EXCEPT !.at = "sent"] \in Conns
            /\ [conns[r][n] EXCEPT !.at = "sent"].at # "answered"
        BY <4>1, ConnGoes
      <4> QED BY <4>1, <4>2, <4>3
    <3>2. old = [n \in DOMAIN conns[r] |-> old[n]]
      BY <2>1
    <3>3. old \in Seq(Conns) /\ DOMAIN old = DOMAIN conns[r] /\ Len(old) = Len(conns[r])
      BY <2>3, <3>1, <3>2, SameLength
    <3> QED BY <3>1, <3>3
  <2>5. new \in Seq(Conns)
    BY <2>2, <2>4 DEF Conns
  <2>6. conns' = [conns EXCEPT ![r] = new]
    BY <1>6, <2>0, <2>1, <2>2 DEF Open
  <2>7. ASSUME NEW m \in DOMAIN new, new[m].at = "answered"
        PROVE  m \in DOMAIN conns[r] /\ conns[r][m].at = "answered"
    <3>1. m \in DOMAIN old /\ new[m] = old[m]
      BY <2>2, <2>4, <2>7
    <3> QED BY <2>4, <2>7, <3>1
  <2>8. ConnTypes' /\ AnswersOK'
    BY <1>4, <2>5, <2>6, <2>7, OneRound
  <2> QED BY <1>1, <1>2, <1>3, <2>8 DEF PeersInv
<1> QED BY <1>5, <1>6

LEMMA DisconnectedInv ==
  ASSUME PeersInv, NEW p \in Pages, NEW r \in Rounds, Disconnected(p, r) PROVE PeersInv'
<1>0. PeerOK(p, r) /\ Connected(p, r)
  BY DEF PeersInv, PeersOK, Disconnected
<1>1. PageTypes' /\ ChatIsCurrent'
  BY <1>0, PeersAssumption DEF PeersInv, PageTypes, ChatIsCurrent, Disconnected, PeerOK
<1>2. PICK seen \in {"no", "dead"} :
        server' = Set(server, p, r, IF server[p][r] = "no" THEN "no" ELSE seen)
  BY DEF Disconnected
<1>3. PeerTypes'
  BY <1>2 DEF PeersInv, PeerTypes, Disconnected, Set
<1>4. ASSUME NEW q \in Pages, NEW s \in Rounds PROVE PeerOK(q, s)'
  <2>0. PeerOK(q, s)
    BY DEF PeersInv, PeersOK
  <2>1. CASE q # p
    BY <1>2, <2>0, <2>1
       DEF PeersInv, PageTypes, PeerTypes, PeerOK, Disconnected, Set, Connected
  <2>2. CASE q = p /\ s = r
    <3>1. peer'[q][s] = (IF Exhausted(p) THEN "off" ELSE "connecting") /\ server'[q][s] # "live"
      BY <1>2, <2>2 DEF PeersInv, PeerTypes, Disconnected, Set
    <3>2. attempts'[p] = attempts[p] + 1 /\ round' = round /\ pressed' = pressed
      BY DEF PeersInv, PageTypes, Disconnected
    <3> QED BY <1>0, <2>2, <3>1, <3>2, PeersAssumption
            DEF PeersInv, PageTypes, PeerOK, Exhausted, Connected
  <2>3. CASE q = p /\ s # r
    <3>1. peer'[q][s] = peer[q][s] /\ server'[q][s] = server[q][s]
      BY <1>2, <2>3 DEF PeersInv, PeerTypes, Disconnected, Set
    <3>2. ~Connected(q, s)
      BY <1>0, <2>0, <2>3, PeersAssumption DEF PeersInv, PageTypes, PeerOK, Connected, Rounds
    <3> QED BY <2>0, <3>1, <3>2 DEF PeerOK, Connected, Disconnected
  <2> QED BY <2>1, <2>2, <2>3
<1>5. ConnTypes' /\ AnswersOK'
  <2>1. PICK lost \in SUBSET DOMAIN conns[r] :
          conns' = [conns EXCEPT ![r] = [n \in DOMAIN @ |->
                     IF n \in lost THEN [@[n] EXCEPT !.at = "lost"] ELSE @[n]]]
    BY DEF Disconnected
  <2>2. PICK new : new = [n \in DOMAIN conns[r] |->
                     IF n \in lost THEN [conns[r][n] EXCEPT !.at = "lost"] ELSE conns[r][n]]
    OBVIOUS
  <2>3. conns[r] \in Seq(Conns)
    BY DEF PeersInv, ConnTypes
  <2>4. /\ new \in Seq(Conns)
        /\ \A m \in DOMAIN new : new[m].at = "answered" =>
             m \in DOMAIN conns[r] /\ conns[r][m].at = "answered"
    <3>1. \A n \in DOMAIN conns[r] :
            new[n] \in Conns /\ (new[n].at = "answered" => conns[r][n].at = "answered")
      <4> SUFFICES ASSUME NEW n \in DOMAIN conns[r]
                   PROVE  new[n] \in Conns
                          /\ (new[n].at = "answered" => conns[r][n].at = "answered")
        OBVIOUS
      <4>1. conns[r][n] \in Conns /\ "lost" \in Ats
        BY <2>3 DEF Ats
      <4>2. new[n] \in {conns[r][n], [conns[r][n] EXCEPT !.at = "lost"]}
        BY <2>2
      <4>3. [conns[r][n] EXCEPT !.at = "lost"] \in Conns
            /\ [conns[r][n] EXCEPT !.at = "lost"].at # "answered"
        BY <4>1, ConnGoes
      <4> QED BY <4>1, <4>2, <4>3
    <3>2. new = [n \in DOMAIN conns[r] |-> new[n]]
      BY <2>2
    <3>3. new \in Seq(Conns) /\ DOMAIN new = DOMAIN conns[r] /\ Len(new) = Len(conns[r])
      BY <2>3, <3>1, <3>2, SameLength
    <3> QED BY <3>1, <3>3
  <2>5. conns' = [conns EXCEPT ![r] = new]
    BY <2>1, <2>2
  <2>6. \A q \in Pages, s \in Rounds : peer[q][s] # "none" => peer'[q][s] # "none"
    BY DEF PeersInv, PeerTypes, Disconnected, Set
  <2> QED BY <2>4, <2>5, <2>6, OneRound
<1> QED BY <1>1, <1>3, <1>4, <1>5 DEF PeersInv, PeersOK

\* The steps of a connection that change nothing but how far it is, the retries
\* and the error.
LEMMA HandshakeInv ==
  ASSUME PeersInv, NEW r \in Rounds, NEW n \in DOMAIN conns[r],
         \/ Deliver(r, n) \/ Swallow(r, n) \/ PeerUnavailable(r, n) \/ Answer(r, n)
         \/ Unanswered(r, n) \/ Fails(r, n)
  PROVE  PeersInv'
<1>1. Caller[r] \in Pages /\ Callee(r) \in Pages
  BY Pair
<1>2. PageTypes' /\ ChatIsCurrent'
  <2>1. CASE PeerUnavailable(r, n)
    <3>1. /\ UNCHANGED <<sent, round, pressed, attempts, chat>>
          /\ retries' \in {retries, [retries EXCEPT ![Caller[r]] = @ + 1]}
          /\ error' \in {error, [error EXCEPT ![Caller[r]] = TRUE]}
      BY <2>1 DEF PeerUnavailable
    <3>2. retries' \in [Pages -> Nat]
      BY <1>1, <3>1 DEF PeersInv, PageTypes
    <3>3. error' \in [Pages -> BOOLEAN]
      BY <1>1, <3>1 DEF PeersInv, PageTypes
    <3> QED BY <3>1, <3>2, <3>3 DEF PeersInv, PageTypes, ChatIsCurrent
  <2>2. CASE ~PeerUnavailable(r, n)
    BY <2>2 DEF PeersInv, PageTypes, ChatIsCurrent, Deliver, Swallow, Answer, Unanswered, Fails, windowVars
  <2> QED BY <2>1, <2>2
<1>3. PeerTypes' /\ PeersOK'
  BY PagesKept DEF Deliver, Swallow, PeerUnavailable, Answer, Unanswered, Fails, windowVars
<1>4. CASE Answer(r, n)
  <2>1. peer[Callee(r)][r] = "open" /\ peer[Caller[r]][r] = "open"
    BY <1>1, <1>4 DEF PeersInv, PeersOK, PeerOK, Answer
  <2>2. \A p \in Pages : peer[p][r] # "none"
    BY <2>1, Pair
  <2>3. ConnTypes' /\ AnswersOK'
    BY <1>4, <2>2, GoesOn DEF Answer, Ats
  <2> QED BY <1>2, <1>3, <2>3 DEF PeersInv
<1>5. CASE ~Answer(r, n)
  <2>1. PICK at \in Ats \ {"answered"} : Goes(r, n, at)
    BY <1>5 DEF Deliver, Swallow, PeerUnavailable, Unanswered, Fails, Ats
  <2>2. UNCHANGED peer
    BY DEF Deliver, Swallow, PeerUnavailable, Answer, Unanswered, Fails
  <2>3. ConnTypes' /\ AnswersOK'
    BY <2>1, <2>2, GoesOn
  <2> QED BY <1>2, <1>3, <2>3 DEF PeersInv
<1> QED BY <1>4, <1>5

LEMMA RetryInv ==
  ASSUME PeersInv, NEW r \in Rounds, NEW n \in DOMAIN conns[r], Retry(r, n) PROVE PeersInv'
<1>1. PageTypes' /\ ChatIsCurrent'
  BY DEF PeersInv, PageTypes, ChatIsCurrent, Retry, windowVars
<1>2. PeerTypes' /\ PeersOK'
  BY PagesKept DEF Retry, windowVars
<1>3. conns[r] \in Seq(Conns)
  BY DEF PeersInv, ConnTypes
<1>4. CASE Goes(r, n, "over")
  BY <1>1, <1>2, <1>4, GoesOn DEF PeersInv, Retry, Ats
<1>5. CASE ~Goes(r, n, "over")
  <2>1. PICK at \in {"queued", "sent"} :
          conns' = [conns EXCEPT ![r] = Append([@ EXCEPT ![n].at = "over"],
                                               [at |-> at, open |-> {}])]
    BY <1>5 DEF Retry
  <2>a. PICK c : c = [conns[r][n] EXCEPT !.at = "over"]
    OBVIOUS
  <2>b. c \in Conns /\ c.at = "over"
    <3>1. conns[r][n] \in Conns /\ "over" \in Ats
      BY <1>3 DEF Ats
    <3> QED BY <2>a, <3>1, ConnGoes
  <2>2. PICK old : old = [conns[r] EXCEPT ![n] = c]
    OBVIOUS
  <2>3. PICK new : new = Append(old, [at |-> at, open |-> {}])
    OBVIOUS
  <2>4. /\ old \in Seq(Conns) /\ DOMAIN old = DOMAIN conns[r] /\ Len(old) = Len(conns[r])
        /\ \A m \in DOMAIN conns[r] : old[m] = IF m = n THEN c ELSE conns[r][m]
    BY <1>3, <2>2, <2>b, Replaced
  <2>5. new \in Seq(Conns)
    BY <2>1, <2>3, <2>4 DEF Conns
  <2>6. conns' = [conns EXCEPT ![r] = new]
    BY <2>1, <2>2, <2>3, <2>a
  <2>7. ASSUME NEW m \in DOMAIN new, new[m].at = "answered"
        PROVE  m \in DOMAIN conns[r] /\ conns[r][m].at = "answered"
    <3>1. m \in DOMAIN old /\ new[m] = old[m]
      BY <2>1, <2>3, <2>4, <2>7
    <3> QED BY <2>4, <2>7, <2>b, <3>1
  <2>8. ConnTypes' /\ AnswersOK'
    BY <2>5, <2>6, <2>7, OneRound DEF Retry
  <2> QED BY <1>1, <1>2, <2>8 DEF PeersInv
<1> QED BY <1>4, <1>5

LEMMA ConnOpenInv ==
  ASSUME PeersInv, NEW p \in Pages, NEW r \in Rounds, NEW n \in DOMAIN conns[r], ConnOpen(p, r, n)
  PROVE  PeersInv'
<1>1. conns[r] \in Seq(Conns) /\ n \in Nat
  BY DEF PeersInv, ConnTypes
<1>2. round[p] = r
  <2>1. peer[p][r] # "destroyed" /\ conns[r][n].at = "answered"
    BY DEF ConnOpen, MayOpen, At
  <2>2. peer[p][r] # "none"
    BY <2>1 DEF PeersInv, AnswersOK, AnswerOK
  <2>3. PeerOK(p, r)
    BY DEF PeersInv, PeersOK
  <2> QED BY <2>1, <2>2, <2>3, PeersAssumption, SMTT(30) DEF PeersInv, PageTypes, PeerOK, Rounds
<1>3. PageTypes' /\ ChatIsCurrent'
  BY <1>1, <1>2 DEF PeersInv, PageTypes, ChatIsCurrent, ConnOpen
<1>4. PeerTypes' /\ PeersOK'
  BY PagesKept DEF ConnOpen
<1>5. PICK c : c = [conns[r][n] EXCEPT !.open = @ \cup {p}]
  OBVIOUS
<1>6. c \in Conns /\ c.at = conns[r][n].at
  <2>1. conns[r][n] \in Conns
    BY <1>1
  <2>2. c = [at |-> conns[r][n].at, open |-> conns[r][n].open \cup {p}]
    BY <1>5, <2>1 DEF Conns
  <2> QED BY <2>1, <2>2 DEF Conns
<1>7. PICK new : new = [conns[r] EXCEPT ![n] = c]
  OBVIOUS
<1>8. conns' = [conns EXCEPT ![r] = new]
  BY <1>5, <1>7 DEF ConnOpen
<1>9. /\ new \in Seq(Conns) /\ DOMAIN new = DOMAIN conns[r]
      /\ \A m \in DOMAIN conns[r] : new[m] = IF m = n THEN c ELSE conns[r][m]
  BY <1>1, <1>6, <1>7, Replaced
<1>10. ASSUME NEW m \in DOMAIN new, new[m].at = "answered"
       PROVE  m \in DOMAIN conns[r] /\ conns[r][m].at = "answered"
  BY <1>6, <1>9, <1>10
<1>11. ConnTypes' /\ AnswersOK'
  <2>1. UNCHANGED peer
    BY DEF ConnOpen
  <2> QED BY <1>8, <1>9, <1>10, <2>1, OneRound
<1> QED BY <1>3, <1>4, <1>11 DEF PeersInv

---------------------------------------------------------------------------
LEMMA NextPeers == PeersInv /\ [Next]_peerVars => PeersInv'
<1> SUFFICES ASSUME PeersInv, [Next]_peerVars PROVE PeersInv'
  OBVIOUS
<1>1. CASE HubPairs
  BY <1>1, HubPairsInv
<1>2. CASE \E p \in Pages : InitChat(p) \/ NewChat(p)
  BY <1>2, InitChatInv, NewChatInv
<1>3. CASE \E p \in Pages, r \in Rounds : Open(p, r) \/ Disconnected(p, r) \/ Noticed(p, r)
  BY <1>3, OpenInv, DisconnectedInv, NoticedInv
<1>4. CASE \E r \in Rounds : \E n \in DOMAIN conns[r] : ConnStep(r, n) \/ Unanswered(r, n) \/ Fails(r, n)
  BY <1>4, HandshakeInv, RetryInv, ConnOpenInv DEF ConnStep
<1>5. CASE UNCHANGED peerVars
  BY <1>5 DEF PeersInv, PageTypes, PeerTypes, ConnTypes, PeersOK, PeerOK, AnswersOK, AnswerOK,
              ChatIsCurrent, Connected, peerVars, windowVars
<1> QED BY <1>1, <1>2, <1>3, <1>4, <1>5 DEF Next

LEMMA AlwaysPeers == Spec => []PeersInv
BY InitPeers, NextPeers, PTL DEF Spec

(***************************************************************************)
(* However sockets fail and pages go on, a page has one peer that is not    *)
(* destroyed, and it listens where it is registered.                        *)
(***************************************************************************)
THEOREM PeersTypeCorrect == Spec => []PeersTypeOK
<1>1. PeersInv => PeersTypeOK
  BY DEF PeersInv, PageTypes, PeerTypes, ConnTypes, PeersOK, PeerOK, PeersTypeOK
<1> QED BY <1>1, AlwaysPeers, PTL

(***************************************************************************)
(* The late callbacks of an earlier pair never get hold of the chat form: a *)
(* connection opens where both peers were once registered, and not at a     *)
(* destroyed one.                                                           *)
(***************************************************************************)
THEOREM ChatStaysCurrent == Spec => []ChatIsCurrent
BY AlwaysPeers, PTL DEF PeersInv

---------------------------------------------------------------------------
(* A pair gives up.                                                        *)

\* The retries of a round that are still to come.
Timers(r) == {n \in DOMAIN conns[r] : At(r, n) = "timer"}

\* The connections a round has, or will have when its timers fire.
Spent(r) == Len(conns[r]) + Cardinality(Timers(r))

\* A page's offers at the opening of its peer: one at the start, and one for
\* each reconnect.
Offers(p, r) == attempts[p] + (IF peer[p][r] = "open" THEN 1 ELSE 0)

\* The timers it has set.
Again(p) == IF retries[p] < MAX_CONNECT_RETRIES THEN retries[p] ELSE MAX_CONNECT_RETRIES

\* The counters belong to the round the caller shows: a later round has no
\* connection, and an earlier one makes no more.
Budget(r) ==
  /\ round[Caller[r]] < r => conns[r] = <<>>
  /\ round[Caller[r]] = r => Spent(r) <= Offers(Caller[r], r) + Again(Caller[r])
  /\ round[Caller[r]] > r => Len(conns[r]) <= MaxConns

Budgets == \A r \in Rounds : Budget(r)

\* A step of round r that makes no connection and sets no timer.
Frugal(r) == Len(conns'[r]) = Len(conns[r]) /\ Timers(r)' \subseteq Timers(r)

LEMMA Counted ==
  ASSUME PeersInv, NEW r \in Rounds
  PROVE  /\ IsFiniteSet(Timers(r)) /\ Cardinality(Timers(r)) \in Nat
         /\ Len(conns[r]) \in Nat /\ Spent(r) \in Nat
<1>1. conns[r] \in Seq(Conns)
  BY DEF PeersInv, ConnTypes
<1>2. Len(conns[r]) \in Nat /\ DOMAIN conns[r] = 1..Len(conns[r])
  BY <1>1
<1>3. IsFiniteSet(1..Len(conns[r]))
  BY <1>2, FS_Interval
<1>4. IsFiniteSet(Timers(r))
  BY <1>2, <1>3, FS_Subset DEF Timers
<1>5. Cardinality(Timers(r)) \in Nat
  BY <1>4, FS_CardinalityType
<1> QED BY <1>2, <1>4, <1>5 DEF Spent

\* While the caller's peer is not off or destroyed, it has an attempt left.
LEMMA BudgetBound ==
  ASSUME PeersInv, NEW r \in Rounds
  PROVE  /\ Offers(Caller[r], r) \in 0..1 + MAX_RECONNECT_ATTEMPTS
         /\ Again(Caller[r]) \in 0..MAX_CONNECT_RETRIES
<1>1. PICK p \in Pages : p = Caller[r]
  BY Pair
<1>2. PeerOK(p, r) /\ attempts[p] \in 0..MAX_RECONNECT_ATTEMPTS + 1 /\ retries[p] \in Nat
  BY DEF PeersInv, PeersOK, PageTypes
<1>3. Offers(p, r) \in 0..1 + MAX_RECONNECT_ATTEMPTS
  BY <1>2, PeersAssumption DEF Offers, PeerOK, Connected
<1>4. Again(p) \in 0..MAX_CONNECT_RETRIES
  BY <1>2, PeersAssumption DEF Again
<1> QED BY <1>1, <1>3, <1>4

LEMMA SpentAfter ==
  ASSUME NEW r \in Rounds, NEW k \in Nat, Len(conns'[r]) = k,
         NEW T, IsFiniteSet(T), Timers(r)' \subseteq T
  PROVE  Spent(r)' \in Nat /\ Spent(r)' <= k + Cardinality(T)
<1>1. PICK after : after = Timers(r)'
  OBVIOUS
<1>2. /\ Cardinality(T) \in Nat /\ Cardinality(after) \in Nat
      /\ Cardinality(after) <= Cardinality(T)
  BY <1>1, FS_Subset, FS_CardinalityType
<1>3. Spent(r)' = k + Cardinality(after)
  BY <1>1 DEF Spent
<1> QED BY <1>2, <1>3

LEMMA FrugalSpends ==
  ASSUME PeersInv, NEW r \in Rounds, Frugal(r)
  PROVE  Spent(r)' \in Nat /\ Spent(r)' <= Spent(r)
<1>1. IsFiniteSet(Timers(r)) /\ Len(conns[r]) \in Nat
  BY Counted
<1>2. PICK T : T = Timers(r)
  OBVIOUS
<1>3. PICK k \in Nat : k = Len(conns[r])
  BY <1>1
<1>4. Spent(r)' \in Nat /\ Spent(r)' <= k + Cardinality(T)
  BY <1>1, <1>2, <1>3, SpentAfter DEF Frugal
<1> QED BY <1>2, <1>3, <1>4 DEF Spent

\* A frugal step that takes back no attempt or retry.
LEMMA FrugalKeeps ==
  ASSUME PeersInv, PeersInv', NEW r \in Rounds, Budget(r), Frugal(r),
         round'[Caller[r]] = round[Caller[r]],
         round[Caller[r]] = r =>
           /\ Offers(Caller[r], r)' >= Offers(Caller[r], r)
           /\ Again(Caller[r])' >= Again(Caller[r])
  PROVE  Budget(r)'
<1>1. PICK p \in Pages : p = Caller[r]
  BY Pair
<1>2. Spent(r)' \in Nat /\ Spent(r)' <= Spent(r) /\ Spent(r) \in Nat
  BY FrugalSpends, Counted
<1>3. /\ Offers(p, r)' \in Nat /\ Again(p)' \in Nat
      /\ Offers(p, r) \in Nat /\ Again(p) \in Nat
  BY PeersAssumption DEF PeersInv, PageTypes, Offers, Again
<1>4. conns[r] = <<>> => conns'[r] = <<>>
  <2>1. conns[r] \in Seq(Conns) /\ conns'[r] \in Seq(Conns)
    BY DEF PeersInv, ConnTypes
  <2> QED BY <2>1 DEF Frugal
<1>5. round[p] = r => Spent(r)' <= Offers(p, r)' + Again(p)'
  BY <1>1, <1>2, <1>3 DEF Budget
<1> QED BY <1>1, <1>4, <1>5 DEF Budget, Frugal

\* How far the connections are when one of them has gone on.
LEMMA GoneOn ==
  ASSUME PeersInv, NEW r \in Rounds, NEW n \in DOMAIN conns[r], NEW at \in Ats, Goes(r, n, at),
         NEW s \in Rounds
  PROVE  /\ Len(conns'[s]) = Len(conns[s]) /\ DOMAIN conns'[s] = DOMAIN conns[s]
         /\ \A m \in DOMAIN conns[s] :
              /\ conns'[s][m].at = IF s = r /\ m = n THEN at ELSE conns[s][m].at
              /\ conns'[s][m].open = conns[s][m].open
<1>1. conns[r] \in Seq(Conns)
  BY DEF PeersInv, ConnTypes
<1>2. PICK c : c = [conns[r][n] EXCEPT !.at = at]
  OBVIOUS
<1>3. c \in Conns /\ c.at = at /\ c.open = conns[r][n].open
  BY <1>1, <1>2, ConnGoes
<1>4. PICK new : new = [conns[r] EXCEPT ![n] = c]
  OBVIOUS
<1>5. conns' = [conns EXCEPT ![r] = new]
  BY <1>2, <1>4 DEF Goes
<1>6. /\ DOMAIN new = DOMAIN conns[r] /\ Len(new) = Len(conns[r])
      /\ \A m \in DOMAIN conns[r] : new[m] = IF m = n THEN c ELSE conns[r][m]
  BY <1>1, <1>3, <1>4, Replaced
<1>7. conns'[s] = IF s = r THEN new ELSE conns[s]
  BY <1>5 DEF PeersInv, ConnTypes
<1> QED BY <1>3, <1>6, <1>7

LEMMA GoesFrugal ==
  ASSUME PeersInv, NEW r \in Rounds, NEW n \in DOMAIN conns[r], NEW at \in Ats \ {"timer"},
         Goes(r, n, at), NEW s \in Rounds
  PROVE  Frugal(s)
BY GoneOn DEF Frugal, Timers, At

LEMMA SameFrugal == ASSUME NEW s \in Rounds, conns'[s] = conns[s] PROVE Frugal(s)
BY DEF Frugal, Timers, At

LEMMA HubPairsBudget ==
  ASSUME PeersInv, PeersInv', Budgets, NEW s \in Rounds, HubPairs PROVE Budget(s)'
BY PeersAssumption, Pair, BudgetBound, SameFrugal, FrugalKeeps
   DEF HubPairs, windowVars, Budgets, Offers, Again, PeersInv, PageTypes

LEMMA NoticedBudget ==
  ASSUME PeersInv, PeersInv', Budgets, NEW s \in Rounds, NEW p \in Pages, NEW r \in Rounds,
         Noticed(p, r)
  PROVE  Budget(s)'
BY PeersAssumption, Pair, BudgetBound, SameFrugal, FrugalKeeps
   DEF Noticed, windowVars, Budgets, Offers, Again, PeersInv, PageTypes

\* The disconnect of a destroyed peer that was open is counted too.
LEMMA NewChatBudget ==
  ASSUME PeersInv, PeersInv', Budgets, NEW s \in Rounds, NEW p \in Pages, NewChat(p)
  PROVE  Budget(s)'
<1>1. PICK q \in Pages : q = Caller[s]
  BY Pair
<1>2. Frugal(s) /\ round' = round /\ retries' = retries
  BY SameFrugal DEF NewChat
<1>3. Again(q)' >= Again(q)
  BY <1>2, PeersAssumption DEF Again, PeersInv, PageTypes
<1>4. ASSUME round[q] = s PROVE Offers(q, s)' >= Offers(q, s)
  <2>1. CASE q # p
    BY <2>1, PeersAssumption DEF NewChat, Set, Offers, PeersInv, PageTypes, PeerTypes
  <2>2. CASE q = p
    <3>1. peer'[p][s] = "destroyed"
      BY <1>4, <2>2 DEF NewChat, Set, PeersInv, PeerTypes
    <3>2. attempts'[p] = IF Connected(p, s) THEN attempts[p] + 1 ELSE attempts[p]
      BY <1>4, <2>2 DEF NewChat, PeersInv, PageTypes
    <3> QED BY <2>2, <3>1, <3>2, PeersAssumption DEF Offers, Connected, PeersInv, PageTypes
  <2> QED BY <2>1, <2>2
<1> QED BY <1>1, <1>2, <1>3, <1>4, FrugalKeeps DEF Budgets

\* A page that goes on leaves a round within its budget, and starts the next
\* one with nothing spent.
LEMMA InitChatBudget ==
  ASSUME PeersInv, PeersInv', Budgets, NEW s \in Rounds, NEW p \in Pages, InitChat(p)
  PROVE  Budget(s)'
<1>1. PICK q \in Pages : q = Caller[s]
  BY Pair
<1>2. Frugal(s) /\ conns' = conns
  BY SameFrugal DEF InitChat
<1>3. Budget(s)
  BY DEF Budgets
<1>4. CASE q # p
  <2>1. round'[q] = round[q] /\ attempts'[q] = attempts[q] /\ retries'[q] = retries[q]
        /\ peer'[q] = peer[q]
    BY <1>4 DEF InitChat, PeersInv, PageTypes, PeerTypes
  <2>2. Offers(q, s)' >= Offers(q, s) /\ Again(q)' >= Again(q)
    BY <2>1, PeersAssumption DEF Offers, Again, PeersInv, PageTypes
  <2> QED BY <1>1, <1>2, <1>3, <2>1, <2>2, FrugalKeeps
<1>5. CASE q = p
  <2>1. PICK r \in 0..MaxRound : r = round[p]
    BY DEF PeersInv, PageTypes
  <2>2. round'[q] = r + 1
    BY <1>5, <2>1 DEF InitChat, PeersInv, PageTypes
  <2>3. s \in Nat /\ r \in Nat
    BY PeersAssumption DEF Rounds
  <2>4. CASE s < r
    BY <1>1, <1>2, <1>3, <1>5, <2>1, <2>2, <2>3, <2>4 DEF Budget
  <2>5. CASE s = r
    <3>1. Spent(s) <= Offers(q, s) + Again(q)
      BY <1>1, <1>3, <1>5, <2>1, <2>5 DEF Budget
    <3>2. /\ Offers(q, s) \in 0..1 + MAX_RECONNECT_ATTEMPTS
          /\ Again(q) \in 0..MAX_CONNECT_RETRIES
      BY <1>1, BudgetBound
    <3>3. Len(conns[s]) \in Nat /\ Cardinality(Timers(s)) \in Nat
      BY Counted
    <3>4. Len(conns[s]) <= MaxConns
      BY <3>1, <3>2, <3>3, PeersAssumption DEF Spent, MaxConns
    <3> QED BY <1>1, <1>2, <2>2, <2>3, <2>5, <3>4 DEF Budget
  <2>6. CASE s > r
    <3>1. conns[s] = <<>>
      BY <1>1, <1>3, <1>5, <2>1, <2>6 DEF Budget
    <3>2. Timers(s) = {} /\ Len(conns[s]) = 0
      BY <3>1 DEF Timers
    <3>3. Spent(s) = 0
      BY <3>2, FS_EmptySet DEF Spent
    <3>4. Spent(s)' \in Nat /\ Spent(s)' <= Spent(s)
      BY <1>2, FrugalSpends
    <3>5. Offers(q, s)' \in Nat /\ Again(q)' \in Nat
      BY PeersAssumption DEF Offers, Again, PeersInv, PageTypes
    <3>6. Spent(s)' <= Offers(q, s)' + Again(q)'
      BY <3>3, <3>4, <3>5
    <3> QED BY <1>1, <1>2, <2>2, <2>3, <2>6, <3>1, <3>6 DEF Budget
  <2> QED BY <2>3, <2>4, <2>5, <2>6
<1> QED BY <1>4, <1>5

\* The connections of another round are the same.
LEMMA OtherRound ==
  ASSUME PeersInv, NEW r \in Rounds, NEW new, conns' = [conns EXCEPT ![r] = new],
         NEW s \in Rounds, s # r
  PROVE  Frugal(s)
BY SameFrugal DEF PeersInv, ConnTypes

\* A connection is made, and a timer may have been spent on it.
LEMMA OneMore ==
  ASSUME PeersInv, NEW r \in Rounds, NEW old \in Seq(Conns), NEW c \in Conns,
         conns' = [conns EXCEPT ![r] = Append(old, c)], c.at # "timer",
         Len(old) = Len(conns[r]), NEW S, \A m \in DOMAIN old : old[m].at = "timer" => m \in S
  PROVE  Len(conns'[r]) = Len(conns[r]) + 1 /\ Timers(r)' \subseteq S
<1>1. PICK new : new = Append(old, c)
  OBVIOUS
<1>2. /\ Len(new) = Len(old) + 1 /\ DOMAIN new = 1..Len(old) + 1
      /\ \A m \in 1..Len(old) : m \in DOMAIN old /\ new[m] = old[m]
      /\ new[Len(old) + 1] = c /\ Len(old) \in Nat
  BY <1>1
<1>3. conns'[r] = new
  BY <1>1 DEF PeersInv, ConnTypes
<1>4. ASSUME NEW m \in DOMAIN new, new[m].at = "timer" PROVE m \in S
  <2>1. m \in 1..Len(old)
    BY <1>2, <1>4
  <2> QED BY <1>2, <1>4, <2>1
<1> QED BY <1>2, <1>3, <1>4 DEF Timers, At

\* The peer that is not destroyed is of the round the page shows.
LEMMA ShownRound ==
  ASSUME PeersInv, NEW p \in Pages, NEW r \in Rounds, Connected(p, r) PROVE round[p] = r
<1>1. PeerOK(p, r)
  BY DEF PeersInv, PeersOK
<1>2. round[p] \in Nat /\ r \in Nat
  BY PeersAssumption DEF PeersInv, PageTypes, Rounds
<1> QED BY <1>1, <1>2 DEF PeerOK, Connected

\* The handler of "open" makes one connection, which the opening of the peer
\* has allowed it.
LEMMA OpenBudget ==
  ASSUME PeersInv, PeersInv', Budgets, NEW s \in Rounds, NEW p \in Pages, NEW r \in Rounds,
         Open(p, r)
  PROVE  Budget(s)'
<1>1. PICK q \in Pages : q = Caller[s]
  BY Pair
<1>2. Budget(s) /\ round' = round /\ attempts' = attempts /\ retries' = retries
  BY DEF Budgets, Open, windowVars
<1>3. attempts[q] \in Nat /\ Again(q) \in Nat /\ Again(q)' = Again(q)
  BY <1>2, PeersAssumption DEF Again, PeersInv, PageTypes
<1>4. peer'[q][s] = IF q = p /\ s = r THEN "open" ELSE peer[q][s]
  BY DEF Open, Set, PeersInv, PeerTypes
<1>5. /\ Offers(q, s) \in Nat /\ Offers(q, s)' >= Offers(q, s)
      /\ q = p /\ s = r => Offers(q, s)' = Offers(q, s) + 1
  <2>1. q = p /\ s = r => peer[q][s] = "connecting"
    BY DEF Open
  <2> QED BY <1>2, <1>3, <1>4, <2>1 DEF Offers
<1>6. CASE s # r \/ p # Caller[r]
  <2>1. Frugal(s)
    <3>1. CASE p # Caller[r]
      BY <3>1, SameFrugal DEF Open
    <3>2. CASE p = Caller[r]
      BY <1>6, <3>2, OtherRound DEF Open
    <3> QED BY <3>1, <3>2
  <2> QED BY <1>1, <1>2, <1>3, <1>5, <2>1, FrugalKeeps
<1>7. CASE s = r /\ p = Caller[r]
  <2>1. PICK old : old = [n \in DOMAIN conns[r] |->
                           IF conns[r][n].at = "queued" THEN [conns[r][n] EXCEPT !.at = "sent"]
                           ELSE conns[r][n]]
    OBVIOUS
  <2>2. PICK c \in Conns : c = [at |-> "sent", open |-> {}]
    BY DEF Conns
  <2>3. conns' = [conns EXCEPT ![r] = Append(old, c)]
    BY <1>7, <2>1, <2>2 DEF Open
  <2>4. conns[r] \in Seq(Conns)
    BY DEF PeersInv, ConnTypes
  <2>5. \A n \in DOMAIN conns[r] :
          old[n] \in Conns /\ (old[n].at = "timer" => conns[r][n].at = "timer")
    <3> SUFFICES ASSUME NEW n \in DOMAIN conns[r]
                 PROVE  old[n] \in Conns /\ (old[n].at = "timer" => conns[r][n].at = "timer")
      OBVIOUS
    <3>1. conns[r][n] \in Conns /\ "sent" \in Ats
      BY <2>4 DEF Ats
    <3>2. old[n] \in {conns[r][n], [conns[r][n] EXCEPT !.at = "sent"]}
      BY <2>1
    <3> QED BY <3>1, <3>2, ConnGoes
  <2>6. old = [n \in DOMAIN conns[r] |-> old[n]]
    BY <2>1
  <2>7. old \in Seq(Conns) /\ DOMAIN old = DOMAIN conns[r] /\ Len(old) = Len(conns[r])
    BY <2>4, <2>5, <2>6, SameLength
  <2>8. \A m \in DOMAIN old : old[m].at = "timer" => m \in Timers(r)
    BY <2>5, <2>7 DEF Timers, At
  <2>9. PICK T : T = Timers(r)
    OBVIOUS
  <2>10. Len(conns'[r]) = Len(conns[r]) + 1 /\ Timers(r)' \subseteq T
    <3>1. c.at # "timer"
      BY <2>2
    <3>2. \A m \in DOMAIN old : old[m].at = "timer" => m \in T
      BY <2>8, <2>9
    <3> QED BY <2>2, <2>3, <2>7, <3>1, <3>2, OneMore
  <2>11. Spent(r)' \in Nat /\ Spent(r)' <= Spent(r) + 1 /\ Spent(r) \in Nat
    <3>1. IsFiniteSet(T) /\ Cardinality(T) \in Nat /\ Len(conns[r]) \in Nat
      BY <2>9, Counted
    <3>2. PICK k \in Nat : k = Len(conns[r]) + 1
      BY <3>1
    <3>3. Spent(r)' \in Nat /\ Spent(r)' <= k + Cardinality(T)
      BY <2>10, <3>1, <3>2, SpentAfter
    <3> QED BY <2>9, <3>1, <3>2, <3>3 DEF Spent
  <2>12. round[q] = s
    BY <1>1, <1>7, ShownRound DEF Open, Connected
  <2>13. Spent(s) <= Offers(q, s) + Again(q)
    BY <1>1, <1>2, <2>12 DEF Budget
  <2>14. Spent(s)' <= Offers(q, s)' + Again(q)'
    BY <1>1, <1>3, <1>5, <1>7, <2>11, <2>13
  <2> QED BY <1>1, <1>2, <2>12, <2>14, PeersAssumption DEF Budget, Rounds
<1> QED BY <1>6, <1>7

LEMMA DisconnectedBudget ==
  ASSUME PeersInv, PeersInv', Budgets, NEW s \in Rounds, NEW p \in Pages, NEW r \in Rounds,
         Disconnected(p, r)
  PROVE  Budget(s)'
<1>1. PICK q \in Pages : q = Caller[s]
  BY Pair
<1>2. Budget(s) /\ round' = round /\ retries' = retries
  BY DEF Budgets, Disconnected
<1>3. Again(q)' >= Again(q)
  BY <1>2, PeersAssumption DEF Again, PeersInv, PageTypes
<1>4. Frugal(s)
  <2>1. PICK lost \in SUBSET DOMAIN conns[r] :
          conns' = [conns EXCEPT ![r] = [n \in DOMAIN @ |->
                     IF n \in lost THEN [@[n] EXCEPT !.at = "lost"] ELSE @[n]]]
    BY DEF Disconnected
  <2>2. PICK new : new = [n \in DOMAIN conns[r] |->
                     IF n \in lost THEN [conns[r][n] EXCEPT !.at = "lost"] ELSE conns[r][n]]
    OBVIOUS
  <2>3. conns' = [conns EXCEPT ![r] = new]
    BY <2>1, <2>2
  <2>4. conns[r] \in Seq(Conns)
    BY DEF PeersInv, ConnTypes
  <2>5. \A n \in DOMAIN conns[r] :
          new[n] \in Conns /\ (new[n].at = "timer" => conns[r][n].at = "timer")
    <3> SUFFICES ASSUME NEW n \in DOMAIN conns[r]
                 PROVE  new[n] \in Conns /\ (new[n].at = "timer" => conns[r][n].at = "timer")
      OBVIOUS
    <3>1. conns[r][n] \in Conns /\ "lost" \in Ats
      BY <2>4 DEF Ats
    <3>2. new[n] \in {conns[r][n], [conns[r][n] EXCEPT !.at = "lost"]}
      BY <2>2
    <3>3. [conns[r][n] EXCEPT !.at = "lost"] \in Conns
          /\ [conns[r][n] EXCEPT !.at = "lost"].at # "timer"
      BY <3>1, ConnGoes
    <3> QED BY <3>1, <3>2, <3>3
  <2>6. new = [n \in DOMAIN conns[r] |-> new[n]]
    BY <2>2
  <2>7. DOMAIN new = DOMAIN conns[r] /\ Len(new) = Len(conns[r])
    BY <2>4, <2>5, <2>6, SameLength
  <2>8. CASE s = r
    <3>1. conns'[s] = new
      BY <2>3, <2>8 DEF PeersInv, ConnTypes
    <3> QED BY <2>5, <2>7, <2>8, <3>1 DEF Frugal, Timers, At
  <2>9. CASE s # r
    BY <2>3, <2>9, OtherRound
  <2> QED BY <2>8, <2>9
<1>5. ASSUME round[q] = s PROVE Offers(q, s)' >= Offers(q, s)
  <2>1. CASE q # p
    <3>1. attempts'[q] = attempts[q] /\ peer'[q] = peer[q] /\ attempts[q] \in Nat
      BY <2>1, PeersAssumption DEF Disconnected, Set, PeersInv, PageTypes, PeerTypes
    <3> QED BY <3>1 DEF Offers
  <2>2. CASE q = p
    <3>1. attempts'[p] = attempts[p] + 1 /\ attempts[p] \in Nat
      BY PeersAssumption DEF Disconnected, PeersInv, PageTypes
    <3> QED BY <2>2, <3>1 DEF Offers
  <2> QED BY <2>1, <2>2
<1> QED BY <1>1, <1>2, <1>3, <1>4, <1>5, FrugalKeeps

\* The steps of a connection that set no timer and make no connection.
LEMMA HandshakeBudget ==
  ASSUME PeersInv, PeersInv', Budgets, NEW s \in Rounds, NEW r \in Rounds, NEW n \in DOMAIN conns[r],
         Deliver(r, n) \/ Swallow(r, n) \/ Answer(r, n) \/ Unanswered(r, n) \/ Fails(r, n)
  PROVE  Budget(s)'
<1>1. PICK q \in Pages : q = Caller[s]
  BY Pair
<1>2. UNCHANGED <<round, attempts, retries, peer>>
  BY DEF Deliver, Swallow, Answer, Unanswered, Fails, windowVars
<1>3. Offers(q, s)' >= Offers(q, s) /\ Again(q)' >= Again(q)
  BY <1>2, PeersAssumption DEF Offers, Again, PeersInv, PageTypes
<1>4. PICK at \in Ats \ {"timer"} : Goes(r, n, at)
  BY DEF Deliver, Swallow, Answer, Unanswered, Fails, Ats
<1>5. Frugal(s)
  BY <1>4, GoesFrugal
<1> QED BY <1>1, <1>2, <1>3, <1>5, FrugalKeeps DEF Budgets

LEMMA ConnOpenBudget ==
  ASSUME PeersInv, PeersInv', Budgets, NEW s \in Rounds, NEW r \in Rounds, NEW n \in DOMAIN conns[r],
         NEW p \in Pages, ConnOpen(p, r, n)
  PROVE  Budget(s)'
<1>1. PICK q \in Pages : q = Caller[s]
  BY Pair
<1>2. UNCHANGED <<round, attempts, retries, peer>>
  BY DEF ConnOpen
<1>3. Offers(q, s)' >= Offers(q, s) /\ Again(q)' >= Again(q)
  BY <1>2, PeersAssumption DEF Offers, Again, PeersInv, PageTypes
<1>4. Frugal(s)
  <2>1. conns[r] \in Seq(Conns)
    BY DEF PeersInv, ConnTypes
  <2>2. PICK c : c = [conns[r][n] EXCEPT !.open = @ \cup {p}]
    OBVIOUS
  <2>3. c \in Conns /\ c.at = conns[r][n].at
    <3>1. conns[r][n] \in Conns
      BY <2>1
    <3>2. c = [at |-> conns[r][n].at, open |-> conns[r][n].open \cup {p}]
      BY <2>2, <3>1 DEF Conns
    <3> QED BY <3>1, <3>2 DEF Conns
  <2>4. PICK new : new = [conns[r] EXCEPT ![n] = c]
    OBVIOUS
  <2>5. conns' = [conns EXCEPT ![r] = new]
    BY <2>2, <2>4 DEF ConnOpen
  <2>6. /\ DOMAIN new = DOMAIN conns[r] /\ Len(new) = Len(conns[r])
        /\ \A m \in DOMAIN conns[r] : new[m] = IF m = n THEN c ELSE conns[r][m]
    BY <2>1, <2>3, <2>4, Replaced
  <2>7. CASE s = r
    <3>1. conns'[s] = new
      BY <2>5, <2>7 DEF PeersInv, ConnTypes
    <3> QED BY <2>3, <2>6, <2>7, <3>1 DEF Frugal, Timers, At
  <2>8. CASE s # r
    BY <2>5, <2>8, OtherRound
  <2> QED BY <2>7, <2>8
<1> QED BY <1>1, <1>2, <1>3, <1>4, FrugalKeeps DEF Budgets

\* A timer is set for a peer that is open, and for one of the retries it has.
LEMMA PeerUnavailableBudget ==
  ASSUME PeersInv, PeersInv', Budgets, NEW s \in Rounds, NEW r \in Rounds, NEW n \in DOMAIN conns[r],
         PeerUnavailable(r, n)
  PROVE  Budget(s)'
<1>1. PICK p \in Pages : p = Caller[r]
  BY Pair
<1>2. PICK q \in Pages : q = Caller[s]
  BY Pair
<1>3. Budget(s) /\ UNCHANGED <<round, attempts, peer>>
  BY DEF PeerUnavailable, Budgets
<1>4. retries' \in {retries, [retries EXCEPT ![p] = @ + 1]}
  BY <1>1 DEF PeerUnavailable
<1>5. Offers(q, s)' = Offers(q, s) /\ Offers(q, s) \in Nat
  BY <1>3, PeersAssumption DEF Offers, PeersInv, PageTypes
<1>6. Again(q)' >= Again(q) /\ Again(q) \in Nat
  BY <1>4, PeersAssumption DEF Again, PeersInv, PageTypes
<1>7. CASE Goes(r, n, "over")
  <2>1. Frugal(s)
    BY <1>7, GoesFrugal DEF Ats
  <2> QED BY <1>2, <1>3, <1>5, <1>6, <2>1, FrugalKeeps
<1>8. CASE ~Goes(r, n, "over")
  <2>1. /\ server[p][r] = "live" /\ retries[p] < MAX_CONNECT_RETRIES
        /\ retries' = [retries EXCEPT ![p] = @ + 1] /\ Goes(r, n, "timer")
    BY <1>1, <1>8 DEF PeerUnavailable
  <2>2. CASE s # r
    <3>1. Frugal(s)
      BY <2>1, <2>2, GoneOn DEF Ats, Frugal, Timers, At
    <3> QED BY <1>2, <1>3, <1>5, <1>6, <3>1, FrugalKeeps
  <2>3. CASE s = r
    <3>1. peer[p][r] = "open"
      BY <2>1 DEF PeersInv, PeersOK, PeerOK
    <3>2. round[q] = s
      BY <1>1, <1>2, <2>3, <3>1, ShownRound DEF Connected
    <3>3. Spent(s) <= Offers(q, s) + Again(q)
      BY <1>2, <1>3, <3>2 DEF Budget
    <3>4. Again(q)' = Again(q) + 1
      BY <1>1, <1>2, <2>1, <2>3, PeersAssumption DEF Again, PeersInv, PageTypes
    <3>5. /\ IsFiniteSet(Timers(s)) /\ Cardinality(Timers(s)) \in Nat
          /\ Len(conns[s]) \in Nat /\ Spent(s) \in Nat
      BY Counted
    <3>6. PICK T : T = Timers(s) \cup {n}
      OBVIOUS
    <3>7. IsFiniteSet(T) /\ Cardinality(T) \in Nat /\ Cardinality(T) <= Cardinality(Timers(s)) + 1
      <4>1. IsFiniteSet(T) /\ Cardinality(T) \in {Cardinality(Timers(s)), Cardinality(Timers(s)) + 1}
        BY <3>5, <3>6, FS_AddElement
      <4> QED BY <3>5, <4>1
    <3>8. Len(conns'[s]) = Len(conns[s]) /\ Timers(s)' \subseteq T
      BY <2>1, <2>3, <3>6, GoneOn DEF Ats, Timers, At
    <3>9. PICK k \in Nat : k = Len(conns[s])
      BY <3>5
    <3>10. Spent(s)' \in Nat /\ Spent(s)' <= k + Cardinality(T)
      BY <3>7, <3>8, <3>9, SpentAfter
    <3>11. Spent(s)' <= Spent(s) + 1
      BY <3>5, <3>7, <3>9, <3>10, SMTT(30) DEF Spent
    <3>12. Spent(s)' <= Offers(q, s)' + Again(q)'
      BY <1>5, <1>6, <3>3, <3>4, <3>5, <3>10, <3>11
    <3> QED BY <1>2, <1>3, <3>2, <3>12, PeersAssumption DEF Budget, Rounds
  <2> QED BY <2>2, <2>3
<1> QED BY <1>7, <1>8

\* A timer that fires turns into the connection it stood for.
LEMMA RetryBudget ==
  ASSUME PeersInv, PeersInv', Budgets, NEW s \in Rounds, NEW r \in Rounds, NEW n \in DOMAIN conns[r],
         Retry(r, n)
  PROVE  Budget(s)'
<1>1. PICK q \in Pages : q = Caller[s]
  BY Pair
<1>2. Budget(s) /\ UNCHANGED <<round, attempts, retries, peer>>
  BY DEF Retry, windowVars, Budgets
<1>3. /\ Offers(q, s)' = Offers(q, s) /\ Offers(q, s) \in Nat
      /\ Again(q)' = Again(q) /\ Again(q) \in Nat
  BY <1>2, PeersAssumption DEF Offers, Again, PeersInv, PageTypes
<1>4. CASE Goes(r, n, "over")
  <2>1. Frugal(s)
    BY <1>4, GoesFrugal DEF Ats
  <2> QED BY <1>1, <1>2, <1>3, <2>1, FrugalKeeps
<1>5. CASE ~Goes(r, n, "over")
  <2>1. PICK at \in {"queued", "sent"} :
          conns' = [conns EXCEPT ![r] = Append([@ EXCEPT ![n].at = "over"],
                                               [at |-> at, open |-> {}])]
    BY <1>5 DEF Retry
  <2>2. CASE s # r
    <3>1. Frugal(s)
      BY <2>1, <2>2, OtherRound
    <3> QED BY <1>1, <1>2, <1>3, <3>1, FrugalKeeps
  <2>3. CASE s = r
    <3>1. round[q] = s /\ n \in Timers(s)
      BY <1>1, <1>5, <2>3 DEF Retry, Timers
    <3>2. Spent(s) <= Offers(q, s) + Again(q)
      BY <1>1, <1>2, <3>1 DEF Budget
    <3>3. PICK c : c = [conns[r][n] EXCEPT !.at = "over"]
      OBVIOUS
    <3>4. conns[r] \in Seq(Conns)
      BY DEF PeersInv, ConnTypes
    <3>5. c \in Conns /\ c.at = "over"
      <4>1. conns[r][n] \in Conns /\ "over" \in Ats
        BY <3>4 DEF Ats
      <4> QED BY <3>3, <4>1, ConnGoes
    <3>6. PICK old : old = [conns[r] EXCEPT ![n] = c]
      OBVIOUS
    <3>7. /\ old \in Seq(Conns) /\ DOMAIN old = DOMAIN conns[r] /\ Len(old) = Len(conns[r])
          /\ \A m \in DOMAIN conns[r] : old[m] = IF m = n THEN c ELSE conns[r][m]
      BY <3>4, <3>5, <3>6, Replaced
    <3>8. PICK next \in Conns : next = [at |-> at, open |-> {}]
      BY <2>1 DEF Conns
    <3>9. next.at # "timer"
      BY <2>1, <3>8
    <3>10. conns' = [conns EXCEPT ![r] = Append(old, next)]
      BY <2>1, <3>3, <3>6, <3>8
    <3>11. /\ IsFiniteSet(Timers(s)) /\ Cardinality(Timers(s)) \in Nat
           /\ Len(conns[s]) \in Nat /\ Spent(s) \in Nat
      BY Counted
    <3>12. PICK T : T = Timers(s) \ {n}
      OBVIOUS
    <3>13. /\ IsFiniteSet(T) /\ Cardinality(T) \in Nat
           /\ Cardinality(T) = Cardinality(Timers(s)) - 1
      BY <3>1, <3>11, <3>12, FS_RemoveElement, FS_CardinalityType
    <3>14. \A m \in DOMAIN old : old[m].at = "timer" => m \in T
      BY <2>3, <3>5, <3>7, <3>12 DEF Timers, At
    <3>15. Len(conns'[s]) = Len(conns[s]) + 1 /\ Timers(s)' \subseteq T
      BY <2>3, <3>7, <3>9, <3>10, <3>14, OneMore
    <3>16. PICK k \in Nat : k = Len(conns[s]) + 1
      BY <3>11
    <3>17. Spent(s)' \in Nat /\ Spent(s)' <= k + Cardinality(T)
      BY <3>13, <3>15, <3>16, SpentAfter
    <3>18. Spent(s)' <= Spent(s)
      BY <3>11, <3>13, <3>16, <3>17 DEF Spent
    <3>19. Spent(s)' <= Offers(q, s)' + Again(q)'
      BY <1>3, <3>2, <3>11, <3>17, <3>18
    <3> QED BY <1>1, <1>2, <3>1, <3>19, PeersAssumption DEF Budget, Rounds
  <2> QED BY <2>2, <2>3
<1> QED BY <1>4, <1>5

LEMMA InitBudgets == Init => Budgets
BY Pair, PeersAssumption DEF Init, Budgets, Budget, Rounds

LEMMA NextBudgets == PeersInv /\ PeersInv' /\ Budgets /\ [Next]_peerVars => Budgets'
<1> SUFFICES ASSUME PeersInv, PeersInv', Budgets, [Next]_peerVars, NEW s \in Rounds
             PROVE  Budget(s)'
  BY DEF Budgets
<1>1. CASE HubPairs
  BY <1>1, HubPairsBudget
<1>2. CASE \E p \in Pages : InitChat(p) \/ NewChat(p)
  BY <1>2, InitChatBudget, NewChatBudget
<1>3. CASE \E p \in Pages, r \in Rounds : Open(p, r) \/ Disconnected(p, r) \/ Noticed(p, r)
  BY <1>3, OpenBudget, DisconnectedBudget, NoticedBudget
<1>4. CASE \E r \in Rounds : \E n \in DOMAIN conns[r] : ConnStep(r, n) \/ Unanswered(r, n) \/ Fails(r, n)
  BY <1>4, HandshakeBudget, PeerUnavailableBudget, RetryBudget, ConnOpenBudget DEF ConnStep
<1>5. CASE UNCHANGED peerVars
  BY <1>5 DEF Budgets, Budget, Spent, Timers, At, Offers, Again, peerVars, windowVars
<1> QED BY <1>1, <1>2, <1>3, <1>4, <1>5 DEF Next

(***************************************************************************)
(* However sockets fail, and however late the timers of one pair fire in    *)
(* the next, a pair makes no more connections than one, its reconnects and  *)
(* its retries.                                                             *)
(***************************************************************************)
THEOREM PairGivesUp == Spec => []GivesUp
<1>1. PeersInv /\ Budgets => GivesUp
  <2> SUFFICES ASSUME PeersInv, Budgets, NEW r \in Rounds PROVE Len(conns[r]) <= MaxConns
    BY DEF GivesUp
  <2>1. PICK p \in Pages : p = Caller[r]
    BY Pair
  <2>2. Budget(r) /\ round[p] \in Nat /\ r \in Nat
    BY PeersAssumption DEF Budgets, PeersInv, PageTypes, Rounds
  <2>3. CASE round[p] < r
    <3>1. Len(conns[r]) = 0
      BY <2>1, <2>2, <2>3 DEF Budget
    <3> QED BY <3>1, PeersAssumption DEF MaxConns
  <2>4. CASE round[p] = r
    <3>1. Spent(r) <= Offers(p, r) + Again(p)
      BY <2>1, <2>2, <2>4 DEF Budget
    <3>2. /\ Offers(p, r) \in 0..1 + MAX_RECONNECT_ATTEMPTS
          /\ Again(p) \in 0..MAX_CONNECT_RETRIES
          /\ Len(conns[r]) \in Nat /\ Cardinality(Timers(r)) \in Nat
      BY <2>1, BudgetBound, Counted
    <3> QED BY <3>1, <3>2, PeersAssumption DEF Spent, MaxConns
  <2>5. CASE round[p] > r
    BY <2>1, <2>2, <2>5 DEF Budget
  <2> QED BY <2>2, <2>3, <2>4, <2>5
<1>2. Spec => [](PeersInv /\ Budgets)
  <2>1. PeersInv /\ Budgets /\ [Next]_peerVars => (PeersInv /\ Budgets)'
    BY NextPeers, NextBudgets
  <2> QED BY InitPeers, InitBudgets, <2>1, PTL DEF Spec
<1> QED BY <1>1, <1>2, PTL

---------------------------------------------------------------------------
(* A pair is not left with nothing to wait for.                            *)

Hopes == {"sent", "timer", "delivered", "answered", "lost", "failed"}

\* The last connection of a caller that is open and shows no error is on its
\* way, chats, or has gone wrong in a way of which nobody is told.
Hopeful(r) ==
  \/ peer[Caller[r]][r] # "open" \/ error[Caller[r]]
  \/ conns[r] # <<>> /\ At(r, Len(conns[r])) \in Hopes

\* A page without a socket says so, and one at an open end of a connection
\* of the round it shows has a chat.
TellsOrChats ==
  /\ \A p \in Pages, r \in Rounds : peer[p][r] = "off" => error[p]
  /\ \A r \in Rounds : \A n \in DOMAIN conns[r] : \A p \in conns[r][n].open :
       peer[p][r] # "none" /\ (round[p] = r => chat[p] # None)

HopeInv == TellsOrChats /\ \A r \in Rounds : Hopeful(r)

\* A step that does not open an end of a connection of round r.
SameEnds(r) ==
  \A n \in DOMAIN conns'[r] :
    conns'[r][n].open = {} \/ (n \in DOMAIN conns[r] /\ conns'[r][n].open = conns[r][n].open)

\* A step that adds no connection to round r and after which none has ended
\* without a word.
SameHopes(r) ==
  /\ Len(conns'[r]) = Len(conns[r]) /\ DOMAIN conns'[r] = DOMAIN conns[r]
  /\ \A n \in DOMAIN conns[r] :
       At(r, n) \in Hopes => conns'[r][n].at \in Hopes

LEMMA ConnsKept == ASSUME NEW s \in Rounds, conns'[s] = conns[s] PROVE SameEnds(s) /\ SameHopes(s)
BY DEF SameEnds, SameHopes, At

LEMMA GoesKeeps ==
  ASSUME PeersInv, NEW r \in Rounds, NEW n \in DOMAIN conns[r], NEW at \in Ats, Goes(r, n, at),
         NEW s \in Rounds
  PROVE  SameEnds(s) /\ (at \in Hopes \/ s # r => SameHopes(s))
BY GoneOn DEF SameEnds, SameHopes, At

LEMMA HopefulKept ==
  ASSUME NEW s \in Rounds, Hopeful(s), SameHopes(s),
         peer'[Caller[s]][s] = "open" => peer[Caller[s]][s] = "open",
         peer'[Caller[s]][s] = "open" /\ error[Caller[s]] => error'[Caller[s]]
  PROVE  Hopeful(s)'
BY DEF Hopeful, SameHopes, At

LEMMA TellsKept ==
  ASSUME PeersInv, TellsOrChats,
         \A p \in Pages, r \in Rounds :
           /\ peer'[p][r] = "off" =>
                error'[p] \/ (peer[p][r] = "off" /\ (error[p] => error'[p]))
           /\ peer[p][r] # "none" => peer'[p][r] # "none"
           /\ peer[p][r] # "none" /\ round'[p] = r => round[p] = r /\ chat'[p] = chat[p],
         \A r \in Rounds : SameEnds(r)
  PROVE  TellsOrChats'
<1>1. \A p \in Pages, r \in Rounds : peer'[p][r] = "off" => error'[p]
  BY DEF TellsOrChats
<1>2. ASSUME NEW r \in Rounds, NEW n \in DOMAIN conns'[r], NEW p \in conns'[r][n].open
      PROVE  peer'[p][r] # "none" /\ (round'[p] = r => chat'[p] # None)
  <2>1. n \in DOMAIN conns[r] /\ p \in conns[r][n].open
    BY <1>2 DEF SameEnds
  <2>2. p \in Pages
    <3>1. conns[r] \in Seq(Conns)
      BY DEF PeersInv, ConnTypes
    <3>2. conns[r][n] \in Conns
      BY <2>1, <3>1
    <3> QED BY <2>1, <3>2 DEF Conns
  <2> QED BY <2>1, <2>2 DEF TellsOrChats
<1> QED BY <1>1, <1>2 DEF TellsOrChats

\* Round r has the connections "old", one for each it had, and one more.
AddsOne(r, old, c) ==
  /\ \A m \in DOMAIN conns[r] : m \in DOMAIN conns'[r] /\ conns'[r][m] = old[m]
  /\ conns'[r] # <<>> /\ conns'[r][Len(conns'[r])] = c
  /\ \A m \in DOMAIN conns'[r] : m \in DOMAIN conns[r] \/ conns'[r][m] = c

LEMMA Appended ==
  ASSUME PeersInv, NEW r \in Rounds, NEW old \in Seq(Conns), Len(old) = Len(conns[r]), NEW c,
         conns' = [conns EXCEPT ![r] = Append(old, c)]
  PROVE  AddsOne(r, old, c)
<1>1. conns[r] \in Seq(Conns) /\ conns'[r] = Append(old, c)
  BY DEF PeersInv, ConnTypes
<1>2. PICK k \in Nat : k = Len(old)
  OBVIOUS
<1>3. /\ DOMAIN conns[r] = 1..k /\ DOMAIN conns'[r] = 1..k + 1
      /\ conns'[r][k + 1] = c /\ \A m \in 1..k : conns'[r][m] = old[m]
  BY <1>1, <1>2
<1>4. \A m \in 1..k : m \in 1..k + 1
  OBVIOUS
<1>5. k + 1 \in 1..k + 1 /\ \A m \in 1..k + 1 : m \in 1..k \/ m = k + 1
  OBVIOUS
<1> QED BY <1>3, <1>4, <1>5 DEF AddsOne

LEMMA NoPageStepHope ==
  ASSUME PeersInv, HopeInv, UNCHANGED <<conns, peer, error, round, chat>>
  PROVE  HopeInv'
<1>1. \A s \in Rounds : SameEnds(s) /\ SameHopes(s)
  BY ConnsKept
<1> QED BY <1>1, HopefulKept, TellsKept DEF HopeInv

LEMMA InitChatHope == ASSUME PeersInv, HopeInv, NEW p \in Pages, InitChat(p) PROVE HopeInv'
<1>1. \A s \in Rounds : SameEnds(s) /\ SameHopes(s)
  BY ConnsKept DEF InitChat
<1>2. PICK r \in 0..MaxRound : r = round[p]
  BY DEF PeersInv, PageTypes
<1>3. ASSUME NEW q \in Pages, NEW s \in Rounds
      PROVE  /\ peer'[q][s] = IF q # p THEN peer[q][s]
                              ELSE IF s = r THEN "destroyed"
                              ELSE IF s = r + 1 THEN "connecting" ELSE peer[q][s]
             /\ round'[q] = IF q = p THEN r + 1 ELSE round[q]
             /\ q # p => error'[q] = error[q] /\ chat'[q] = chat[q]
  BY <1>2 DEF InitChat, PeersInv, PageTypes, PeerTypes
<1>4. ASSUME NEW q \in Pages, NEW s \in Rounds, q = p, s # r
      PROVE  peer[q][s] \in {"none", "destroyed"} /\ (s > r => peer[q][s] = "none")
  <2>1. PeerOK(q, s) /\ s \in Nat /\ r \in Nat
    BY PeersAssumption DEF PeersInv, PeersOK, Rounds
  <2> QED BY <1>2, <1>4, <2>1 DEF PeerOK
<1>5. ASSUME NEW s \in Rounds PROVE Hopeful(s)'
  <2>1. PICK q \in Pages : q = Caller[s]
    BY Pair
  <2>2. CASE q # p
    BY <1>1, <1>3, <2>1, <2>2, HopefulKept DEF HopeInv
  <2>3. CASE q = p
    <3>1. peer'[q][s] # "open"
      BY <1>3, <1>4, <2>3
    <3> QED BY <2>1, <3>1 DEF Hopeful
  <2> QED BY <2>2, <2>3
<1>6. TellsOrChats'
  <2>1. ASSUME NEW q \in Pages, NEW s \in Rounds
        PROVE  /\ peer'[q][s] = "off" =>
                    error'[q] \/ (peer[q][s] = "off" /\ (error[q] => error'[q]))
               /\ peer[q][s] # "none" => peer'[q][s] # "none"
               /\ peer[q][s] # "none" /\ round'[q] = s => round[q] = s /\ chat'[q] = chat[q]
    <3>1. CASE q # p
      BY <1>3, <3>1
    <3>2. CASE q = p
      <4>1. peer'[q][s] # "off" /\ (peer[q][s] # "none" => peer'[q][s] # "none")
        BY <1>3, <1>4, <3>2
      <4>2. ~(peer[q][s] # "none" /\ round'[q] = s)
        BY <1>3, <1>4, <3>2
      <4> QED BY <4>1, <4>2
    <3> QED BY <3>1, <3>2
  <2> QED BY <1>1, <2>1, TellsKept DEF HopeInv
<1> QED BY <1>5, <1>6 DEF HopeInv

LEMMA NewChatHope == ASSUME PeersInv, HopeInv, NEW p \in Pages, NewChat(p) PROVE HopeInv'
<1>1. \A s \in Rounds : SameEnds(s) /\ SameHopes(s)
  BY ConnsKept DEF NewChat
<1>2. UNCHANGED <<round, chat>> /\ \A q \in Pages : error[q] => error'[q]
  BY DEF NewChat, PeersInv, PageTypes
<1>3. \A q \in Pages, s \in Rounds : peer'[q][s] \in {peer[q][s], "destroyed"}
  BY DEF NewChat, Set, PeersInv, PeerTypes
<1>4. TellsOrChats'
  BY <1>1, <1>2, <1>3, TellsKept DEF HopeInv
<1> QED BY <1>1, <1>2, <1>3, <1>4, Pair, HopefulKept DEF HopeInv

LEMMA OpenHope ==
  ASSUME PeersInv, HopeInv, NEW p \in Pages, NEW r \in Rounds, Open(p, r) PROVE HopeInv'
<1>1. UNCHANGED <<round, chat, error>>
  BY DEF Open, windowVars
<1>2. \A q \in Pages, s \in Rounds : peer'[q][s] = IF q = p /\ s = r THEN "open" ELSE peer[q][s]
  BY DEF Open, Set, PeersInv, PeerTypes
<1>3. ASSUME NEW s \in Rounds, s # r \/ p # Caller[r] PROVE conns'[s] = conns[s]
  BY <1>3 DEF Open, PeersInv, ConnTypes
<1>4. ASSUME NEW s \in Rounds, s = r, p = Caller[r]
      PROVE  SameEnds(s) /\ Hopeful(s)'
  <2>1. PICK old : old = [n \in DOMAIN conns[r] |->
                           IF conns[r][n].at = "queued" THEN [conns[r][n] EXCEPT !.at = "sent"]
                           ELSE conns[r][n]]
    OBVIOUS
  <2>2. PICK c : c = [at |-> "sent", open |-> {}]
    OBVIOUS
  <2>3. conns' = [conns EXCEPT ![r] = Append(old, c)]
    BY <1>4, <2>1, <2>2 DEF Open
  <2>4. conns[r] \in Seq(Conns)
    BY DEF PeersInv, ConnTypes
  <2>5. \A n \in DOMAIN conns[r] : old[n] \in Conns /\ old[n].open = conns[r][n].open
    <3> SUFFICES ASSUME NEW n \in DOMAIN conns[r]
                 PROVE  old[n] \in Conns /\ old[n].open = conns[r][n].open
      OBVIOUS
    <3>1. conns[r][n] \in Conns /\ "sent" \in Ats
      BY <2>4 DEF Ats
    <3>2. old[n] \in {conns[r][n], [conns[r][n] EXCEPT !.at = "sent"]}
      BY <2>1
    <3>3. /\ [conns[r][n] EXCEPT !.at = "sent"] \in Conns
          /\ [conns[r][n] EXCEPT !.at = "sent"].open = conns[r][n].open
      BY <3>1, ConnGoes
    <3> QED BY <3>1, <3>2, <3>3
  <2>6. old = [n \in DOMAIN conns[r] |-> old[n]]
    BY <2>1
  <2>7. old \in Seq(Conns) /\ Len(old) = Len(conns[r])
    BY <2>4, <2>5, <2>6, SameLength
  <2>8. AddsOne(r, old, c)
    BY <2>3, <2>7, Appended
  <2>9. SameEnds(r)
    BY <2>2, <2>5, <2>8 DEF SameEnds, AddsOne
  <2>10. Hopeful(r)'
    BY <2>2, <2>8 DEF Hopeful, Hopes, At, AddsOne
  <2> QED BY <1>4, <2>9, <2>10
<1>5. ASSUME NEW s \in Rounds PROVE SameEnds(s) /\ Hopeful(s)'
  <2>1. CASE s = r /\ p = Caller[r]
    BY <1>4, <2>1
  <2>2. CASE s # r \/ p # Caller[r]
    BY <1>1, <1>2, <1>3, <2>2, ConnsKept, Pair, HopefulKept DEF HopeInv
  <2> QED BY <2>1, <2>2
<1>6. peer[p][r] = "connecting"
  BY DEF Open
<1>7. TellsOrChats'
  BY <1>1, <1>2, <1>5, <1>6, TellsKept DEF HopeInv
<1> QED BY <1>5, <1>7 DEF HopeInv

LEMMA DisconnectedHope ==
  ASSUME PeersInv, HopeInv, NEW p \in Pages, NEW r \in Rounds, Disconnected(p, r) PROVE HopeInv'
<1>1. UNCHANGED <<round, chat>> /\ error' = [error EXCEPT ![p] = @ \/ Exhausted(p)]
  BY DEF Disconnected
<1>2. \A q \in Pages, s \in Rounds :
        peer'[q][s] = IF q = p /\ s = r THEN (IF Exhausted(p) THEN "off" ELSE "connecting")
                      ELSE peer[q][s]
  BY DEF Disconnected, Set, PeersInv, PeerTypes
<1>3. \A q \in Pages : error[q] => error'[q]
  BY <1>1 DEF PeersInv, PageTypes
<1>4. Exhausted(p) => error'[p]
  BY <1>1 DEF PeersInv, PageTypes
<1>5. ASSUME NEW s \in Rounds PROVE SameEnds(s) /\ SameHopes(s)
  <2>1. PICK lost \in SUBSET DOMAIN conns[r] :
          conns' = [conns EXCEPT ![r] = [n \in DOMAIN @ |->
                     IF n \in lost THEN [@[n] EXCEPT !.at = "lost"] ELSE @[n]]]
    BY DEF Disconnected
  <2>2. PICK new : new = [n \in DOMAIN conns[r] |->
                     IF n \in lost THEN [conns[r][n] EXCEPT !.at = "lost"] ELSE conns[r][n]]
    OBVIOUS
  <2>3. conns' = [conns EXCEPT ![r] = new]
    BY <2>1, <2>2
  <2>4. conns[r] \in Seq(Conns)
    BY DEF PeersInv, ConnTypes
  <2>5. \A n \in DOMAIN conns[r] :
          new[n].open = conns[r][n].open /\ new[n].at \in {conns[r][n].at, "lost"}
    <3> SUFFICES ASSUME NEW n \in DOMAIN conns[r]
                 PROVE  new[n].open = conns[r][n].open /\ new[n].at \in {conns[r][n].at, "lost"}
      OBVIOUS
    <3>1. conns[r][n] \in Conns /\ "lost" \in Ats
      BY <2>4 DEF Ats
    <3>2. new[n] \in {conns[r][n], [conns[r][n] EXCEPT !.at = "lost"]}
      BY <2>2
    <3>3. /\ [conns[r][n] EXCEPT !.at = "lost"].open = conns[r][n].open
          /\ [conns[r][n] EXCEPT !.at = "lost"].at = "lost"
      BY <3>1, ConnGoes
    <3> QED BY <3>1, <3>2, <3>3
  <2>6. DOMAIN new = DOMAIN conns[r]
    BY <2>2
  <2>7. CASE s = r
    <3>1. conns'[s] = new
      BY <2>3, <2>7 DEF PeersInv, ConnTypes
    <3> QED BY <2>5, <2>6, <2>7, <3>1 DEF SameEnds, SameHopes, Hopes, At
  <2>8. CASE s # r
    BY <2>3, <2>8, ConnsKept DEF PeersInv, ConnTypes
  <2> QED BY <2>7, <2>8
<1>6. TellsOrChats'
  BY <1>1, <1>2, <1>3, <1>4, <1>5, TellsKept DEF HopeInv
<1> QED BY <1>2, <1>3, <1>5, <1>6, Pair, HopefulKept DEF HopeInv

LEMMA HandshakeHope ==
  ASSUME PeersInv, HopeInv, NEW r \in Rounds, NEW n \in DOMAIN conns[r],
         Deliver(r, n) \/ Swallow(r, n) \/ Answer(r, n) \/ Unanswered(r, n) \/ Fails(r, n)
  PROVE  HopeInv'
<1>1. UNCHANGED <<round, chat, error, peer>>
  BY DEF Deliver, Swallow, Answer, Unanswered, Fails, windowVars
<1>2. PICK at \in Ats \cap Hopes : Goes(r, n, at)
  BY DEF Deliver, Swallow, Answer, Unanswered, Fails, Ats, Hopes
<1>3. \A s \in Rounds : SameEnds(s) /\ SameHopes(s)
  BY <1>2, GoesKeeps
<1> QED BY <1>1, <1>3, HopefulKept, TellsKept DEF HopeInv

\* An offer to an unknown callee is made again, by the timer or by the caller's
\* next opening, or the page says that it gives up.
LEMMA PeerUnavailableHope ==
  ASSUME PeersInv, HopeInv, NEW r \in Rounds, NEW n \in DOMAIN conns[r], PeerUnavailable(r, n)
  PROVE  HopeInv'
<1>1. PICK p \in Pages : p = Caller[r]
  BY Pair
<1>2. UNCHANGED <<round, chat, peer>> /\ error' \in {error, [error EXCEPT ![p] = TRUE]}
  BY <1>1 DEF PeerUnavailable
<1>3. \A q \in Pages : error[q] => error'[q]
  BY <1>2 DEF PeersInv, PageTypes
<1>4. PICK at \in {"over", "timer"} : Goes(r, n, at)
  BY DEF PeerUnavailable
<1>5. \A s \in Rounds : SameEnds(s) /\ (s # r => SameHopes(s))
  BY <1>4, GoesKeeps DEF Ats
<1>6. Hopeful(r)'
  <2>1. CASE Goes(r, n, "timer")
    <3>1. SameHopes(r)
      BY <2>1, GoesKeeps DEF Ats, Hopes
    <3> QED BY <1>1, <1>2, <1>3, <3>1, HopefulKept DEF HopeInv
  <2>2. CASE server[p][r] # "live"
    <3>1. peer'[p][r] # "open"
      BY <1>2, <2>2 DEF PeersInv, PeersOK, PeerOK
    <3> QED BY <1>1, <3>1 DEF Hopeful
  <2>3. CASE error' = [error EXCEPT ![p] = TRUE]
    BY <1>1, <2>3 DEF Hopeful, PeersInv, PageTypes
  <2> QED BY <1>1, <2>1, <2>2, <2>3 DEF PeerUnavailable
<1>7. ASSUME NEW s \in Rounds, s # r PROVE Hopeful(s)'
  BY <1>2, <1>3, <1>5, <1>7, Pair, HopefulKept DEF HopeInv
<1>8. TellsOrChats'
  BY <1>2, <1>3, <1>5, TellsKept DEF HopeInv
<1> QED BY <1>6, <1>7, <1>8 DEF HopeInv

\* The timer of a caller that is open offers again.
LEMMA RetryHope ==
  ASSUME PeersInv, HopeInv, NEW r \in Rounds, NEW n \in DOMAIN conns[r], Retry(r, n)
  PROVE  HopeInv'
<1>1. PICK p \in Pages : p = Caller[r]
  BY Pair
<1>2. UNCHANGED <<round, chat, peer, error>>
  BY DEF Retry, windowVars
<1>3. CASE ~(round[p] = r /\ peer[p][r] # "off" /\ (peer[p][r] = "destroyed" => server[p][r] = "deaf"))
  <2>1. Goes(r, n, "over") /\ peer[p][r] # "open"
    BY <1>1, <1>3, ShownRound DEF Retry, Connected
  <2>2. \A s \in Rounds : SameEnds(s) /\ (s # r => SameHopes(s))
    BY <2>1, GoesKeeps DEF Ats
  <2>3. Hopeful(r)'
    BY <1>1, <1>2, <2>1 DEF Hopeful
  <2>4. ASSUME NEW s \in Rounds, s # r PROVE Hopeful(s)'
    BY <1>2, <2>2, <2>4, HopefulKept DEF HopeInv
  <2>5. TellsOrChats'
    BY <1>2, <2>2, TellsKept DEF HopeInv
  <2> QED BY <2>3, <2>4, <2>5 DEF HopeInv
<1>4. CASE round[p] = r /\ peer[p][r] # "off" /\ (peer[p][r] = "destroyed" => server[p][r] = "deaf")
  <2>1. PICK c : /\ c = [at |-> IF peer[p][r] = "connecting" THEN "queued" ELSE "sent",
                         open |-> {}]
                 /\ conns' = [conns EXCEPT ![r] = Append([@ EXCEPT ![n].at = "over"], c)]
    BY <1>1, <1>4 DEF Retry
  <2>2. conns[r] \in Seq(Conns)
    BY DEF PeersInv, ConnTypes
  <2>3. PICK d : d = [conns[r][n] EXCEPT !.at = "over"]
    OBVIOUS
  <2>4. d \in Conns /\ d.open = conns[r][n].open
    <3>1. conns[r][n] \in Conns /\ "over" \in Ats
      BY <2>2 DEF Ats
    <3> QED BY <2>3, <3>1, ConnGoes
  <2>5. PICK old : old = [conns[r] EXCEPT ![n] = d]
    OBVIOUS
  <2>6. /\ old \in Seq(Conns) /\ Len(old) = Len(conns[r])
        /\ \A m \in DOMAIN conns[r] : old[m] = IF m = n THEN d ELSE conns[r][m]
    BY <2>2, <2>4, <2>5, Replaced
  <2>7. conns' = [conns EXCEPT ![r] = Append(old, c)]
    BY <2>1, <2>3, <2>5
  <2>8. AddsOne(r, old, c)
    BY <2>6, <2>7, Appended
  <2>9. ASSUME NEW s \in Rounds PROVE SameEnds(s) /\ Hopeful(s)'
    <3>1. CASE s # r
      <4>1. conns'[s] = conns[s]
        BY <2>7, <3>1 DEF PeersInv, ConnTypes
      <4> QED BY <1>2, <4>1, ConnsKept, HopefulKept DEF HopeInv
    <3>2. CASE s = r
      <4>1. SameEnds(r)
        BY <2>1, <2>4, <2>6, <2>8 DEF SameEnds, AddsOne
      <4>2. Hopeful(r)'
        <5>1. CASE peer[p][r] = "open"
          BY <2>1, <2>8, <5>1 DEF Hopeful, Hopes, At, AddsOne
        <5>2. CASE peer[p][r] # "open"
          BY <1>1, <1>2, <5>2 DEF Hopeful
        <5> QED BY <5>1, <5>2
      <4> QED BY <3>2, <4>1, <4>2
    <3> QED BY <3>1, <3>2
  <2> QED BY <1>2, <2>9, TellsKept DEF HopeInv
<1> QED BY <1>3, <1>4

\* setupChat: an end that opens has a chat.
LEMMA ConnOpenHope ==
  ASSUME PeersInv, HopeInv, NEW p \in Pages, NEW r \in Rounds, NEW n \in DOMAIN conns[r],
         ConnOpen(p, r, n)
  PROVE  HopeInv'
<1>1. UNCHANGED <<round, peer, error>> /\ chat' = [chat EXCEPT ![p] = <<r, n>>]
  BY DEF ConnOpen
<1>2. conns[r] \in Seq(Conns) /\ n \in Nat
  BY DEF PeersInv, ConnTypes
<1>3. chat'[p] # None /\ \A q \in Pages : q # p => chat'[q] = chat[q]
  BY <1>1, <1>2, PeersAssumption DEF PeersInv, PageTypes
<1>4. peer[p][r] # "none"
  BY DEF ConnOpen, MayOpen, At, PeersInv, AnswersOK, AnswerOK
<1>5. PICK c : c = [conns[r][n] EXCEPT !.open = @ \cup {p}]
  OBVIOUS
<1>6. c.at = conns[r][n].at /\ c.open = conns[r][n].open \cup {p} /\ c \in Conns
  <2>1. conns[r][n] \in Conns
    BY <1>2
  <2>2. c = [at |-> conns[r][n].at, open |-> conns[r][n].open \cup {p}]
    BY <1>5, <2>1 DEF Conns
  <2> QED BY <2>1, <2>2 DEF Conns
<1>7. PICK new : new = [conns[r] EXCEPT ![n] = c]
  OBVIOUS
<1>8. conns' = [conns EXCEPT ![r] = new]
  BY <1>5, <1>7 DEF ConnOpen
<1>9. /\ DOMAIN new = DOMAIN conns[r]
      /\ \A m \in DOMAIN conns[r] : new[m] = IF m = n THEN c ELSE conns[r][m]
  BY <1>2, <1>6, <1>7, Replaced
<1>10. \A s \in Rounds : conns'[s] = IF s = r THEN new ELSE conns[s]
  BY <1>8 DEF PeersInv, ConnTypes
<1>11. \A s \in Rounds : SameHopes(s)
  BY <1>6, <1>9, <1>10 DEF SameHopes, At
<1>12. ASSUME NEW s \in Rounds, NEW m \in DOMAIN conns'[s], NEW q \in conns'[s][m].open
       PROVE  peer[q][s] # "none" /\ (round[q] = s => chat'[q] # None)
  <2>1. m \in DOMAIN conns[s] /\ (q \in conns[s][m].open \/ (q = p /\ s = r))
    <3>1. CASE s = r
      <4>1. m \in DOMAIN conns[r] /\ q \in new[m].open
        BY <1>9, <1>10, <1>12, <3>1
      <4>2. new[m] = IF m = n THEN c ELSE conns[r][m]
        BY <1>9, <4>1
      <4> QED BY <1>6, <3>1, <4>1, <4>2
    <3>2. CASE s # r
      <4>1. conns'[s] = conns[s]
        BY <1>10, <3>2
      <4> QED BY <1>12, <4>1
    <3> QED BY <3>1, <3>2
  <2>2. CASE q = p /\ s = r
    BY <1>3, <1>4, <2>2
  <2>3. CASE q \in conns[s][m].open
    <3>1. conns[s] \in Seq(Conns)
      BY DEF PeersInv, ConnTypes
    <3>2. conns[s][m] \in Conns
      BY <2>1, <3>1
    <3>3. q \in Pages
      BY <2>3, <3>2 DEF Conns
    <3> QED BY <1>3, <2>1, <2>3, <3>3 DEF HopeInv, TellsOrChats
  <2> QED BY <2>1, <2>2, <2>3
<1>13. TellsOrChats'
  BY <1>1, <1>12 DEF HopeInv, TellsOrChats
<1> QED BY <1>1, <1>11, <1>13, HopefulKept DEF HopeInv

LEMMA NextHope == PeersInv /\ HopeInv /\ [Next]_peerVars => HopeInv'
<1> SUFFICES ASSUME PeersInv, HopeInv, [Next]_peerVars PROVE HopeInv'
  OBVIOUS
<1>1. CASE HubPairs
  BY <1>1, NoPageStepHope DEF HubPairs, windowVars
<1>2. CASE \E p \in Pages : InitChat(p) \/ NewChat(p)
  BY <1>2, InitChatHope, NewChatHope
<1>3. CASE \E p \in Pages, r \in Rounds : Open(p, r) \/ Disconnected(p, r) \/ Noticed(p, r)
  BY <1>3, OpenHope, DisconnectedHope, NoPageStepHope DEF Noticed, windowVars
<1>4. CASE \E r \in Rounds : \E n \in DOMAIN conns[r] : ConnStep(r, n) \/ Unanswered(r, n) \/ Fails(r, n)
  BY <1>4, HandshakeHope, PeerUnavailableHope, RetryHope, ConnOpenHope DEF ConnStep
<1>5. CASE UNCHANGED peerVars
  BY <1>5, NoPageStepHope DEF peerVars, windowVars
<1> QED BY <1>1, <1>2, <1>3, <1>4, <1>5 DEF Next

(***************************************************************************)
(* However sockets fail, two pages that show one pair and no error have     *)
(* something to wait for until they chat, unless their last connection was  *)
(* lost or has failed, of which chat.js tells nobody: what remains to be    *)
(* seen for ChatsOrTells is that it happens.                                *)
(***************************************************************************)
THEOREM PairIsNotStranded == Spec => []NeverStranded
<1>1. Init => HopeInv
  BY Pair DEF Init, HopeInv, TellsOrChats, Hopeful
<1>2. PeersInv /\ HopeInv => NeverStranded
  <2> SUFFICES ASSUME PeersInv, HopeInv, NEW r \in Rounds, Show(r), Quiet, ~Underway(r),
                      ~Silent(r),
                      NEW q \in Pages
               PROVE  chat[q] # None
    BY DEF NeverStranded
  <2>1. ASSUME NEW p \in Pages PROVE peer[p][r] = "open"
    <3>1. PeerOK(p, r) /\ peer[p][r] \in {"none", "connecting", "open", "off", "destroyed"}
      BY DEF PeersInv, PeersOK, PeerTypes
    <3>2. round[p] = r /\ ~pressed[p] /\ ~error[p] /\ r \in Nat
      BY PeersAssumption DEF Show, Quiet, Rounds
    <3> QED BY <3>1, <3>2 DEF PeerOK, Underway, HopeInv, TellsOrChats
  <2>2. /\ peer[Caller[r]][r] = "open" /\ peer[Callee(r)][r] = "open"
        /\ server[Caller[r]][r] = "live" /\ ~error[Caller[r]]
    BY <2>1, Pair DEF PeersInv, PeersOK, PeerOK, Quiet
  <2>3. PICK n \in DOMAIN conns[r] : At(r, n) \in Hopes \ {"lost", "failed"}
    <3>1. conns[r] # <<>> /\ At(r, Len(conns[r])) \in Hopes \ {"lost", "failed"}
      BY <2>2 DEF HopeInv, Hopeful, Silent
    <3>2. Len(conns[r]) \in DOMAIN conns[r]
      BY <3>1 DEF PeersInv, ConnTypes
    <3> QED BY <3>1, <3>2
  <2>4. At(r, n) = "answered"
    BY <2>2, <2>3 DEF Hopes, Underway
  <2>5. q \in conns[r][n].open
    BY <2>1, <2>4 DEF Underway, MayOpen
  <2> QED BY <2>5 DEF HopeInv, TellsOrChats, Show
<1>3. Spec => [](PeersInv /\ HopeInv)
  <2>1. PeersInv /\ HopeInv /\ [Next]_peerVars => (PeersInv /\ HopeInv)'
    BY NextPeers, NextHope
  <2> QED BY InitPeers, <1>1, <2>1, PTL DEF Spec
<1> QED BY <1>2, <1>3, PTL

=============================================================================
