----------------------------- MODULE RedisStore -----------------------------
(***************************************************************************)
(* The Redis keys the program keeps and the commands it runs on them        *)
(* (src/internal/redis).  Each operator below is one command, or one Lua    *)
(* script, and therefore atomic.                                            *)
(*                                                                          *)
(* session[c] is Absent or the partner_id stored under "session:c".  The    *)
(* room_id is not kept apart: every writer sets and clears it together with *)
(* partner_id, to a value that only depends on the two ids.                 *)
(* queue[c] is Absent or the score of member c of "queue:<type of c>".  A   *)
(* client's type never changes, so no id can be in both sorted sets.        *)
(***************************************************************************)
EXTENDS MatchRules

VARIABLES session, queue

storeVars == <<session, queue>>

StoreTypeOK ==
  /\ session \in [Clients -> Clients \cup {NoOne, Absent}]
  /\ queue \in [Clients -> Nat \cup {Absent}]

StoreInit ==
  /\ session = [c \in Clients |-> Absent]
  /\ queue = [c \in Clients |-> Absent]

HasSession(c) == session[c] # Absent

\* The members of the sorted set that c is matched on.
Queued(c) == {b \in Clients : ChatType[b] = ChatType[c] /\ queue[b] # Absent}

\* ZRANGE order: by score, equal scores by the member's bytes.
Before(a, b) ==
  \/ queue[a] < queue[b]
  \/ queue[a] = queue[b] /\ IdRank[a] < IdRank[b]

Oldest(S) == CHOOSE a \in S : \A b \in S \ {a} : Before(a, b)

---------------------------------------------------------------------------
(* The match script, as what it leaves behind.                             *)

\* The queue entries the script looks at as possible partners of c.
LiveCandidates(c) == {b \in Queued(c) \ {c} : HasSession(b)}

InterestHits(c) == {b \in LiveCandidates(c) : HasCommon(c, b)}

FallbackHits(c) == {b \in LiveCandidates(c) : FallbackPair(c, b)}

MatchPartner(c) ==
  IF InterestHits(c) # {} THEN Oldest(InterestHits(c))
  ELSE IF FallbackHits(c) # {} THEN Oldest(FallbackHits(c))
  ELSE NoOne

\* The loop stops at the first shared interest, otherwise it sees everyone.
Scanned(c) ==
  IF InterestHits(c) # {}
  THEN {b \in Queued(c) : Before(b, Oldest(InterestHits(c)))}
  ELSE Queued(c)

\* The self entry and entries without a session, as far as the loop got.
Purged(c) == {b \in Scanned(c) : b = c \/ ~HasSession(b)}

MatchNoSession(c) == ~HasSession(c) /\ UNCHANGED storeVars

MatchFound_KeepPartner(c) ==
  /\ HasSession(c)
  /\ MatchPartner(c) # NoOne
  /\ session' = [session EXCEPT ![c] = MatchPartner(c), ![MatchPartner(c)] = c]
  /\ queue' = [b \in Clients |-> IF b \in Purged(c) THEN Absent ELSE queue[b]]

MatchFound(c) ==
  /\ HasSession(c)
  /\ MatchPartner(c) # NoOne
  /\ session' = [session EXCEPT ![c] = MatchPartner(c), ![MatchPartner(c)] = c]
  /\ queue' = [b \in Clients |->
                 IF b \in Purged(c) \cup {MatchPartner(c)} THEN Absent ELSE queue[b]]

MatchEnqueue(c, score) ==
  /\ HasSession(c)
  /\ MatchPartner(c) = NoOne
  /\ queue' = [b \in Clients |->
                 IF b = c THEN score ELSE IF b \in Purged(c) THEN Absent ELSE queue[b]]
  /\ UNCHANGED session

Match(c, score) == MatchNoSession(c) \/ MatchFound(c) \/ MatchEnqueue(c, score)

---------------------------------------------------------------------------
(* The plain commands.                                                     *)

\* SET of a session without a partner: a new session, or the write half of
\* ClearPartnerFields (a GET and a SET, with anything in between).
PutUnpaired(c) == session' = [session EXCEPT ![c] = NoOne] /\ UNCHANGED queue

DeleteSession(c) == session' = [session EXCEPT ![c] = Absent] /\ UNCHANGED queue

RemoveFromQueue(c) == queue' = [queue EXCEPT ![c] = Absent] /\ UNCHANGED session

\* EXPIRE 3600 of a whole sorted set.
DropQueue(type) ==
  /\ queue' = [c \in Clients |-> IF ChatType[c] = type THEN Absent ELSE queue[c]]
  /\ UNCHANGED session

=============================================================================
