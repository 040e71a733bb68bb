----------------------------- MODULE MatchQueue -----------------------------
(***************************************************************************)
(* What the matchmaking store promises, whoever calls it and in whatever    *)
(* order: the abstract specification the hub's use of Redis implements.     *)
(* Any client may be matched, cleared, removed or deleted at any time, a    *)
(* session may expire between any two commands, and ClearPartnerFields is   *)
(* split where the code splits it, between its GET and its SET.             *)
(***************************************************************************)
EXTENDS RedisStore

CONSTANT MaxClock   \* bound on the clock that scores entries, in seconds

VARIABLES
  registered,   \* clients whose session was created; an id is never reused
  clearing,     \* clients whose session a ClearPartnerFields has read
  now           \* time.Now().Unix()

queueVars == <<session, queue, registered, clearing, now>>

MatchQueueTypeOK ==
  /\ StoreTypeOK
  /\ registered \subseteq Clients
  /\ clearing \subseteq registered
  /\ now \in Nat

Init ==
  /\ StoreInit
  /\ registered = {}
  /\ clearing = {}
  /\ now = 0

Save(c) ==
  /\ c \notin registered
  /\ PutUnpaired(c)
  /\ registered' = registered \cup {c}
  /\ UNCHANGED <<clearing, now>>

\* The score is read before the script is sent, so it may lag the clock.
MatchStep(c) ==
  /\ \E score \in 0..now : Match(c, score)
  /\ UNCHANGED <<registered, clearing, now>>

ClearGet(c) ==
  /\ HasSession(c)
  /\ c \in registered
  /\ clearing' = clearing \cup {c}
  /\ UNCHANGED <<session, queue, registered, now>>

\* Several calls may be clearing the same session: this may not be the last.
ClearPut(c) ==
  /\ c \in clearing
  /\ PutUnpaired(c)
  /\ clearing' \in {clearing, clearing \ {c}}
  /\ UNCHANGED <<registered, now>>

\* Calls that fail after their GET, or whose process ends there.
ClearLost ==
  /\ clearing' \in SUBSET clearing
  /\ UNCHANGED <<session, queue, registered, now>>

Remove(c) == RemoveFromQueue(c) /\ UNCHANGED <<registered, clearing, now>>

\* An explicit DEL, or the 24 hours of the session's TTL.
Delete(c) == DeleteSession(c) /\ UNCHANGED <<registered, clearing, now>>

QueueExpires(type) == DropQueue(type) /\ UNCHANGED <<registered, clearing, now>>

Tick ==
  /\ now < MaxClock
  /\ now' = now + 1
  /\ UNCHANGED <<session, queue, registered, clearing>>

Next ==
  \/ \E c \in Clients :
       \/ Save(c) \/ MatchStep(c) \/ ClearGet(c) \/ ClearPut(c)
       \/ Remove(c) \/ Delete(c)
  \/ \E type \in {"text", "video"} : QueueExpires(type)
  \/ ClearLost \/ Tick

Spec == Init /\ [][Next]_queueVars

---------------------------------------------------------------------------
(***************************************************************************)
(* Two clients that could chat never both sit in a queue.  Every entry was  *)
(* added by a script run that saw the others, and no expired session,       *)
(* stale entry, late write of a session or early return of the scan         *)
(* (match.go:102-125) leaves behind two entries that should have been       *)
(* matched.                                                                 *)
(***************************************************************************)
NoMissedMatch ==
  \A a, b \in Clients :
    queue[a] # Absent /\ queue[b] # Absent => ~Compatible(a, b)

(***************************************************************************)
(* Whatever partner a session names, now or after any number of rematches   *)
(* and late clears, is one the matching rules allow (match.go:44-46): same  *)
(* chat type, and a shared interest unless both are non-strict.             *)
(***************************************************************************)
PartnerFieldsObeyRules ==
  \A a \in Clients : session[a] \in Clients => Compatible(a, session[a])

=============================================================================
