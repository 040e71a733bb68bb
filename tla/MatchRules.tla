----------------------------- MODULE MatchRules -----------------------------
(***************************************************************************)
(* Who may chat with whom: the matching rules of the Lua script in          *)
(* src/internal/redis/match.go, as relations between clients.  The data a   *)
(* client is matched on (chat type, strictness, interests) is fixed when    *)
(* its session is created and no operation ever changes it, so it is a      *)
(* parameter of the specifications.                                         *)
(***************************************************************************)
EXTENDS Naturals, FiniteSets

CONSTANTS
  Clients,     \* session ids, one per submitted form (uuid.NewString)
  Topics,      \* what interests are drawn from
  ChatType,    \* ChatType[c]: "text" or "video"
  IsStrict,    \* IsStrict[c]: only match on a shared interest
  Interests,   \* Interests[c]: at most three of the topics
  IdRank,      \* order of the ids as strings: breaks ties in a ZSET
  NoOne,       \* the empty partner_id, a nil *Client
  Absent       \* a Redis key or ZSET member that is not there

(***************************************************************************)
(* What the form validation lets through (validateInterests): a strict      *)
(* client names an interest, nobody more than three.                        *)
(***************************************************************************)
ASSUME RulesAssumption ==
  /\ ChatType \in [Clients -> {"text", "video"}]
  /\ IsStrict \in [Clients -> BOOLEAN]
  /\ Interests \in [Clients -> SUBSET Topics]
  /\ IdRank \in [Clients -> Nat]
  /\ \A a, b \in Clients : IdRank[a] = IdRank[b] => a = b
  /\ NoOne \notin Clients /\ Absent \notin Clients /\ NoOne # Absent
  /\ Absent \notin Nat

ASSUME FormAssumption ==
  \A c \in Clients :
    /\ IsStrict[c] => Interests[c] # {}
    /\ Cardinality(Interests[c]) <= 3

HasCommon(a, b) == Interests[a] \cap Interests[b] # {}

FallbackPair(a, b) == ~IsStrict[a] /\ ~IsStrict[b]

\* The two rules of the script's header comment, whichever applies.
Eligible(a, b) == HasCommon(a, b) \/ FallbackPair(a, b)

\* The two ZSETs "queue:text" and "queue:video" keep the chat types apart.
Compatible(a, b) == a # b /\ ChatType[a] = ChatType[b] /\ Eligible(a, b)

=============================================================================
