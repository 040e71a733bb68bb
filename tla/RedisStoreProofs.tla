-------------------------- MODULE RedisStoreProofs --------------------------
(* Lemmas about single commands on the store, for any clients and rules.    *)
EXTENDS RedisStore, WellFoundedInduction, TLAPS

---------------------------------------------------------------------------
(* The queue order has a first element, however many clients there are.    *)

\* Any nonempty set of naturals has a least element.
LEMMA LeastNatural ==
  ASSUME NEW S \in SUBSET Nat, S # {}
  PROVE  \E m \in S : \A k \in S : m <= k
<1> DEFINE less == {s \in Nat \X Nat : s[1] < s[2]}
<1>1. IsWellFoundedOn(less, Nat)
  BY NatLessThanWellFounded DEF OpToRel
<1>2. \A x, y \in Nat : y < x => <<y, x>> \in less
  OBVIOUS
<1> HIDE DEF less
<1>3. PICK m \in S : \A k \in S : <<k, m>> \notin less
  BY <1>1, WFMin
<1>4. ASSUME NEW k \in S PROVE m <= k
  <2>1. m \in Nat /\ k \in Nat
    OBVIOUS
  <2>2. ~ (k < m)
    BY <2>1, <1>2, <1>3, Zenon
  <2> QED BY <2>1, <2>2
<1> QED BY <1>4

\* The oldest entry of a set of entries is one of them and precedes the rest:
\* scores, then id ranks, are natural numbers.
LEMMA OldestIsFirst ==
  ASSUME StoreTypeOK, NEW S \in SUBSET Clients, S # {}, \A a \in S : queue[a] # Absent
  PROVE  /\ Oldest(S) \in S
         /\ \A b \in S \ {Oldest(S)} : Before(Oldest(S), b)
<1> DEFINE scores == {queue[a] : a \in S}
<1>1. scores \in SUBSET Nat /\ scores # {}
  BY DEF StoreTypeOK
<1>2. PICK m \in scores : \A k \in scores : m <= k
  BY <1>1, LeastNatural
<1> DEFINE early == {a \in S : queue[a] = m}
           ranks == {IdRank[a] : a \in early}
<1>3. ranks \in SUBSET Nat /\ ranks # {}
  BY <1>2, RulesAssumption
<1>4. PICK r \in ranks : \A k \in ranks : r <= k
  BY <1>3, LeastNatural
<1>5. PICK f \in early : IdRank[f] = r
  BY <1>4
<1>6. ASSUME NEW b \in S \ {f} PROVE Before(f, b)
  <2>1. m \in Nat /\ queue[b] \in Nat /\ queue[f] = m /\ m <= queue[b]
    BY <1>1, <1>2, <1>5
  <2>2. CASE queue[b] = m
    <3>1. IdRank[b] # IdRank[f] /\ r <= IdRank[b]
      BY <1>4, <1>5, <2>2, RulesAssumption
    <3> QED BY <2>1, <2>2, <3>1, <1>5, RulesAssumption DEF Before
  <2>3. CASE queue[b] # m
    BY <2>1, <2>3 DEF Before
  <2> QED BY <2>2, <2>3
<1> HIDE DEF early, ranks, scores
<1> QED BY <1>5, <1>6 DEF Oldest, early

\* A partner found by the script is a live entry of the same queue that the
\* rules allow.
LEMMA PartnerIsCompatible ==
  ASSUME StoreTypeOK, NEW c \in Clients, MatchPartner(c) # NoOne
  PROVE  /\ MatchPartner(c) \in LiveCandidates(c)
         /\ Compatible(c, MatchPartner(c))
<1>1. /\ InterestHits(c) \in SUBSET Clients /\ FallbackHits(c) \in SUBSET Clients
      /\ \A a \in InterestHits(c) \cup FallbackHits(c) : queue[a] # Absent
  BY DEF InterestHits, FallbackHits, LiveCandidates, Queued
<1>2. CASE InterestHits(c) # {}
  BY <1>1, <1>2, OldestIsFirst
     DEF MatchPartner, InterestHits, LiveCandidates, Queued, Compatible, Eligible
<1>3. CASE InterestHits(c) = {}
  <2>1. FallbackHits(c) # {} /\ MatchPartner(c) = Oldest(FallbackHits(c))
    BY <1>3 DEF MatchPartner
  <2> QED
    BY <2>1, <1>1, OldestIsFirst
       DEF FallbackHits, LiveCandidates, Queued, Compatible, Eligible
<1> QED BY <1>2, <1>3

\* A script run that finds nobody has seen every live entry: none is eligible.
LEMMA NobodyFound ==
  ASSUME StoreTypeOK, NEW c \in Clients, MatchPartner(c) = NoOne
  PROVE  /\ InterestHits(c) = {} /\ FallbackHits(c) = {}
         /\ \A b \in LiveCandidates(c) : ~Compatible(c, b)
<1>1. /\ InterestHits(c) \in SUBSET Clients /\ FallbackHits(c) \in SUBSET Clients
      /\ \A a \in InterestHits(c) \cup FallbackHits(c) : queue[a] # Absent
  BY DEF InterestHits, FallbackHits, LiveCandidates, Queued
<1>2. InterestHits(c) = {}
  BY <1>1, OldestIsFirst, RulesAssumption DEF MatchPartner
<1>3. FallbackHits(c) = {}
  BY <1>1, <1>2, OldestIsFirst, RulesAssumption DEF MatchPartner
<1> QED
  BY <1>2, <1>3 DEF InterestHits, FallbackHits, Compatible, Eligible

\* Compatibility does not depend on who asks.
LEMMA CompatibleSymmetric ==
  ASSUME NEW a \in Clients, NEW b \in Clients, Compatible(a, b)
  PROVE  Compatible(b, a)
BY DEF Compatible, Eligible, HasCommon, FallbackPair

---------------------------------------------------------------------------
(* What the commands do to the keys.                                       *)

\* Every command keeps the store well typed.
LEMMA StoreTypePreserved ==
  ASSUME StoreTypeOK, NEW c \in Clients
  PROVE  /\ PutUnpaired(c) => StoreTypeOK'
         /\ DeleteSession(c) => StoreTypeOK'
         /\ RemoveFromQueue(c) => StoreTypeOK'
         /\ \A type : DropQueue(type) => StoreTypeOK'
         /\ \A score \in Nat : Match(c, score) => StoreTypeOK'
<1>1. ASSUME MatchFound(c) PROVE StoreTypeOK'
  <2>1. MatchPartner(c) \in Clients
    BY <1>1, PartnerIsCompatible DEF MatchFound, LiveCandidates, Queued
  <2> QED BY <1>1, <2>1 DEF MatchFound, StoreTypeOK
<1>2. ASSUME NEW score \in Nat, MatchEnqueue(c, score) PROVE StoreTypeOK'
  BY <1>2 DEF MatchEnqueue, StoreTypeOK
<1>3. MatchNoSession(c) => StoreTypeOK'
  BY DEF MatchNoSession, storeVars, StoreTypeOK
<1>4. /\ PutUnpaired(c) => StoreTypeOK'
      /\ DeleteSession(c) => StoreTypeOK'
      /\ RemoveFromQueue(c) => StoreTypeOK'
      /\ \A type : DropQueue(type) => StoreTypeOK'
  BY DEF PutUnpaired, DeleteSession, RemoveFromQueue, DropQueue, StoreTypeOK
<1> QED BY <1>1, <1>2, <1>3, <1>4 DEF Match

\* Entries a command leaves in the queue were there before, except the one
\* a failed search adds.
LEMMA QueueOnlyGrowsByEnqueue ==
  ASSUME NEW c \in Clients,
         \/ PutUnpaired(c) \/ DeleteSession(c) \/ RemoveFromQueue(c)
         \/ MatchNoSession(c) \/ MatchFound(c),
         StoreTypeOK,
         NEW b \in Clients, queue'[b] # Absent
  PROVE  queue[b] # Absent
BY DEF PutUnpaired, DeleteSession, RemoveFromQueue, MatchNoSession, storeVars, MatchFound,
       StoreTypeOK

\* After c is added nobody in the queue is compatible with c: the others
\* were seen alive and are not, or were removed as stale.
LEMMA EnqueuedIsAlone ==
  ASSUME StoreTypeOK, NEW c \in Clients, NEW score \in Nat, MatchEnqueue(c, score),
         NEW b \in Clients, queue'[b] # Absent, b # c
  PROVE  queue[b] # Absent /\ ~Compatible(c, b)
<1>1. queue[b] # Absent /\ b \notin Purged(c)
  BY DEF MatchEnqueue
<1>2. Scanned(c) = Queued(c)
  BY NobodyFound DEF Scanned, MatchEnqueue
<1>3. CASE ChatType[b] = ChatType[c]
  <2>1. b \in LiveCandidates(c)
    BY <1>1, <1>2, <1>3 DEF Purged, Queued, LiveCandidates
  <2> QED BY <2>1, <1>1, NobodyFound DEF MatchEnqueue
<1>4. CASE ChatType[b] # ChatType[c]
  BY <1>1, <1>4 DEF Compatible
<1> QED BY <1>3, <1>4

\* The partner a session names is one the rules allow.
SessionsObeyRules ==
  \A a \in Clients : session[a] \in Clients => Compatible(a, session[a])

\* No command makes a session name a partner the rules forbid.
LEMMA SessionRulesPreserved ==
  ASSUME StoreTypeOK, SessionsObeyRules, NEW c \in Clients,
         \/ PutUnpaired(c) \/ DeleteSession(c) \/ RemoveFromQueue(c)
         \/ \E score : Match(c, score)
         \/ UNCHANGED session
  PROVE  SessionsObeyRules'
<1>1. ASSUME MatchFound(c) PROVE SessionsObeyRules'
  <2> DEFINE p == MatchPartner(c)
  <2>1. p \in Clients /\ Compatible(c, p)
    BY <1>1, PartnerIsCompatible DEF MatchFound, LiveCandidates, Queued
  <2>2. Compatible(p, c)
    BY <2>1, CompatibleSymmetric
  <2> HIDE DEF p
  <2>3. session' = [session EXCEPT ![c] = p, ![p] = c]
    BY <1>1 DEF MatchFound, p
  <2> QED BY <2>1, <2>2, <2>3 DEF SessionsObeyRules, StoreTypeOK
<1>2. ASSUME UNCHANGED session PROVE SessionsObeyRules'
  BY <1>2 DEF SessionsObeyRules
<1>3. ASSUME PutUnpaired(c) \/ DeleteSession(c) PROVE SessionsObeyRules'
  BY <1>3, RulesAssumption DEF PutUnpaired, DeleteSession, SessionsObeyRules, StoreTypeOK
<1> QED
  BY <1>1, <1>2, <1>3
     DEF Match, MatchNoSession, MatchEnqueue, RemoveFromQueue, storeVars

\* No two entries of a queue could have been matched.
NobodyMissed ==
  \A a, b \in Clients : queue[a] # Absent /\ queue[b] # Absent => ~Compatible(a, b)

\* No command leaves two entries in the queue that could have been matched.
LEMMA NobodyMissedPreserved ==
  ASSUME StoreTypeOK, NobodyMissed, NEW c \in Clients,
         \/ PutUnpaired(c) \/ DeleteSession(c) \/ RemoveFromQueue(c)
         \/ \E score \in Nat : Match(c, score)
  PROVE  NobodyMissed'
<1> SUFFICES ASSUME NEW a \in Clients, NEW b \in Clients,
                    queue'[a] # Absent, queue'[b] # Absent
             PROVE  ~Compatible(a, b)
  BY DEF NobodyMissed
<1>1. ASSUME queue[a] # Absent, queue[b] # Absent PROVE ~Compatible(a, b)
  BY <1>1 DEF NobodyMissed
<1>2. ASSUME NEW score \in Nat, MatchEnqueue(c, score) PROVE ~Compatible(a, b)
  <2>1. CASE a = c /\ b = c
    BY <2>1 DEF Compatible
  <2>2. CASE a = c /\ b # c
    BY <1>2, <2>2, EnqueuedIsAlone
  <2>3. CASE a # c /\ b = c
    BY <1>2, <2>3, EnqueuedIsAlone, CompatibleSymmetric
  <2>4. CASE a # c /\ b # c
    BY <1>1, <1>2, <2>4, EnqueuedIsAlone
  <2> QED BY <2>1, <2>2, <2>3, <2>4
<1>3. ASSUME \/ PutUnpaired(c) \/ DeleteSession(c) \/ RemoveFromQueue(c)
             \/ MatchNoSession(c) \/ MatchFound(c)
      PROVE  ~Compatible(a, b)
  BY <1>1, <1>3, QueueOnlyGrowsByEnqueue
<1> QED BY <1>2, <1>3 DEF Match

\* Nor does the expiry of a queue.
LEMMA QueueDropped ==
  ASSUME NobodyMissed, NEW type, DropQueue(type)
  PROVE  NobodyMissed'
BY DEF NobodyMissed, DropQueue

=============================================================================
