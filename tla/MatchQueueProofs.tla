-------------------------- MODULE MatchQueueProofs --------------------------
(* What the matchmaking store promises, for any clients, rules and clock,   *)
(* and that the match script's loop delivers it.                            *)
EXTENDS MatchScript, RedisStoreProofs, FiniteSetTheorems, FunctionTheorems

---------------------------------------------------------------------------
(* Type correctness.                                                       *)

\* Every command keeps the types, whoever calls it.
LEMMA CommandTypes == MatchQueueTypeOK /\ [Next]_queueVars => MatchQueueTypeOK'
<1> SUFFICES ASSUME MatchQueueTypeOK, [Next]_queueVars PROVE MatchQueueTypeOK'
  OBVIOUS
<1> USE DEF MatchQueueTypeOK
<1>1. ASSUME NEW c \in Clients, Save(c) PROVE MatchQueueTypeOK'
  BY <1>1, StoreTypePreserved DEF Save
<1>2. ASSUME NEW c \in Clients, MatchStep(c) PROVE MatchQueueTypeOK'
  <2>1. PICK score \in 0..now : Match(c, score)
    BY <1>2 DEF MatchStep
  <2>2. score \in Nat
    OBVIOUS
  <2> QED BY <1>2, <2>1, <2>2, StoreTypePreserved DEF MatchStep
<1>3. ASSUME NEW c \in Clients, ClearGet(c) PROVE MatchQueueTypeOK'
  BY <1>3 DEF ClearGet, StoreTypeOK
<1>4. ASSUME NEW c \in Clients, ClearPut(c) PROVE MatchQueueTypeOK'
  BY <1>4, StoreTypePreserved DEF ClearPut
<1>5. ASSUME NEW c \in Clients, Remove(c) \/ Delete(c) PROVE MatchQueueTypeOK'
  BY <1>5, StoreTypePreserved DEF Remove, Delete
<1>6. ASSUME NEW type \in {"text", "video"}, QueueExpires(type) PROVE MatchQueueTypeOK'
  BY <1>6, StoreTypePreserved, RulesAssumption DEF QueueExpires, DropQueue, StoreTypeOK
<1>7. Tick \/ ClearLost => MatchQueueTypeOK'
  BY DEF Tick, ClearLost, StoreTypeOK
<1>8. UNCHANGED queueVars => MatchQueueTypeOK'
  BY DEF queueVars, StoreTypeOK
<1> QED BY <1>1, <1>2, <1>3, <1>4, <1>5, <1>6, <1>7, <1>8 DEF Next

\* Sessions and queue entries are only ever what the program writes there.
THEOREM MatchQueueTypeCorrect == Spec => []MatchQueueTypeOK
<1>1. Init => MatchQueueTypeOK
  BY DEF Init, StoreInit, MatchQueueTypeOK, StoreTypeOK
<1> QED BY <1>1, CommandTypes, PTL DEF Spec

---------------------------------------------------------------------------
(* No missed match.                                                        *)

\* Two clients that could chat never both sit in a queue, whatever expires
\* and whichever calls overlap (the Lua script, match.go:53-163).
THEOREM NoMatchIsMissed == Spec => []NoMissedMatch
<1>1. Init => NoMissedMatch
  BY DEF Init, StoreInit, NoMissedMatch
<1>2. MatchQueueTypeOK /\ NoMissedMatch /\ [Next]_queueVars => NoMissedMatch'
  <2> SUFFICES ASSUME StoreTypeOK, now \in Nat, NobodyMissed, [Next]_queueVars
               PROVE  NobodyMissed'
    BY DEF MatchQueueTypeOK, NoMissedMatch, NobodyMissed
  <2>1. UNCHANGED queue => NobodyMissed'
    BY DEF NobodyMissed
  <2>2. ASSUME NEW c \in Clients, Save(c) \/ ClearPut(c) \/ Remove(c) \/ Delete(c)
        PROVE  NobodyMissed'
    BY <2>2, NobodyMissedPreserved DEF Save, ClearPut, Remove, Delete
  <2>3. ASSUME NEW c \in Clients, MatchStep(c) PROVE NobodyMissed'
    <3>1. PICK score \in Nat : Match(c, score)
      BY <2>3 DEF MatchStep
    <3> QED BY <3>1, NobodyMissedPreserved
  <2>4. ASSUME NEW type \in {"text", "video"}, QueueExpires(type) PROVE NobodyMissed'
    BY <2>4, QueueDropped DEF QueueExpires
  <2>5. ASSUME (\E c \in Clients : ClearGet(c)) \/ ClearLost \/ Tick \/ UNCHANGED queueVars
        PROVE  NobodyMissed'
    BY <2>1, <2>5 DEF ClearGet, ClearLost, Tick, queueVars
  <2> QED BY <2>2, <2>3, <2>4, <2>5 DEF Next
<1> QED BY <1>1, <1>2, MatchQueueTypeCorrect, PTL DEF Spec

\* No command makes a session name a partner the rules forbid.
LEMMA CommandsObeyRules ==
  ASSUME MatchQueueTypeOK, PartnerFieldsObeyRules, [Next]_queueVars
  PROVE  PartnerFieldsObeyRules'
<1> SUFFICES ASSUME StoreTypeOK, SessionsObeyRules, [Next]_queueVars
             PROVE  SessionsObeyRules'
  BY DEF MatchQueueTypeOK, PartnerFieldsObeyRules, SessionsObeyRules
<1>1. ASSUME UNCHANGED session PROVE SessionsObeyRules'
  BY <1>1 DEF SessionsObeyRules
<1>2. ASSUME NEW c \in Clients,
             \/ Save(c) \/ MatchStep(c) \/ ClearGet(c) \/ ClearPut(c)
             \/ Remove(c) \/ Delete(c)
      PROVE  SessionsObeyRules'
  BY <1>2, SessionRulesPreserved
     DEF Save, MatchStep, ClearGet, ClearPut, Remove, Delete
<1>3. ASSUME NEW type \in {"text", "video"}, QueueExpires(type)
      PROVE  SessionsObeyRules'
  BY <1>1, <1>3 DEF QueueExpires, DropQueue
<1>4. ASSUME ClearLost \/ Tick \/ UNCHANGED queueVars PROVE SessionsObeyRules'
  BY <1>1, <1>4 DEF ClearLost, Tick, queueVars
<1> QED BY <1>2, <1>3, <1>4 DEF Next

\* The partner a session names is always one the matching rules allow.
THEOREM PartnersObeyRules == Spec => []PartnerFieldsObeyRules
<1>1. Init => PartnerFieldsObeyRules
  BY RulesAssumption DEF Init, StoreInit, PartnerFieldsObeyRules
<1> QED BY <1>1, CommandsObeyRules, MatchQueueTypeCorrect, PTL DEF Spec

---------------------------------------------------------------------------
(* ZRANGE: the queue as a sequence.                                        *)

\* ZRANGE order is a strict total order of the entries: ids break ties.
LEMMA QueueOrder ==
  ASSUME StoreTypeOK, NEW a \in Clients, NEW b \in Clients, NEW c \in Clients,
         queue[a] # Absent, queue[b] # Absent, queue[c] # Absent
  PROVE  /\ ~Before(a, a)
         /\ Before(a, b) => ~Before(b, a)
         /\ Before(a, b) /\ Before(b, c) => Before(a, c)
         /\ a # b => Before(a, b) \/ Before(b, a)
BY RulesAssumption DEF StoreTypeOK, Before

\* An entry that precedes the others of a set of entries is its oldest.
LEMMA FirstIsOldest ==
  ASSUME StoreTypeOK, NEW S \in SUBSET Clients, \A a \in S : queue[a] # Absent,
         NEW f \in S, \A b \in S \ {f} : Before(f, b)
  PROVE  Oldest(S) = f
<1>1. Oldest(S) \in S /\ \A b \in S \ {Oldest(S)} : Before(Oldest(S), b)
  BY OldestIsFirst
<1> QED BY <1>1, QueueOrder

\* How many entries of c's queue are older than b.
Rank(c, b) == Cardinality({a \in Queued(c) : Before(a, b)})

\* Ranks grow with the order, and there are as many as there are entries.
LEMMA RanksOfQueue ==
  ASSUME StoreTypeOK, NEW c \in Clients, IsFiniteSet(Queued(c))
  PROVE  /\ Cardinality(Queued(c)) \in Nat
         /\ \A b \in Queued(c) : Rank(c, b) \in 0..(Cardinality(Queued(c)) - 1)
         /\ \A a, b \in Queued(c) : Before(a, b) <=> Rank(c, a) < Rank(c, b)
         /\ \A k \in 0..(Cardinality(Queued(c)) - 1) : \E b \in Queued(c) : Rank(c, b) = k
<1> DEFINE Q == Queued(c)
           n == Cardinality(Q)
           older(b) == {a \in Q : Before(a, b)}
<1>1. n \in Nat
  BY FS_CardinalityType
<1>2. \A b \in Q : b \in Clients /\ queue[b] # Absent
  BY DEF Queued
<1>3. ASSUME NEW b \in Q PROVE IsFiniteSet(older(b)) /\ Rank(c, b) \in 0..(n - 1)
  <2>1. older(b) \in SUBSET Q /\ older(b) # Q
    BY <1>2, QueueOrder
  <2>2. /\ IsFiniteSet(older(b)) /\ Cardinality(older(b)) <= n
        /\ n = Cardinality(older(b)) => Q = older(b)
    BY <2>1, FS_Subset
  <2>3. Cardinality(older(b)) \in Nat
    BY <2>2, FS_CardinalityType
  <2>4. Cardinality(older(b)) # n
    BY <2>1, <2>2
  <2>5. Cardinality(older(b)) \in 0..(n - 1)
    <3> HIDE DEF n
    <3> QED BY <2>2, <2>3, <2>4, <1>1
  <2> QED BY <2>2, <2>5 DEF Rank
<1>r. \A b \in Q : Rank(c, b) \in Nat
  <2>1. \A b \in Q : Rank(c, b) \in 0..(n - 1)
    BY <1>3
  <2> HIDE DEF n, Q
  <2> QED BY <1>1, <2>1
<1>4. ASSUME NEW a \in Q, NEW b \in Q, Before(a, b) PROVE Rank(c, a) < Rank(c, b)
  <2>1. older(a) \in SUBSET older(b) /\ a \in older(b) /\ a \notin older(a)
    BY <1>2, <1>4, QueueOrder
  <2>2. /\ Cardinality(older(a)) <= Cardinality(older(b))
        /\ Cardinality(older(b)) = Cardinality(older(a)) => older(b) = older(a)
    BY <2>1, <1>3, FS_Subset
  <2>3. Cardinality(older(b)) # Cardinality(older(a))
    BY <2>1, <2>2
  <2>4. Rank(c, a) <= Rank(c, b) /\ Rank(c, a) # Rank(c, b)
    BY <2>2, <2>3 DEF Rank
  <2> QED BY <2>4, <1>r
<1>5. ASSUME NEW a \in Q, NEW b \in Q, Rank(c, a) < Rank(c, b) PROVE Before(a, b)
  <2>1. a # b /\ ~Before(b, a)
    BY <1>4, <1>5, <1>r
  <2> QED BY <2>1, <1>2, QueueOrder
<1>6. ASSUME NEW k \in 0..(n - 1) PROVE \E b \in Q : Rank(c, b) = k
  <2> DEFINE rank == [b \in Q |-> Rank(c, b)]
  <2>1. rank \in [Q -> 0..(n - 1)]
    BY <1>3
  <2>2. \A a, b \in Q : rank[a] = rank[b] => a = b
    <3> SUFFICES ASSUME NEW a \in Q, NEW b \in Q, a # b PROVE Rank(c, a) # Rank(c, b)
      OBVIOUS
    <3>1. Before(a, b) \/ Before(b, a)
      BY <1>2, QueueOrder
    <3>2. Rank(c, a) \in 0..(n - 1) /\ Rank(c, b) \in 0..(n - 1)
      BY <1>3
    <3>3. Rank(c, a) < Rank(c, b) \/ Rank(c, b) < Rank(c, a)
      BY <3>1, <1>4
    <3> HIDE DEF n
    <3> QED BY <3>2, <3>3, <1>1
  <2>3. rank \in Injection(Q, 0..(n - 1))
    BY <2>1, <2>2, Fun_IsInj
  <2>4. IsFiniteSet(0..(n - 1)) /\ Cardinality(0..(n - 1)) = n
    <3> HIDE DEF n
    <3>1. /\ IsFiniteSet(0..(n - 1))
          /\ Cardinality(0..(n - 1)) = IF 0 > n - 1 THEN 0 ELSE n - 1 - 0 + 1
      BY <1>1, FS_Interval
    <3> QED BY <3>1, <1>1
  <2>5. rank \in Surjection(Q, 0..(n - 1))
    BY <2>3, <2>4, FS_Injection
  <2>6. \E b \in Q : rank[b] = k
    <3> HIDE DEF rank, n, Q
    <3> QED BY <2>5 DEF Surjection
  <2> QED BY <2>6
<1> QED BY <1>1, <1>3, <1>4, <1>5, <1>6

\* ZRANGE returns every entry of the queue, oldest first.
LEMMA ZRangeIsQueue ==
  ASSUME StoreTypeOK, NEW c \in Clients, IsFiniteSet(Queued(c))
  PROVE  /\ ZRange(c) \in Seq(Clients)
         /\ {ZRange(c)[k] : k \in DOMAIN ZRange(c)} = Queued(c)
         /\ \A j, k \in DOMAIN ZRange(c) : j < k => Before(ZRange(c)[j], ZRange(c)[k])
<1> DEFINE n == Cardinality(Queued(c))
           z == ZRange(c)
<1>z. z = [k \in 1..n |-> CHOOSE b \in Queued(c) : Rank(c, b) = k - 1]
  BY DEF ZRange, Rank
<1> HIDE DEF z
<1>1. n \in Nat
  BY RanksOfQueue
<1>2. \A k \in 1..n : z[k] \in Queued(c) /\ Rank(c, z[k]) = k - 1
  <2> SUFFICES ASSUME NEW k \in 1..n
               PROVE  z[k] \in Queued(c) /\ Rank(c, z[k]) = k - 1
    OBVIOUS
  <2>1. k - 1 \in 0..(n - 1)
    <3> HIDE DEF n
    <3> QED BY <1>1
  <2>2. \E b \in Queued(c) : Rank(c, b) = k - 1
    BY <2>1, RanksOfQueue
  <2>3. z[k] = CHOOSE b \in Queued(c) : Rank(c, b) = k - 1
    BY <1>z
  <2> QED BY <2>2, <2>3
<1>3. DOMAIN z = 1..n /\ z \in Seq(Clients)
  <2>1. DOMAIN z = 1..n
    BY <1>z
  <2>2. z = [k \in 1..n |-> z[k]]
    BY <1>z
  <2>3. \A k \in 1..n : z[k] \in Clients
    BY <1>2 DEF Queued
  <2> HIDE DEF n
  <2>4. z \in [1..n -> Clients]
    BY <2>2, <2>3
  <2> QED BY <1>1, <2>1, <2>4
<1>4. \A b \in Queued(c) : \E k \in 1..n : z[k] = b
  <2> SUFFICES ASSUME NEW b \in Queued(c) PROVE \E k \in 1..n : z[k] = b
    OBVIOUS
  <2>1. Rank(c, b) \in 0..(n - 1)
    BY RanksOfQueue
  <2>2. Rank(c, b) + 1 \in 1..n
    <3> HIDE DEF n
    <3> QED BY <1>1, <2>1
  <2> DEFINE k == Rank(c, b) + 1
  <2>3. z[k] \in Queued(c) /\ Rank(c, z[k]) = k - 1
    BY <1>2, <2>2
  <2>4. Rank(c, z[k]) = Rank(c, b)
    <3> HIDE DEF n
    <3> QED BY <1>1, <2>1, <2>3
  <2>5. ~Before(z[k], b) /\ ~Before(b, z[k])
    <3>1. Before(z[k], b) <=> Rank(c, z[k]) < Rank(c, b)
      BY <2>3, RanksOfQueue
    <3>2. Before(b, z[k]) <=> Rank(c, b) < Rank(c, z[k])
      BY <2>3, RanksOfQueue
    <3> HIDE DEF n, k
    <3> QED BY <3>1, <3>2, <2>1, <2>4, <1>1
  <2>6. z[k] = b
    <3> HIDE DEF k
    <3>1. b \in Clients /\ z[k] \in Clients /\ queue[b] # Absent /\ queue[z[k]] # Absent
      BY <2>3 DEF Queued
    <3> QED BY <2>5, <3>1, QueueOrder
  <2> QED BY <2>2, <2>6
<1>5. ASSUME NEW j \in 1..n, NEW k \in 1..n, j < k PROVE Before(z[j], z[k])
  <2>1. Rank(c, z[j]) < Rank(c, z[k])
    <3>1. Rank(c, z[j]) = j - 1 /\ Rank(c, z[k]) = k - 1
      BY <1>2
    <3> HIDE DEF n
    <3> QED BY <3>1, <1>1, <1>5
  <2> QED BY <2>1, <1>2, RanksOfQueue
<1> QED
  <2> HIDE DEF n
  <2>1. {z[k] : k \in DOMAIN z} = Queued(c)
    BY <1>2, <1>3, <1>4
  <2>2. \A j, k \in DOMAIN z : j < k => Before(z[j], z[k])
    BY <1>3, <1>5
  <2> QED BY <1>3, <2>1, <2>2 DEF z

---------------------------------------------------------------------------
(* The match script: types, and what is true between two of its calls.     *)

Runs ==
  [pc : {"get", "loop"}, me : Clients, score : Nat, list : Seq(Clients), i : Nat \ {0},
   fallback : Clients \cup {NoOne},
   session : [Clients -> Clients \cup {NoOne, Absent}],
   queue : [Clients -> Nat \cup {Absent}]]

ScriptTypes ==
  /\ MatchQueueTypeOK
  /\ IsFiniteSet({c \in Clients : queue[c] # Absent})
  /\ \/ script = Idle
     \/ /\ script \in Runs /\ script.score <= now /\ script.i <= Len(script.list) + 1
        /\ script.pc = "get" => script.i = 1

\* A script that returns leaves no locals; one that reads none changes no key.
Untouched ==
  script.pc = "get" =>
    /\ session = script.session /\ queue = script.queue
    /\ script.list = <<>> /\ script.i = 1 /\ script.fallback = NoOne

\* A queue stays finite: a command adds one entry at most.
LEMMA QueueStaysFinite ==
  ASSUME IsFiniteSet({c \in Clients : queue[c] # Absent}), NEW x,
         \A c \in Clients : queue'[c] # Absent => queue[c] # Absent \/ c = x
  PROVE  IsFiniteSet({c \in Clients : queue[c] # Absent})'
<1> DEFINE waiting == {c \in Clients : queue[c] # Absent}
           waitingNow == {c \in Clients : queue'[c] # Absent}
<1>1. IsFiniteSet(waiting \cup {x})
  BY FS_AddElement
<1>2. waitingNow \in SUBSET (waiting \cup {x})
  OBVIOUS
<1>3. IsFiniteSet(waitingNow)
  BY <1>1, <1>2, FS_Subset
<1> QED BY <1>3

\* What other commands do, they do between two scripts and as MatchQueue says.
LEMMA OtherIsCommand ==
  ASSUME MatchQueueTypeOK, OtherCommand
  PROVE  /\ ~Running /\ UNCHANGED script /\ Next
         /\ \A c \in Clients : queue'[c] # Absent => queue[c] # Absent
<1>1. ~Running /\ UNCHANGED script /\ Next
  BY DEF OtherCommand, Next
<1>2. ASSUME NEW c \in Clients, Save(c) \/ ClearGet(c) \/ ClearPut(c) \/ Delete(c)
      PROVE  queue' = queue
  BY <1>2 DEF Save, ClearGet, ClearPut, Delete, PutUnpaired, DeleteSession
<1>3. ASSUME NEW c \in Clients, Remove(c), NEW b \in Clients
      PROVE  queue'[b] # Absent => queue[b] # Absent
  BY <1>3 DEF Remove, RemoveFromQueue, MatchQueueTypeOK, StoreTypeOK
<1>4. ASSUME NEW type, QueueExpires(type), NEW b \in Clients
      PROVE  queue'[b] # Absent => queue[b] # Absent
  BY <1>4 DEF QueueExpires, DropQueue
<1>5. ClearLost \/ Tick => queue' = queue
  BY DEF ClearLost, Tick
<1> QED BY <1>1, <1>2, <1>3, <1>4, <1>5 DEF OtherCommand

\* The entry a pass of the loop looks at.
LEMMA CandidateIsListed ==
  ASSUME ScriptTypes, InLoop
  PROVE  /\ script \in Runs /\ script.i \in 1..Len(script.list)
         /\ Candidate \in Clients
         /\ script.i + 1 <= Len(script.list) + 1
<1>1. script \in Runs /\ script.i <= Len(script.list)
  BY DEF ScriptTypes, InLoop, Idle
<1> DEFINE l == script.list
<1>2. l \in Seq(Clients) /\ script.i \in Nat \ {0} /\ Len(l) \in Nat
  BY <1>1 DEF Runs
<1> HIDE DEF l
<1>3. script.i \in 1..Len(l) /\ l[script.i] \in Clients
  BY <1>1, <1>2 DEF l
<1> QED BY <1>1, <1>2, <1>3 DEF Candidate, l

\* The locals at the end of a pass.
LEMMA RunGoes ==
  ASSUME script \in Runs, NEW i \in Nat \ {0}, NEW f \in Clients \cup {NoOne},
         \/ script' = [script EXCEPT !.i = i]
         \/ script' = [script EXCEPT !.i = i, !.fallback = f]
  PROVE  /\ script' \in Runs
         /\ script'.pc = script.pc /\ script'.me = script.me
         /\ script'.score = script.score /\ script'.list = script.list /\ script'.i = i
         /\ script'.session = script.session /\ script'.queue = script.queue
BY ZenonT(30) DEF Runs

\* Every call of the script keeps the types.
LEMMA ScriptTypesKept == ScriptTypes /\ [ScriptNext]_scriptVars => ScriptTypes'
<1> SUFFICES ASSUME ScriptTypes, [ScriptNext]_scriptVars PROVE ScriptTypes'
  OBVIOUS
<1> USE DEF ScriptTypes, MatchQueueTypeOK, StoreTypeOK
<1>1. ASSUME UNCHANGED queueVars, script' = Idle PROVE ScriptTypes'
  BY <1>1 DEF queueVars
<1>2. ASSUME NEW c \in Clients, Begin(c) PROVE ScriptTypes'
  <2>1. PICK score \in 0..now :
          script' = [pc |-> "get", me |-> c, score |-> score,
                     list |-> <<>>, i |-> 1, fallback |-> NoOne,
                     session |-> session, queue |-> queue]
    BY <1>2 DEF Begin
  <2>2. script' \in Runs /\ script'.score <= now /\ script'.i = 1 /\ script'.list = <<>>
    BY <2>1 DEF Runs
  <2> QED BY <1>2, <2>2 DEF Begin, queueVars
<1>3. ASSUME SessionNotFound PROVE ScriptTypes'
  BY <1>1, <1>3 DEF SessionNotFound, Return
<1>4. ASSUME ReadQueue PROVE ScriptTypes'
  <2>1. script \in Runs
    BY <1>4 DEF ReadQueue, Idle
  <2>2. script.me \in Clients
    BY <2>1 DEF Runs
  <2>3. IsFiniteSet(Queued(script.me))
    BY FS_Subset DEF Queued
  <2>4. ZRange(script.me) \in Seq(Clients)
    BY <2>2, <2>3, ZRangeIsQueue
  <2>5. /\ script' \in Runs /\ script'.pc = "loop"
        /\ script'.score = script.score /\ script'.i = script.i
        /\ script'.list = ZRange(script.me)
    BY <1>4, <2>1, <2>4 DEF ReadQueue, Runs
  <2>6. Len(ZRange(script.me)) \in Nat
    BY <2>4
  <2> QED BY <1>4, <2>1, <2>5, <2>6 DEF ReadQueue, queueVars, Idle
<1>5. ASSUME DropEntry PROVE ScriptTypes'
  <2> USE CandidateIsListed
  <2>1. IsFiniteSet({c \in Clients : queue[c] # Absent})'
    BY <1>5, QueueStaysFinite DEF DropEntry, RemoveFromQueue
  <2>2. /\ script' \in Runs /\ script'.pc = "loop"
        /\ script'.score = script.score /\ script'.i = script.i + 1
        /\ script'.list = script.list
    <3>1. script.i + 1 \in Nat \ {0} /\ script \in Runs /\ script.pc = "loop"
      BY <1>5 DEF DropEntry, InLoop, Runs
    <3>2. script' = [script EXCEPT !.i = script.i + 1]
      BY <1>5 DEF DropEntry, Advance
    <3> QED BY <3>1, <3>2, RunGoes
  <2>3. MatchQueueTypeOK'
    BY <1>5, StoreTypePreserved DEF DropEntry, Others
  <2> QED BY <1>5, <2>1, <2>2, <2>3 DEF DropEntry, Others, InLoop, Idle
<1>6. ASSUME PassOver PROVE ScriptTypes'
  <2>1. RememberFallback(Candidate) \in Clients \cup {NoOne}
    BY <1>6, CandidateIsListed DEF PassOver, RememberFallback, Runs
  <2>2. /\ script' \in Runs /\ script'.pc = "loop"
        /\ script'.score = script.score /\ script'.i = script.i + 1
        /\ script'.list = script.list
    <3>1. script.i + 1 \in Nat \ {0} /\ script \in Runs /\ script.pc = "loop"
      BY <1>6, CandidateIsListed DEF PassOver, InLoop, Runs
    <3>2. script' = [script EXCEPT !.i = script.i + 1,
                                   !.fallback = RememberFallback(Candidate)]
      BY <1>6 DEF PassOver
    <3> QED BY <2>1, <3>1, <3>2, RunGoes
  <2> QED BY <1>6, <2>2, CandidateIsListed DEF PassOver, queueVars, InLoop, Idle
<1>7. ASSUME NEW p \in Clients, script \in Runs, Pair(p) PROVE ScriptTypes'
  <2>1. IsFiniteSet({c \in Clients : queue[c] # Absent})'
    BY <1>7, QueueStaysFinite DEF Pair
  <2> QED BY <1>7, <2>1 DEF Pair, Return, Others, Runs
<1>8. ASSUME PairOnInterest PROVE ScriptTypes'
  BY <1>7, <1>8, CandidateIsListed DEF PairOnInterest
<1>9. ASSUME PairOnFallback PROVE ScriptTypes'
  <2>1. script \in Runs /\ script.fallback \in Clients
    BY <1>9 DEF PairOnFallback, LoopEnded, Idle, Runs
  <2> QED BY <1>7, <1>9, <2>1 DEF PairOnFallback
<1>10. ASSUME EnqueueSelf PROVE ScriptTypes'
  <2>1. script.me \in Clients /\ script.score \in Nat
    BY <1>10 DEF EnqueueSelf, LoopEnded, Idle, Runs
  <2>2. IsFiniteSet({c \in Clients : queue[c] # Absent})'
    BY <1>10, <2>1, QueueStaysFinite DEF EnqueueSelf
  <2> QED BY <1>10, <2>1, <2>2 DEF EnqueueSelf, Return
<1>11. ASSUME OtherCommand PROVE ScriptTypes'
  <2>1. MatchQueueTypeOK'
    BY <1>11, OtherIsCommand, CommandTypes
  <2>2. IsFiniteSet({c \in Clients : queue[c] # Absent})'
    BY <1>11, OtherIsCommand, QueueStaysFinite
  <2>3. script' = Idle
    BY <1>11, OtherIsCommand DEF Running, Runs
  <2> QED BY <2>1, <2>2, <2>3
<1>12. ASSUME UNCHANGED scriptVars PROVE ScriptTypes'
  BY <1>12 DEF scriptVars
<1> QED
  BY <1>2, <1>3, <1>4, <1>5, <1>6, <1>8, <1>9, <1>10, <1>11, <1>12 DEF ScriptNext, ScriptStep

---------------------------------------------------------------------------
(* The match script: its loop.                                             *)

\* The queue and its order when the script began.
Listed == {b \in Clients : ChatType[b] = ChatType[script.me] /\ script.queue[b] # Absent}

Older(a, b) ==
  \/ script.queue[a] < script.queue[b]
  \/ script.queue[a] = script.queue[b] /\ IdRank[a] < IdRank[b]

\* Entries the loop takes out: the caller's own, and those without a session.
Stale(b) == b = script.me \/ ~HasSession(b)

\* Entries passed that the caller may fall back on.
Allowed == {b \in Passed \ {script.me} : HasSession(b) /\ FallbackPair(script.me, b)}

ListInOrder ==
  /\ {script.list[k] : k \in DOMAIN script.list} = Listed
  /\ \A j, k \in DOMAIN script.list : j < k => Older(script.list[j], script.list[k])

PassedSeen ==
  \A b \in Passed :
    IF Stale(b) THEN queue[b] = Absent
    ELSE queue[b] = script.queue[b] /\ ~HasCommon(script.me, b)

RestUntouched == \A b \in Clients \ Passed : queue[b] = script.queue[b]

FallbackFirst ==
  IF Allowed = {} THEN script.fallback = NoOne
  ELSE /\ script.fallback \in Allowed
       /\ \A b \in Allowed \ {script.fallback} : Older(script.fallback, b)

Looping ==
  script.pc = "loop" =>
    /\ session = script.session /\ HasSession(script.me)
    /\ ListInOrder /\ PassedSeen /\ RestUntouched /\ FallbackFirst

\* Positions in the list follow the order of the entries.
LEMMA ListPositions ==
  ASSUME ScriptTypes, script \in Runs, ListInOrder
  PROVE  /\ \A j, k \in 1..Len(script.list) :
              Older(script.list[j], script.list[k]) <=> j < k
         /\ \A b \in Listed : \E k \in 1..Len(script.list) : script.list[k] = b
         /\ \A k \in 1..Len(script.list) : script.list[k] \in Listed
         /\ \A a, b \in Listed : a # b => Older(a, b) \/ Older(b, a)
<1> DEFINE l == script.list
           n == Len(l)
<1>1. l \in Seq(Clients) /\ n \in Nat /\ DOMAIN l = 1..n
  BY DEF Runs
<1>2. \A k \in 1..n : l[k] \in Listed
  BY <1>1 DEF ListInOrder
<1>3. \A b \in Listed : \E k \in 1..n : l[k] = b
  BY <1>1 DEF ListInOrder
<1>4. \A a \in Listed : script.queue[a] \in Nat /\ IdRank[a] \in Nat
  BY RulesAssumption DEF Listed, Runs
<1>5. \A a, b \in Listed : ~(Older(a, b) /\ Older(b, a)) /\ (a # b => Older(a, b) \/ Older(b, a))
  BY <1>4, RulesAssumption DEF Older, Listed
<1>6. ASSUME NEW j \in 1..n, NEW k \in 1..n PROVE Older(l[j], l[k]) <=> j < k
  <2>1. /\ j < k => Older(l[j], l[k])
        /\ k < j => Older(l[k], l[j])
    BY <1>1 DEF ListInOrder
  <2>2. j = k => ~Older(l[j], l[k])
    BY <1>2, <1>5
  <2>3. ~(Older(l[j], l[k]) /\ Older(l[k], l[j]))
    BY <1>2, <1>5
  <2> HIDE DEF n, l
  <2> QED BY <1>1, <2>1, <2>2, <2>3
<1> QED BY <1>2, <1>3, <1>5, <1>6

\* A pass adds its entry to those passed, where it was not before; all passed
\* are older.
LEMMA PassAdds ==
  ASSUME ScriptTypes, InLoop, ListInOrder
  PROVE  /\ Candidate \in Listed /\ Candidate \notin Passed
         /\ Passed \subseteq Listed
         /\ \A b \in Passed : Older(b, Candidate)
         /\ \A b \in Listed : Older(b, Candidate) => b \in Passed
         /\ script'.list = script.list /\ script'.i = script.i + 1
              => Passed' = Passed \cup {Candidate}
<1> DEFINE l == script.list
           n == Len(l)
           i == script.i
<1>1. l \in Seq(Clients) /\ n \in Nat /\ i \in 1..n /\ script \in Runs
  BY CandidateIsListed DEF Runs
<1>2. /\ \A j, k \in 1..n : Older(l[j], l[k]) <=> j < k
      /\ \A b \in Listed : \E k \in 1..n : l[k] = b
      /\ \A k \in 1..n : l[k] \in Listed
  BY <1>1, ListPositions
<1>3. Passed = {l[k] : k \in 1..(i - 1)} /\ Candidate = l[i]
  BY DEF Passed, Candidate
<1>4. ASSUME script'.list = script.list, script'.i = script.i + 1
      PROVE  Passed' = Passed \cup {Candidate}
  <2>1. \A b : b \in Passed' <=> \E k \in 1..(script'.i - 1) : b = script'.list[k]
    BY DEF Passed
  <2> DEFINE ll == script'.list
             ii == script'.i
  <2>2. ll = l /\ ii = i + 1
    BY <1>4
  <2>3. \A b : b \in Passed' <=> \E k \in 1..(ii - 1) : b = ll[k]
    BY <2>1
  <2> HIDE DEF l, n, i, ll, ii
  <2>4. ii - 1 = i /\ i \in 1..i /\ 1..i = 1..(i - 1) \cup {i}
    BY <1>1, <2>2
  <2>5. \A b : b \in Passed' <=> \E k \in 1..i : b = l[k]
    BY <2>2, <2>3, <2>4
  <2> QED BY <1>3, <2>4, <2>5
<1> HIDE DEF l, n, i
<1>5. 1..(i - 1) \subseteq 1..n
  BY <1>1
<1>6. Passed \subseteq Listed /\ \A b \in Passed : Older(b, Candidate)
  BY <1>1, <1>2, <1>3, <1>5
<1>7. Candidate \in Listed /\ Candidate \notin Passed
  BY <1>1, <1>2, <1>3, <1>5
<1>8. ASSUME NEW b \in Listed, Older(b, Candidate) PROVE b \in Passed
  BY <1>1, <1>2, <1>3, <1>8
<1> QED BY <1>4, <1>6, <1>7, <1>8 DEF l, i

\* A loop that has ended has passed every entry.
LEMMA AllPassed ==
  ASSUME ScriptTypes, LoopEnded, ListInOrder
  PROVE  script \in Runs /\ Passed = Listed
<1> DEFINE l == script.list
           n == Len(l)
           i == script.i
<1>1. script \in Runs /\ script.i <= Len(script.list) + 1 /\ script.i > Len(script.list)
  BY DEF ScriptTypes, LoopEnded, Idle
<1>2. l \in Seq(Clients) /\ n \in Nat /\ i \in Nat /\ DOMAIN l = 1..n
  BY <1>1 DEF Runs
<1>3. Passed = {l[k] : k \in 1..(i - 1)} /\ {l[k] : k \in DOMAIN l} = Listed
  BY DEF Passed, ListInOrder
<1> HIDE DEF l, n, i
<1>4. i - 1 = n
  BY <1>1, <1>2 DEF l, n, i
<1> QED BY <1>1, <1>2, <1>3, <1>4

\* A pass goes on with the same run, one entry further.
LEMMA PassGoesOn ==
  ASSUME ScriptTypes, InLoop, ListInOrder, NEW f \in Clients \cup {NoOne},
         \/ script' = [script EXCEPT !.i = script.i + 1] /\ f = script.fallback
         \/ script' = [script EXCEPT !.i = script.i + 1, !.fallback = f],
         session' = session
  PROVE  /\ script' \in Runs /\ script'.pc = "loop" /\ script'.me = script.me
         /\ script'.queue = script.queue /\ script'.session = script.session
         /\ script'.fallback = f
         /\ Passed' = Passed \cup {Candidate}
         /\ ListInOrder'
         /\ \A b : Stale(b)' <=> Stale(b)
         /\ \A a, b : Older(a, b)' <=> Older(a, b)
<1>1. script \in Runs /\ script.pc = "loop" /\ script.i + 1 \in Nat \ {0}
  BY CandidateIsListed DEF InLoop, Runs
<1>2. /\ script' \in Runs /\ script'.pc = "loop" /\ script'.me = script.me
      /\ script'.queue = script.queue /\ script'.session = script.session
      /\ script'.list = script.list /\ script'.i = script.i + 1
  BY <1>1, RunGoes
<1>3. script'.fallback = f
  BY <1>1 DEF Runs
<1>4. Passed' = Passed \cup {Candidate}
  BY <1>2, PassAdds
<1>5. ListInOrder'
  BY <1>2 DEF ListInOrder, Listed, Older
<1>6. /\ \A b : Stale(b)' <=> Stale(b)
      /\ \A a, b : Older(a, b)' <=> Older(a, b)
  BY <1>2 DEF Stale, HasSession, Older
<1> QED BY <1>2, <1>3, <1>4, <1>5, <1>6

\* A stale entry leaves the queue and nothing else changes (match.go:72-83).
LEMMA DropEntryLoops ==
  ASSUME ScriptTypes, Looping, DropEntry
  PROVE  Looping'
<1>1. /\ InLoop /\ Stale(Candidate) /\ RemoveFromQueue(Candidate)
      /\ script' = [script EXCEPT !.i = script.i + 1] /\ session' = session
  BY DEF DropEntry, Advance, RemoveFromQueue, Stale
<1>2. /\ session = script.session /\ HasSession(script.me)
      /\ ListInOrder /\ PassedSeen /\ RestUntouched /\ FallbackFirst
  BY <1>1 DEF Looping, InLoop
<1>3. script.fallback \in Clients \cup {NoOne} /\ Candidate \in Clients
  BY <1>1, CandidateIsListed DEF Runs
<1>4. /\ script'.me = script.me /\ script'.queue = script.queue
      /\ script'.session = script.session /\ script'.fallback = script.fallback
      /\ Passed' = Passed \cup {Candidate} /\ ListInOrder'
      /\ \A b : Stale(b)' <=> Stale(b)
      /\ \A a, b : Older(a, b)' <=> Older(a, b)
  BY <1>1, <1>2, <1>3, PassGoesOn
<1>5. queue' = [queue EXCEPT ![Candidate] = Absent] /\ queue \in [Clients -> Nat \cup {Absent}]
  BY <1>1 DEF RemoveFromQueue, ScriptTypes, MatchQueueTypeOK, StoreTypeOK
<1>6. Passed \subseteq Clients /\ Candidate \notin Passed
  BY <1>1, <1>2, PassAdds DEF Listed
<1>7. PassedSeen'
  BY <1>1, <1>2, <1>3, <1>4, <1>5, <1>6 DEF PassedSeen
<1>8. RestUntouched'
  BY <1>2, <1>4, <1>5 DEF RestUntouched
<1>9. Allowed' = Allowed
  BY <1>1, <1>4 DEF Allowed, Stale, HasSession
<1>10. FallbackFirst'
  BY <1>2, <1>4, <1>9 DEF FallbackFirst
<1> QED BY <1>1, <1>2, <1>4, <1>7, <1>8, <1>10 DEF Looping, HasSession

\* The first live entry the second rule allows is remembered (match.go:126-132).
LEMMA PassOverLoops ==
  ASSUME ScriptTypes, Looping, PassOver
  PROVE  Looping'
<1> DEFINE f == RememberFallback(Candidate)
<1>1. /\ InLoop /\ ~Stale(Candidate) /\ ~HasCommon(script.me, Candidate)
      /\ script' = [script EXCEPT !.i = script.i + 1, !.fallback = f]
      /\ session' = session /\ queue' = queue
  BY DEF PassOver, Stale, queueVars
<1>2. /\ session = script.session /\ HasSession(script.me)
      /\ ListInOrder /\ PassedSeen /\ RestUntouched /\ FallbackFirst
  BY <1>1 DEF Looping, InLoop
<1>3. script.fallback \in Clients \cup {NoOne} /\ Candidate \in Clients
  BY <1>1, CandidateIsListed DEF Runs
<1>4. f \in Clients \cup {NoOne}
  BY <1>3 DEF RememberFallback
<1> HIDE DEF f
<1>5. /\ script'.me = script.me /\ script'.queue = script.queue
      /\ script'.session = script.session /\ script'.fallback = f
      /\ Passed' = Passed \cup {Candidate} /\ ListInOrder'
      /\ \A b : Stale(b)' <=> Stale(b)
      /\ \A a, b : Older(a, b)' <=> Older(a, b)
  BY <1>1, <1>2, <1>4, PassGoesOn
<1>6. /\ Passed \subseteq Clients /\ Candidate \notin Passed
      /\ \A b \in Passed : Older(b, Candidate)
  BY <1>1, <1>2, PassAdds DEF Listed
<1>7. PassedSeen'
  BY <1>1, <1>2, <1>3, <1>5, <1>6 DEF PassedSeen, RestUntouched
<1>8. RestUntouched'
  BY <1>1, <1>2, <1>5 DEF RestUntouched
<1>9. Allowed' = IF FallbackPair(script.me, Candidate) THEN Allowed \cup {Candidate} ELSE Allowed
  BY <1>1, <1>5 DEF Allowed, Stale, HasSession
<1>10. FallbackFirst'
  <2>1. CASE ~FallbackPair(script.me, Candidate)
    <3>1. f = script.fallback
      BY <2>1 DEF f, RememberFallback, FallbackPair
    <3> QED BY <1>2, <1>5, <1>9, <2>1, <3>1 DEF FallbackFirst
  <2>2. CASE FallbackPair(script.me, Candidate) /\ Allowed = {}
    <3>1. f = Candidate
      BY <1>2, <2>2 DEF f, RememberFallback, FallbackPair, FallbackFirst
    <3> QED BY <1>5, <1>9, <2>2, <3>1 DEF FallbackFirst
  <2>3. CASE FallbackPair(script.me, Candidate) /\ Allowed # {}
    <3>1. script.fallback \in Allowed /\ Allowed \subseteq Passed
      BY <1>2, <2>3 DEF FallbackFirst, Allowed
    <3>2. f = script.fallback
      BY <1>6, <3>1, RulesAssumption DEF f, RememberFallback
    <3> QED BY <1>2, <1>5, <1>6, <1>9, <2>3, <3>1, <3>2 DEF FallbackFirst
  <2> QED BY <2>1, <2>2, <2>3
<1> QED BY <1>1, <1>2, <1>5, <1>7, <1>8, <1>10 DEF Looping, HasSession

\* The loop begins with the whole queue before it.
LEMMA ReadQueueLoops ==
  ASSUME ScriptTypes, Untouched, ReadQueue
  PROVE  Looping'
<1> DEFINE z == ZRange(script.me)
<1>1. /\ script \in Runs /\ script.pc = "get" /\ HasSession(script.me)
      /\ script' = [script EXCEPT !.pc = "loop", !.list = z]
      /\ session' = session /\ queue' = queue
  BY DEF ScriptTypes, ReadQueue, Idle, queueVars
<1>2. script.me \in Clients /\ StoreTypeOK
  BY <1>1 DEF Runs, ScriptTypes, MatchQueueTypeOK
<1>3. /\ session = script.session /\ queue = script.queue
      /\ script.i = 1 /\ script.fallback = NoOne
  BY <1>1 DEF Untouched
<1>4. IsFiniteSet(Queued(script.me))
  BY FS_Subset DEF Queued, ScriptTypes
<1>5. /\ {z[k] : k \in DOMAIN z} = Queued(script.me)
      /\ \A j, k \in DOMAIN z : j < k => Before(z[j], z[k])
  BY <1>2, <1>4, ZRangeIsQueue
<1> HIDE DEF z
<1>6. /\ script'.me = script.me /\ script'.list = z /\ script'.i = 1
      /\ script'.fallback = NoOne /\ script'.session = session /\ script'.queue = queue
  BY <1>1, <1>3 DEF Runs
<1>7. Listed' = Queued(script.me) /\ \A a, b : Older(a, b)' <=> Before(a, b)
  BY <1>6 DEF Listed, Queued, Older, Before
<1>8. ListInOrder'
  BY <1>5, <1>6, <1>7 DEF ListInOrder
<1>9. Passed' = {}
  BY <1>6 DEF Passed
<1> QED
  BY <1>1, <1>6, <1>8, <1>9
     DEF Looping, HasSession, PassedSeen, RestUntouched, FallbackFirst, Allowed

\* Every call of the script keeps what is true of its loop.
LEMMA LoopingKept ==
  ScriptTypes /\ Untouched /\ Looping /\ [ScriptNext]_scriptVars => Untouched' /\ Looping'
<1> SUFFICES ASSUME ScriptTypes, Untouched, Looping, [ScriptNext]_scriptVars
             PROVE  Untouched' /\ Looping'
  OBVIOUS
<1>1. ASSUME script' = Idle PROVE Untouched' /\ Looping'
  BY <1>1 DEF Untouched, Looping, Idle
<1>2. ASSUME script'.pc = "loop" PROVE Untouched'
  BY <1>2 DEF Untouched
<1>3. ASSUME NEW c \in Clients, Begin(c) PROVE Untouched' /\ Looping'
  BY <1>3 DEF Begin, Untouched, Looping, queueVars
<1>4. ASSUME ReadQueue PROVE Untouched' /\ Looping'
  <2>1. script'.pc = "loop"
    BY <1>4 DEF ReadQueue, ScriptTypes, Idle, Runs
  <2> QED BY <1>2, <1>4, <2>1, ReadQueueLoops
<1>5. ASSUME DropEntry PROVE Untouched' /\ Looping'
  <2>1. script'.pc = "loop"
    BY <1>5, CandidateIsListed DEF DropEntry, Advance, InLoop, Runs
  <2> QED BY <1>2, <1>5, <2>1, DropEntryLoops
<1>6. ASSUME PassOver PROVE Untouched' /\ Looping'
  <2>1. script'.pc = "loop"
    BY <1>6, CandidateIsListed DEF PassOver, InLoop, Runs
  <2> QED BY <1>2, <1>6, <2>1, PassOverLoops
<1>7. SessionNotFound \/ PairOnInterest \/ PairOnFallback \/ EnqueueSelf => script' = Idle
  BY DEF SessionNotFound, PairOnInterest, PairOnFallback, EnqueueSelf, Pair, Return
<1>8. OtherCommand => script' = Idle
  BY OtherIsCommand DEF ScriptTypes, Running, Runs
<1>9. ASSUME UNCHANGED scriptVars PROVE Untouched' /\ Looping'
  BY <1>9 DEF scriptVars, Untouched, Looping, ListInOrder, Listed, Older, PassedSeen, Passed,
              Stale, RestUntouched, FallbackFirst, Allowed, HasSession
<1> QED
  BY <1>1, <1>3, <1>4, <1>5, <1>6, <1>7, <1>8, <1>9 DEF ScriptNext, ScriptStep

---------------------------------------------------------------------------
(* The match script implements the atomic match.                           *)

ScriptInv == ScriptTypes /\ Untouched /\ Looping

LEMMA ScriptInvariant == ScriptSpec => []ScriptInv
<1>1. ScriptInit => ScriptInv
  <2> SUFFICES ASSUME ScriptInit PROVE ScriptInv
    OBVIOUS
  <2>1. IsFiniteSet({c \in Clients : queue[c] # Absent})
    <3>1. {c \in Clients : queue[c] # Absent} = {}
      BY DEF ScriptInit, Init, StoreInit
    <3> QED BY <3>1, FS_EmptySet
  <2>2. MatchQueueTypeOK
    BY DEF ScriptInit, Init, StoreInit, MatchQueueTypeOK, StoreTypeOK
  <2> QED BY <2>1, <2>2 DEF ScriptInit, ScriptInv, ScriptTypes, Untouched, Looping, Idle
<1>2. ScriptInv /\ [ScriptNext]_scriptVars => ScriptInv'
  BY ScriptTypesKept, LoopingKept DEF ScriptInv
<1> QED BY <1>1, <1>2, PTL DEF ScriptSpec

\* The script's locals are what its text makes them (match.go:53-163).
THEOREM ScriptTypeCorrect == ScriptSpec => []ScriptTypeOK
<1>1. ScriptTypes => ScriptTypeOK
  <2> SUFFICES ASSUME ScriptTypes, script # Idle PROVE ScriptTypeOK
    BY DEF ScriptTypes, ScriptTypeOK
  <2>1. script \in Runs /\ script.score <= now /\ script.i <= Len(script.list) + 1
    BY DEF ScriptTypes
  <2>2. DOMAIN script = {"pc", "me", "score", "list", "i", "fallback", "session", "queue"}
    BY <2>1 DEF Runs
  <2>3. /\ script.pc \in {"get", "loop"} /\ script.me \in Clients /\ script.score \in Nat
        /\ script.list \in Seq(Clients) /\ script.i \in Nat \ {0}
        /\ script.fallback \in Clients \cup {NoOne}
    BY <2>1 DEF Runs
  <2>4. \A k \in DOMAIN script.list : script.list[k] \in Clients
    BY <2>3
  <2>5. script.score \in 0..now /\ MatchQueueTypeOK
    BY <2>1, <2>3 DEF ScriptTypes, MatchQueueTypeOK
  <2>6. script.i \in 1..(Len(script.list) + 1)
    BY <2>1, <2>3
  <2> QED BY <2>2, <2>3, <2>4, <2>5, <2>6 DEF ScriptTypeOK
<1> QED BY <1>1, ScriptInvariant, PTL DEF ScriptInv

\* After any number of passes: what has been passed is cleaned and holds no
\* shared interest, the fallback is the oldest allowed one, and the rest of
\* the queue is as ZRANGE found it (match.go:71-133).
THEOREM LoopCorrect == ScriptSpec => []LoopInvariant
<1>1. ScriptInv => LoopInvariant
  <2> SUFFICES ASSUME ScriptInv, script.pc = "loop" PROVE LoopInvariant
    BY DEF LoopInvariant
  <2>1. /\ session = script.session /\ HasSession(script.me)
        /\ ListInOrder /\ PassedSeen /\ RestUntouched /\ FallbackFirst
    BY DEF ScriptInv, Looping
  <2>2. script \in Runs /\ StoreTypeOK
    BY DEF ScriptInv, ScriptTypes, Idle, MatchQueueTypeOK
  <2>3. Passed \subseteq Listed
    <3> DEFINE l == script.list
    <3>1. /\ l \in Seq(Clients) /\ script.i \in Nat \ {0} /\ Len(l) \in Nat
          /\ script.i <= Len(l) + 1
      BY <2>2 DEF Runs, ScriptInv, ScriptTypes, Idle
    <3>2. 1..(script.i - 1) \subseteq DOMAIN l
      BY <3>1
    <3> QED BY <2>1, <3>2 DEF Passed, ListInOrder
  <2>4. script.fallback = IF Allowed = {} THEN NoOne ELSE Oldest(Allowed)
    <3>1. \A b \in Allowed : b \in Clients /\ queue[b] # Absent /\ queue[b] = script.queue[b]
      BY <2>1, <2>3 DEF Allowed, PassedSeen, Stale, Listed
    <3>2. \A a, b \in Allowed : Older(a, b) => Before(a, b)
      BY <3>1 DEF Older, Before
    <3>3. CASE Allowed = {}
      BY <2>1, <3>3 DEF FallbackFirst
    <3>4. CASE Allowed # {}
      <4>1. script.fallback \in Allowed
            /\ \A b \in Allowed \ {script.fallback} : Before(script.fallback, b)
        BY <2>1, <3>2, <3>4 DEF FallbackFirst
      <4>2. Allowed \in SUBSET Clients
        BY <3>1
      <4> QED BY <2>2, <3>1, <3>4, <4>1, <4>2, FirstIsOldest
    <3> QED BY <3>3, <3>4
  <2>5. {script.list[k] : k \in DOMAIN script.list}
          = {b \in Clients : ChatType[b] = ChatType[script.me] /\ script.queue[b] # Absent}
    BY <2>1 DEF ListInOrder, Listed
  <2>6. /\ \A b \in Passed :
             IF b = script.me \/ ~HasSession(b) THEN queue[b] = Absent
             ELSE queue[b] = script.queue[b] /\ ~HasCommon(script.me, b)
        /\ \A b \in Clients \ Passed : queue[b] = script.queue[b]
    BY <2>1 DEF PassedSeen, Stale, RestUntouched
  <2> QED BY <2>1, <2>4, <2>5, <2>6 DEF LoopInvariant, Allowed
<1> QED BY <1>1, ScriptInvariant, PTL

\* What the atomic match looks at, in terms of the keys when the script began.
LEMMA StoreAtStart ==
  ASSUME Running, session = script.session
  PROVE  /\ \A b : Store!HasSession(b) <=> HasSession(b)
         /\ Store!Queued(script.me) = Listed
         /\ Store!InterestHits(script.me)
              = {b \in Listed : ~Stale(b) /\ HasCommon(script.me, b)}
         /\ Store!FallbackHits(script.me)
              = {b \in Listed : ~Stale(b) /\ FallbackPair(script.me, b)}
         /\ \A S : Store!Oldest(S) = CHOOSE a \in S : \A b \in S \ {a} : Older(a, b)
         /\ \A a, b : Store!Before(a, b) <=> Older(a, b)
<1>1. \A a, b : Store!Before(a, b) <=> Older(a, b)
  BY DEF Store!Before, Older
<1>2. \A b : Store!HasSession(b) <=> HasSession(b)
  BY DEF Store!HasSession, HasSession
<1>3. Store!Queued(script.me) = Listed
  BY DEF Store!Queued, Listed
<1>4. /\ Store!InterestHits(script.me)
           = {b \in Listed : ~Stale(b) /\ HasCommon(script.me, b)}
      /\ Store!FallbackHits(script.me)
           = {b \in Listed : ~Stale(b) /\ FallbackPair(script.me, b)}
  BY <1>2, <1>3 DEF Store!InterestHits, Store!FallbackHits, Store!LiveCandidates, Stale,
                    Store!HasCommon, HasCommon, Store!FallbackPair, FallbackPair
<1>5. \A S : Store!Oldest(S) = CHOOSE a \in S : \A b \in S \ {a} : Older(a, b)
  BY DEF Store!Oldest, Store!Before, Older
<1> QED BY <1>1, <1>2, <1>3, <1>4, <1>5

\* Of listed entries, the one older than the others is the oldest.
LEMMA OldestListed ==
  ASSUME ScriptTypes, script \in Runs, ListInOrder,
         NEW S \in SUBSET Listed, NEW f \in S, \A b \in S \ {f} : Older(f, b)
  PROVE  (CHOOSE a \in S : \A b \in S \ {a} : Older(a, b)) = f
<1> DEFINE first == CHOOSE a \in S : \A b \in S \ {a} : Older(a, b)
<1>1. first \in S /\ \A b \in S \ {first} : Older(first, b)
  OBVIOUS
<1>2. \A a, b \in Listed : ~(Older(a, b) /\ Older(b, a))
  BY RulesAssumption DEF Older, Listed, Runs
<1> HIDE DEF first
<1>3. first = f
  BY <1>1, <1>2
<1> QED BY <1>3 DEF first

\* Outside a script the keys are shown as they are, and so are the commands.
LEMMA StoreWhenIdle ==
  ASSUME ~Running, ~Running', OtherCommand
  PROVE  Store!Next
<1> USE DEF PutUnpaired, DeleteSession, RemoveFromQueue, DropQueue, HasSession,
            Store!PutUnpaired, Store!DeleteSession, Store!RemoveFromQueue, Store!DropQueue,
            Store!HasSession
<1>1. ASSUME NEW c \in Clients, Save(c) PROVE Store!Next
  <2>1. Store!Save(c)
    BY <1>1 DEF Save, Store!Save
  <2> QED BY <2>1 DEF Store!Next
<1>2. ASSUME NEW c \in Clients, ClearGet(c) PROVE Store!Next
  <2>1. Store!ClearGet(c)
    BY <1>2 DEF ClearGet, Store!ClearGet
  <2> QED BY <2>1 DEF Store!Next
<1>3. ASSUME NEW c \in Clients, ClearPut(c) PROVE Store!Next
  <2>1. Store!ClearPut(c)
    BY <1>3 DEF ClearPut, Store!ClearPut
  <2> QED BY <2>1 DEF Store!Next
<1>4. ASSUME NEW c \in Clients, Remove(c) PROVE Store!Next
  <2>1. Store!Remove(c)
    BY <1>4 DEF Remove, Store!Remove
  <2> QED BY <2>1 DEF Store!Next
<1>5. ASSUME NEW c \in Clients, Delete(c) PROVE Store!Next
  <2>1. Store!Delete(c)
    BY <1>5 DEF Delete, Store!Delete
  <2> QED BY <2>1 DEF Store!Next
<1>6. ASSUME NEW type \in {"text", "video"}, QueueExpires(type) PROVE Store!Next
  <2>1. Store!QueueExpires(type)
    BY <1>6 DEF QueueExpires, Store!QueueExpires
  <2> QED BY <2>1, <1>6 DEF Store!Next
<1>7. ASSUME ClearLost PROVE Store!Next
  <2>1. Store!ClearLost
    BY <1>7 DEF ClearLost, Store!ClearLost
  <2> QED BY <2>1 DEF Store!Next
<1>8. ASSUME Tick PROVE Store!Next
  <2>1. Store!Tick
    BY <1>8 DEF Tick, Store!Tick
  <2> QED BY <2>1 DEF Store!Next
<1> QED BY <1>1, <1>2, <1>3, <1>4, <1>5, <1>6, <1>7, <1>8 DEF OtherCommand

\* A run that ends in a pair is the atomic match with that partner, once the
\* partner is the one the match chooses and all that was cleaned is what the
\* match cleans.
LEMMA PairIsMatch ==
  ASSUME ScriptTypes, Looping, script.pc = "loop", NEW p \in Listed, Pair(p),
         Store!MatchPartner(script.me) = p,
         \A b \in Listed : b \in Store!Purged(script.me) <=> b \in Passed /\ Stale(b),
         Store!Purged(script.me) \subseteq Listed, Passed \subseteq Listed
  PROVE  Store!MatchStep(script.me)
<1>1. /\ session = script.session /\ HasSession(script.me)
      /\ PassedSeen /\ RestUntouched
  BY DEF Looping
<1>2. script \in Runs /\ queue \in [Clients -> Nat \cup {Absent}]
  BY DEF ScriptTypes, Idle, MatchQueueTypeOK, StoreTypeOK
<1>3. script.me \in Clients /\ script.score \in 0..now
      /\ script.queue \in [Clients -> Nat \cup {Absent}]
  BY <1>2 DEF ScriptTypes, Runs, Idle, MatchQueueTypeOK
<1>4. Running /\ ~Running'
  BY DEF Running, Pair, Return, Idle
<1>5. p # NoOne /\ p \in Clients
  BY RulesAssumption DEF Listed
<1>6. queue' = [b \in Clients |-> IF b \in Store!Purged(script.me) \cup {p} THEN Absent
                                  ELSE script.queue[b]]
  <2>1. queue' = [queue EXCEPT ![p] = Absent]
    BY DEF Pair
  <2>2. ASSUME NEW b \in Clients, b # p
        PROVE  queue[b] = IF b \in Store!Purged(script.me) THEN Absent ELSE script.queue[b]
    BY <1>1, <2>2 DEF PassedSeen, RestUntouched
  <2> QED BY <1>2, <2>1, <2>2
<1>7. session' = [script.session EXCEPT ![script.me] = p, ![p] = script.me]
  BY <1>1 DEF Pair
<1>8. Store!HasSession(script.me)
  BY <1>1, <1>4 DEF Store!HasSession, HasSession
<1>9. Store!MatchFound(script.me)
  BY <1>4, <1>5, <1>6, <1>7, <1>8 DEF Store!MatchFound
<1> QED BY <1>3, <1>9 DEF Store!MatchStep, Store!Match, Pair, Others

\* The first shared interest (match.go:102-125).
LEMMA InterestIsMatch ==
  ASSUME ScriptTypes, Looping, PairOnInterest
  PROVE  Store!MatchStep(script.me)
<1> DEFINE p == Candidate
           hits == {b \in Listed : ~Stale(b) /\ HasCommon(script.me, b)}
<1>1. /\ InLoop /\ ~Stale(p) /\ HasCommon(script.me, p) /\ Pair(p) /\ script.pc = "loop"
  BY DEF PairOnInterest, Stale, InLoop
<1>2. /\ session = script.session /\ HasSession(script.me) /\ ListInOrder /\ PassedSeen
  BY <1>1 DEF Looping
<1>3. /\ p \in Listed /\ p \notin Passed /\ Passed \subseteq Listed
      /\ \A b \in Passed : Older(b, p)
      /\ \A b \in Listed : Older(b, p) => b \in Passed
  BY <1>1, <1>2, PassAdds
<1>4. script \in Runs /\ Running
  BY <1>1, CandidateIsListed DEF Running
<1> HIDE DEF p
<1>5. \A a, b \in Listed : a # b => Older(a, b) \/ Older(b, a)
  BY <1>2, <1>4, ListPositions
<1>6. \A b \in hits \ {p} : Older(p, b)
  BY <1>2, <1>3, <1>5 DEF PassedSeen
<1>7. p \in hits /\ hits \in SUBSET Listed
  BY <1>1, <1>3
<1>8. (CHOOSE a \in hits : \A b \in hits \ {a} : Older(a, b)) = p
  BY <1>2, <1>4, <1>6, <1>7, OldestListed
<1>9. /\ Store!InterestHits(script.me) = hits
      /\ \A S : Store!Oldest(S) = CHOOSE a \in S : \A b \in S \ {a} : Older(a, b)
      /\ Store!Queued(script.me) = Listed
      /\ \A a, b : Store!Before(a, b) <=> Older(a, b)
      /\ \A b : Store!HasSession(b) <=> HasSession(b)
  BY <1>2, <1>4, StoreAtStart
<1> HIDE DEF hits
<1>10. Store!Oldest(hits) = p
  BY <1>8, <1>9
<1>11. Store!MatchPartner(script.me) = p
  BY <1>7, <1>9, <1>10 DEF Store!MatchPartner
<1>12. Store!Scanned(script.me) = {b \in Listed : Older(b, p)}
  BY <1>7, <1>9, <1>10 DEF Store!Scanned
<1>13. /\ \A b \in Listed : b \in Store!Purged(script.me) <=> b \in Passed /\ Stale(b)
       /\ Store!Purged(script.me) \subseteq Listed
  BY <1>3, <1>9, <1>12 DEF Store!Purged, Stale
<1> QED BY <1>1, <1>3, <1>11, <1>13, PairIsMatch

\* At the end of the loop all entries have been seen.
LEMMA EndOfLoop ==
  ASSUME ScriptTypes, Looping, LoopEnded
  PROVE  /\ script.pc = "loop" /\ script \in Runs /\ Running
         /\ session = script.session /\ HasSession(script.me)
         /\ ListInOrder /\ PassedSeen /\ RestUntouched /\ FallbackFirst
         /\ Passed = Listed
         /\ Store!InterestHits(script.me) = {}
         /\ Store!FallbackHits(script.me) = Allowed
         /\ \A S : Store!Oldest(S) = CHOOSE a \in S : \A b \in S \ {a} : Older(a, b)
         /\ \A b \in Listed : b \in Store!Purged(script.me) <=> b \in Passed /\ Stale(b)
         /\ Store!Purged(script.me) \subseteq Listed
<1>1. /\ script.pc = "loop" /\ session = script.session /\ HasSession(script.me)
      /\ ListInOrder /\ PassedSeen /\ RestUntouched /\ FallbackFirst
  BY DEF Looping, LoopEnded
<1>2. script \in Runs /\ Passed = Listed /\ Running
  BY <1>1, AllPassed DEF Running
<1>3. Store!InterestHits(script.me) = {}
  BY <1>1, <1>2, StoreAtStart DEF PassedSeen
<1>4. Store!FallbackHits(script.me) = Allowed
  <2>1. Store!FallbackHits(script.me)
          = {b \in Listed : ~Stale(b) /\ FallbackPair(script.me, b)}
    BY <1>1, <1>2, StoreAtStart
  <2> QED BY <1>2, <2>1 DEF Allowed, Stale
<1>5. Store!Scanned(script.me) = Listed
  BY <1>1, <1>2, <1>3, StoreAtStart DEF Store!Scanned
<1>6. \A b : Store!HasSession(b) <=> HasSession(b)
  BY <1>1, <1>2, StoreAtStart
<1>7. /\ \A b \in Listed : b \in Store!Purged(script.me) <=> b \in Passed /\ Stale(b)
      /\ Store!Purged(script.me) \subseteq Listed
  BY <1>2, <1>5, <1>6 DEF Store!Purged, Stale
<1>8. \A S : Store!Oldest(S) = CHOOSE a \in S : \A b \in S \ {a} : Older(a, b)
  BY <1>1, <1>2, StoreAtStart
<1> QED BY <1>1, <1>2, <1>3, <1>4, <1>7, <1>8

\* The fallback (match.go:135-150).
LEMMA FallbackIsMatch ==
  ASSUME ScriptTypes, Looping, PairOnFallback
  PROVE  Store!MatchStep(script.me)
<1> DEFINE p == script.fallback
<1>1. LoopEnded /\ p # NoOne /\ Pair(p)
  BY DEF PairOnFallback
<1> USE EndOfLoop
<1>2. p \in Allowed /\ \A b \in Allowed \ {p} : Older(p, b)
  BY <1>1 DEF FallbackFirst
<1>3. Allowed \in SUBSET Listed
  BY <1>1 DEF Allowed
<1>4. (CHOOSE a \in Allowed : \A b \in Allowed \ {a} : Older(a, b)) = p
  BY <1>1, <1>2, <1>3, OldestListed
<1>5. Store!MatchPartner(script.me) = p
  <2>1. /\ Store!InterestHits(script.me) = {} /\ Store!FallbackHits(script.me) = Allowed
        /\ \A S : Store!Oldest(S) = CHOOSE a \in S : \A b \in S \ {a} : Older(a, b)
    BY <1>1
  <2> HIDE DEF p
  <2>2. Store!Oldest(Allowed) = p
    BY ONLY <1>4, <2>1
  <2> QED BY <1>2, <2>1, <2>2 DEF Store!MatchPartner
<1> QED BY <1>1, <1>2, <1>3, <1>5, PairIsMatch

\* Nobody (match.go:152-161).
LEMMA EnqueueIsMatch ==
  ASSUME ScriptTypes, Looping, EnqueueSelf
  PROVE  Store!MatchStep(script.me)
<1>1. /\ LoopEnded /\ queue' = [queue EXCEPT ![script.me] = script.score]
      /\ session' = session /\ script' = Idle
      /\ IsStrict[script.me] \/ script.fallback = NoOne
  BY DEF EnqueueSelf, Return
<1> USE EndOfLoop
<1>2. Allowed = {}
  <2>1. CASE IsStrict[script.me]
    BY <2>1 DEF Allowed, FallbackPair
  <2>2. CASE script.fallback = NoOne
    BY <1>1, <2>2, RulesAssumption DEF FallbackFirst, Allowed, Listed
  <2> QED BY <1>1, <2>1, <2>2
<1>3. Store!MatchPartner(script.me) = NoOne
  BY <1>1, <1>2 DEF Store!MatchPartner
<1>4. /\ script.me \in Clients /\ script.score \in 0..now
      /\ script.queue \in [Clients -> Nat \cup {Absent}]
      /\ queue \in [Clients -> Nat \cup {Absent}]
  BY <1>1 DEF ScriptTypes, Runs, Idle, MatchQueueTypeOK, StoreTypeOK
<1>5. queue' = [b \in Clients |-> IF b = script.me THEN script.score
                                  ELSE IF b \in Store!Purged(script.me) THEN Absent
                                  ELSE script.queue[b]]
  <2>1. ASSUME NEW b \in Clients
        PROVE  queue[b] = IF b \in Store!Purged(script.me) THEN Absent ELSE script.queue[b]
    BY <1>1 DEF PassedSeen, RestUntouched
  <2> QED BY <1>1, <1>4, <2>1
<1>6. Running /\ ~Running'
  BY <1>1 DEF Running, Idle
<1>7. Store!HasSession(script.me)
  BY <1>1, <1>6 DEF Store!HasSession, HasSession
<1>8. Store!MatchEnqueue(script.me, script.score)
  BY <1>1, <1>3, <1>5, <1>6, <1>7 DEF Store!MatchEnqueue
<1> QED BY <1>4, <1>8 DEF Store!MatchStep, Store!Match, EnqueueSelf

\* A whole run of the loop is one atomic match, seen when it returns: the
\* oldest entry with a shared interest, else the oldest the second rule
\* allows, else a new entry (match.go:37-163).
THEOREM ScriptIsMatch == ScriptSpec => ScriptImplementsMatch
<1>1. ScriptInit => Store!Init
  BY DEF ScriptInit, Init, StoreInit, Store!Init, Store!StoreInit, Running, Idle
<1>2. ScriptInv /\ [ScriptNext]_scriptVars => [Store!Next]_Store!queueVars
  <2> SUFFICES ASSUME ScriptInv, [ScriptNext]_scriptVars
               PROVE  Store!Next \/ UNCHANGED Store!queueVars
    OBVIOUS
  <2> USE DEF ScriptInv
  <2>1. ASSUME NEW c \in Clients, Begin(c) PROVE UNCHANGED Store!queueVars
    BY <2>1 DEF Begin, Running, queueVars, Store!queueVars
  <2>2. ASSUME SessionNotFound PROVE UNCHANGED Store!queueVars
    <3>1. session = script.session /\ queue = script.queue
      BY <2>2 DEF SessionNotFound, Untouched
    <3> QED BY <2>2, <3>1 DEF SessionNotFound, Return, Running, Idle, queueVars, Store!queueVars
  <2>3. ASSUME ReadQueue \/ DropEntry \/ PassOver PROVE UNCHANGED Store!queueVars
    <3>1. script \in Runs /\ Running
      BY <2>3 DEF ReadQueue, DropEntry, PassOver, InLoop, ScriptTypes, Idle, Running
    <3>2. /\ Running' /\ script'.session = script.session /\ script'.queue = script.queue
      BY <2>3, <3>1
         DEF ReadQueue, DropEntry, PassOver, Advance, InLoop, Running, Runs
    <3>3. UNCHANGED <<registered, clearing, now>>
      BY <2>3 DEF ReadQueue, DropEntry, PassOver, Others, queueVars
    <3> QED BY <3>1, <3>2, <3>3 DEF Store!queueVars
  <2>4. ASSUME PairOnInterest \/ PairOnFallback \/ EnqueueSelf PROVE Store!Next
    <3>1. Store!MatchStep(script.me)
      BY <2>4, InterestIsMatch, FallbackIsMatch, EnqueueIsMatch
    <3>2. script.me \in Clients
      BY <2>4 DEF PairOnInterest, PairOnFallback, EnqueueSelf, InLoop, LoopEnded, ScriptTypes,
                  Idle, Runs
    <3> QED BY <3>1, <3>2 DEF Store!Next
  <2>5. ASSUME OtherCommand PROVE Store!Next
    <3>1. ~Running /\ ~Running'
      BY <2>5 DEF OtherCommand, Running
    <3> QED BY <2>5, <3>1, StoreWhenIdle
  <2>6. ASSUME UNCHANGED scriptVars PROVE UNCHANGED Store!queueVars
    BY <2>6 DEF scriptVars, Running, Store!queueVars
  <2> QED BY <2>1, <2>2, <2>3, <2>4, <2>5, <2>6 DEF ScriptNext, ScriptStep
<1> QED
  BY <1>1, <1>2, ScriptInvariant, PTL DEF ScriptSpec, ScriptImplementsMatch, Store!Spec

---------------------------------------------------------------------------
(* What holds between any two calls of the script, too.                    *)

\* Whoever pairs has found an entry of somebody the rules allow.
LEMMA PairsWithWaiting ==
  ASSUME ScriptInv, PairOnInterest \/ PairOnFallback
  PROVE  \E p \in Clients :
           Pair(p) /\ queue[p] # Absent /\ script.me \in Clients /\ Compatible(script.me, p)
<1>1. CASE PairOnInterest
  <2>1. InLoop /\ Looping /\ script.pc = "loop" /\ Pair(Candidate) /\ Candidate # script.me
        /\ HasCommon(script.me, Candidate)
    BY <1>1 DEF PairOnInterest, InLoop, ScriptInv
  <2>2. Candidate \in Listed /\ Candidate \notin Passed /\ RestUntouched
    BY <2>1, PassAdds DEF Looping, ScriptInv
  <2>3. Candidate \in Clients /\ script.me \in Clients
    BY <2>1, CandidateIsListed DEF ScriptInv, Runs
  <2>4. queue[Candidate] # Absent
    BY <2>2, <2>3 DEF RestUntouched, Listed
  <2>5. Compatible(script.me, Candidate)
    BY <2>1, <2>2 DEF Compatible, Eligible, Listed
  <2> QED BY <2>1, <2>3, <2>4, <2>5
<1>2. CASE PairOnFallback
  <2>1. LoopEnded /\ script.fallback # NoOne /\ Pair(script.fallback)
    BY <1>2 DEF PairOnFallback
  <2>2. /\ FallbackFirst /\ PassedSeen /\ Passed = Listed /\ script \in Runs
        /\ session = script.session
    BY <2>1, EndOfLoop DEF ScriptInv
  <2>3. script.fallback \in Allowed
    BY <2>1, <2>2 DEF FallbackFirst
  <2>4. script.fallback \in Clients /\ queue[script.fallback] # Absent
    BY <2>2, <2>3 DEF Allowed, Listed, PassedSeen, Stale
  <2>5. Compatible(script.me, script.fallback)
    BY <2>2, <2>3 DEF Allowed, Listed, Compatible, Eligible
  <2>6. script.me \in Clients
    BY <2>2 DEF Runs
  <2> QED BY <2>1, <2>4, <2>5, <2>6
<1> QED BY <1>1, <1>2

\* The last call of a run that found nobody is the only one that adds an entry.
LEMMA OnlyEnqueueAdds ==
  ASSUME ScriptInv, [ScriptNext]_scriptVars, ~EnqueueSelf, NEW c \in Clients,
         queue'[c] # Absent
  PROVE  queue[c] # Absent
<1>1. MatchQueueTypeOK /\ queue \in [Clients -> Nat \cup {Absent}]
  BY DEF ScriptInv, ScriptTypes, MatchQueueTypeOK, StoreTypeOK
<1>2. ASSUME (\E b \in Clients : Begin(b)) \/ SessionNotFound \/ ReadQueue \/ PassOver
             \/ UNCHANGED scriptVars
      PROVE  queue' = queue
  BY <1>2 DEF Begin, SessionNotFound, ReadQueue, PassOver, queueVars, scriptVars
<1>3. ASSUME DropEntry PROVE queue[c] # Absent
  BY <1>1, <1>3 DEF DropEntry, RemoveFromQueue
<1>4. ASSUME PairOnInterest \/ PairOnFallback PROVE queue[c] # Absent
  <2>1. PICK p \in Clients : Pair(p)
    BY <1>4, PairsWithWaiting
  <2> QED BY <1>1, <2>1 DEF Pair
<1>5. ASSUME OtherCommand PROVE queue[c] # Absent
  BY <1>1, <1>5, OtherIsCommand
<1> QED BY <1>2, <1>3, <1>4, <1>5 DEF ScriptNext, ScriptStep

\* It has seen all others, and none was one it could be matched with.
LEMMA EnqueueMissesNobody ==
  ASSUME ScriptInv, EnqueueSelf, NEW b \in Clients, b # script.me, queue'[b] # Absent
  PROVE  /\ script.me \in Clients
         /\ queue[b] # Absent /\ ~Compatible(script.me, b)
<1>1. /\ LoopEnded /\ queue' = [queue EXCEPT ![script.me] = script.score]
      /\ IsStrict[script.me] \/ script.fallback = NoOne
  BY DEF EnqueueSelf
<1>2. /\ script \in Runs /\ PassedSeen /\ RestUntouched /\ FallbackFirst /\ Passed = Listed
  BY <1>1, EndOfLoop DEF ScriptInv
<1>3. script.me \in Clients /\ queue[b] # Absent
  BY <1>1, <1>2 DEF Runs, ScriptInv, ScriptTypes, MatchQueueTypeOK, StoreTypeOK
<1>4. ASSUME Compatible(script.me, b) PROVE FALSE
  <2>1. b \in Listed
    BY <1>2, <1>3, <1>4 DEF RestUntouched, Listed, Compatible
  <2>2. ~Stale(b) /\ ~HasCommon(script.me, b)
    BY <1>2, <1>3, <2>1 DEF PassedSeen
  <2>3. FallbackPair(script.me, b)
    BY <1>4, <2>2 DEF Compatible, Eligible
  <2>4. b \in Allowed
    BY <1>2, <2>1, <2>2, <2>3 DEF Allowed, Stale
  <2>5. script.fallback # NoOne
    BY <1>2, <2>4, RulesAssumption DEF FallbackFirst, Allowed, Listed
  <2> QED BY <1>1, <2>3, <2>5 DEF FallbackPair
<1> QED BY <1>3, <1>4

\* Not even between two calls of a running script do two clients that could
\* chat both sit in a queue (match.go:53-163).
THEOREM LoopMissesNoMatch == ScriptSpec => []NoMissedMatch
<1>1. ScriptInit => NoMissedMatch
  BY DEF ScriptInit, Init, StoreInit, NoMissedMatch
<1>2. ScriptInv /\ NoMissedMatch /\ [ScriptNext]_scriptVars => NoMissedMatch'
  <2> SUFFICES ASSUME ScriptInv, NoMissedMatch, [ScriptNext]_scriptVars,
                      NEW a \in Clients, NEW b \in Clients,
                      queue'[a] # Absent, queue'[b] # Absent, Compatible(a, b)
               PROVE  FALSE
    BY DEF NoMissedMatch
  <2>1. CASE ~EnqueueSelf
    BY <2>1, OnlyEnqueueAdds DEF NoMissedMatch
  <2>2. CASE EnqueueSelf
    <3>1. a # b /\ Compatible(b, a)
      BY CompatibleSymmetric DEF Compatible
    <3>2. a # script.me /\ b # script.me
      BY <2>2, <3>1, EnqueueMissesNobody
    <3> QED BY <2>2, <3>2, EnqueueMissesNobody DEF NoMissedMatch
  <2> QED BY <2>1, <2>2
<1> QED BY <1>1, <1>2, ScriptInvariant, PTL DEF ScriptSpec

\* A run that pairs finds its caller out of the queue and takes the partner
\* out: the early return of match.go:103-124 leaves nothing behind.
THEOREM PairingLeavesNoEntry == ScriptSpec => PairedLeaveQueue
<1>1. ASSUME ScriptInv, NoMissedMatch, PairOnInterest \/ PairOnFallback
      PROVE  queue'[script.me] = Absent /\ queue'[session'[script.me]] = Absent
  <2>1. PICK p \in Clients :
          Pair(p) /\ queue[p] # Absent /\ script.me \in Clients /\ Compatible(script.me, p)
    BY <1>1, PairsWithWaiting
  <2>2. queue[script.me] = Absent
    BY <1>1, <2>1 DEF NoMissedMatch
  <2>3. /\ session \in [Clients -> Clients \cup {NoOne, Absent}]
        /\ queue \in [Clients -> Nat \cup {Absent}]
    BY <1>1 DEF ScriptInv, ScriptTypes, MatchQueueTypeOK, StoreTypeOK
  <2>4. session'[script.me] = p
    BY <2>1, <2>3 DEF Pair, Compatible
  <2> QED BY <2>1, <2>2, <2>3, <2>4 DEF Pair
<1>2. ScriptInv /\ NoMissedMatch
        => [PairOnInterest \/ PairOnFallback =>
              queue'[script.me] = Absent /\ queue'[session'[script.me]] = Absent]_scriptVars
  BY <1>1
<1> QED
  BY <1>2, ScriptInvariant, LoopMissesNoMatch, PTL DEF PairedLeaveQueue

\* The partners the loop writes are ones the rules allow (match.go:104-150).
THEOREM LoopObeysRules == ScriptSpec => []PartnerFieldsObeyRules
<1>1. ScriptInit => PartnerFieldsObeyRules
  BY RulesAssumption DEF ScriptInit, Init, StoreInit, PartnerFieldsObeyRules
<1>2. ScriptInv /\ PartnerFieldsObeyRules /\ [ScriptNext]_scriptVars
        => PartnerFieldsObeyRules'
  <2> SUFFICES ASSUME ScriptInv, PartnerFieldsObeyRules, [ScriptNext]_scriptVars
               PROVE  PartnerFieldsObeyRules'
    OBVIOUS
  <2>1. MatchQueueTypeOK /\ session \in [Clients -> Clients \cup {NoOne, Absent}]
    BY DEF ScriptInv, ScriptTypes, MatchQueueTypeOK, StoreTypeOK
  <2>2. ASSUME session' = session PROVE PartnerFieldsObeyRules'
    BY <2>2 DEF PartnerFieldsObeyRules
  <2>3. ASSUME (\E b \in Clients : Begin(b)) \/ SessionNotFound \/ ReadQueue \/ PassOver
               \/ DropEntry \/ EnqueueSelf \/ UNCHANGED scriptVars
        PROVE  session' = session
    BY <2>3 DEF Begin, SessionNotFound, ReadQueue, PassOver, DropEntry, RemoveFromQueue,
                EnqueueSelf, queueVars, scriptVars
  <2>4. ASSUME PairOnInterest \/ PairOnFallback PROVE PartnerFieldsObeyRules'
    <3>1. PICK p \in Clients :
            Pair(p) /\ script.me \in Clients /\ Compatible(script.me, p)
      BY <2>4, PairsWithWaiting
    <3>2. Compatible(p, script.me)
      BY <3>1, CompatibleSymmetric
    <3> QED BY <2>1, <3>1, <3>2 DEF Pair, PartnerFieldsObeyRules
  <2>5. ASSUME OtherCommand PROVE PartnerFieldsObeyRules'
    BY <2>1, <2>5, OtherIsCommand, CommandsObeyRules
  <2> QED BY <2>2, <2>3, <2>4, <2>5 DEF ScriptNext, ScriptStep
<1> QED BY <1>1, <1>2, ScriptInvariant, PTL DEF ScriptSpec

=============================================================================
