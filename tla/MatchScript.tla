---------------------------- MODULE MatchScript ----------------------------
(***************************************************************************)
(* The match script's loop (matchLuaScript in src/internal/redis/match.go), *)
(* one redis.call at a time.  Redis runs nothing else while a script runs,  *)
(* so the other commands of MatchQueue wait, and what the script has        *)
(* written is seen by others when it returns: that is the refinement        *)
(* mapping under which this module implements the atomic Match.             *)
(***************************************************************************)
EXTENDS MatchQueue, Sequences

VARIABLE script   \* the running script's locals, or Idle

scriptVars == <<session, queue, registered, clearing, now, script>>

Idle == [pc |-> "idle"]

Running == script.pc # "idle"

ZRange_NewestFirst(c) ==
  [k \in 1..Cardinality(Queued(c)) |->
     CHOOSE b \in Queued(c) : Cardinality({a \in Queued(c) : Before(b, a)}) = k - 1]

\* ZRANGE queueKey 0 -1: the members, oldest first.
ZRange(c) ==
  [k \in 1..Cardinality(Queued(c)) |->
     CHOOSE b \in Queued(c) : Cardinality({a \in Queued(c) : Before(a, b)}) = k - 1]

Others == <<registered, clearing, now>>

ScriptInit == Init /\ script = Idle

\* EVALSHA.  "session" and "queue" remember what the script found.
Begin(c) ==
  /\ ~Running
  /\ \E score \in 0..now :
       script' = [pc |-> "get", me |-> c, score |-> score,
                  list |-> <<>>, i |-> 1, fallback |-> NoOne,
                  session |-> session, queue |-> queue]
  /\ UNCHANGED queueVars

Return == script' = Idle

SessionNotFound ==
  /\ script.pc = "get"
  /\ ~HasSession(script.me)
  /\ Return
  /\ UNCHANGED queueVars

ReadQueue ==
  /\ script.pc = "get"
  /\ HasSession(script.me)
  /\ script' = [script EXCEPT !.pc = "loop", !.list = ZRange(script.me)]
  /\ UNCHANGED queueVars

InLoop == script.pc = "loop" /\ script.i <= Len(script.list)

Candidate == script.list[script.i]

Advance_SkipNext == script' = [script EXCEPT !.i = script.i + 2]

\* The end of a pass through the loop body.
Advance == script' = [script EXCEPT !.i = script.i + 1]

DropEntry_KeepStale ==
  /\ InLoop
  /\ Candidate = script.me \/ ~HasSession(Candidate)
  /\ IF Candidate = script.me THEN RemoveFromQueue(Candidate) ELSE UNCHANGED storeVars
  /\ Advance
  /\ UNCHANGED Others

\* The caller's own entry, or one whose session is gone.
DropEntry ==
  /\ InLoop
  /\ Candidate = script.me \/ ~HasSession(Candidate)
  /\ RemoveFromQueue(Candidate)
  /\ Advance
  /\ UNCHANGED Others

Pair(p) ==
  /\ queue' = [queue EXCEPT ![p] = Absent]
  /\ session' = [session EXCEPT ![script.me] = p, ![p] = script.me]
  /\ Return
  /\ UNCHANGED Others

PairOnInterest ==
  /\ InLoop
  /\ Candidate # script.me /\ HasSession(Candidate)
  /\ HasCommon(script.me, Candidate)
  /\ Pair(Candidate)

RememberFallback_AnyCandidate(p) ==
  IF ~IsStrict[script.me] /\ script.fallback = NoOne THEN p ELSE script.fallback

RememberFallback(p) ==
  IF ~IsStrict[script.me] /\ ~IsStrict[p] /\ script.fallback = NoOne
  THEN p
  ELSE script.fallback

PassOver ==
  /\ InLoop
  /\ Candidate # script.me /\ HasSession(Candidate)
  /\ ~HasCommon(script.me, Candidate)
  /\ script' = [script EXCEPT !.i = script.i + 1,
                              !.fallback = RememberFallback(Candidate)]
  /\ UNCHANGED queueVars

LoopEnded == script.pc = "loop" /\ script.i > Len(script.list)

PairOnFallback ==
  /\ LoopEnded
  /\ ~IsStrict[script.me] /\ script.fallback # NoOne
  /\ Pair(script.fallback)

EnqueueSelf ==
  /\ LoopEnded
  /\ IsStrict[script.me] \/ script.fallback = NoOne
  /\ queue' = [queue EXCEPT ![script.me] = script.score]
  /\ Return
  /\ UNCHANGED <<session, registered, clearing, now>>

ScriptStep ==
  \/ SessionNotFound \/ ReadQueue
  \/ DropEntry \/ PairOnInterest \/ PassOver
  \/ PairOnFallback \/ EnqueueSelf

\* Everything in MatchQueue but the atomic match, between two scripts.
OtherCommand ==
  /\ ~Running
  /\ \/ \E c \in Clients :
          Save(c) \/ ClearGet(c) \/ ClearPut(c) \/ Remove(c) \/ Delete(c)
     \/ \E type \in {"text", "video"} : QueueExpires(type)
     \/ ClearLost \/ Tick
  /\ UNCHANGED script

ScriptNext == (\E c \in Clients : Begin(c)) \/ ScriptStep \/ OtherCommand

ScriptSpec == ScriptInit /\ [][ScriptNext]_scriptVars

---------------------------------------------------------------------------
\* The script's locals are well typed, and so is what it writes.
ScriptTypeOK ==
  /\ MatchQueueTypeOK
  /\ script = Idle \/
     /\ DOMAIN script = {"pc", "me", "score", "list", "i", "fallback", "session", "queue"}
     /\ script.pc \in {"get", "loop"}
     /\ script.me \in Clients
     /\ script.score \in 0..now
     /\ \A k \in DOMAIN script.list : script.list[k] \in Clients
     /\ script.i \in 1..(Len(script.list) + 1)
     /\ script.fallback \in Clients \cup {NoOne}

(***************************************************************************)
(* The loop invariant.  Of the entries passed so far, the self entry and    *)
(* the stale ones are out of the queue and the rest share no interest with  *)
(* the caller; the fallback is the first of them the second rule allows;    *)
(* the entries to come are untouched (match.go:71-133).                     *)
(***************************************************************************)
Passed == {script.list[k] : k \in 1..(script.i - 1)}

LoopInvariant ==
  script.pc = "loop" =>
    /\ session = script.session
    /\ {script.list[k] : k \in DOMAIN script.list}
         = {b \in Clients : ChatType[b] = ChatType[script.me] /\ script.queue[b] # Absent}
    /\ \A b \in Passed :
         IF b = script.me \/ ~HasSession(b) THEN queue[b] = Absent
         ELSE queue[b] = script.queue[b] /\ ~HasCommon(script.me, b)
    /\ \A b \in Clients \ Passed : queue[b] = script.queue[b]
    /\ LET allowed == {b \in Passed \ {script.me} : HasSession(b) /\ FallbackPair(script.me, b)}
       IN  script.fallback = IF allowed = {} THEN NoOne ELSE Oldest(allowed)

(***************************************************************************)
(* A run that pairs takes both clients out of the queue.  The script        *)
(* returns at the first shared interest, before it may have reached its     *)
(* caller's own stale entry (match.go:72-74, 103-124), and so would leave   *)
(* it for others to be matched with; that no caller with a stale entry ever *)
(* finds a partner rests on NoMissedMatch.                                  *)
(***************************************************************************)
PairedLeaveQueue ==
  [][PairOnInterest \/ PairOnFallback =>
       queue'[script.me] = Absent /\ queue'[session'[script.me]] = Absent]_scriptVars

(***************************************************************************)
(* The loop computes what the atomic Match says, from any reachable state   *)
(* of the store: the oldest entry with a shared interest, else the oldest   *)
(* non-strict pair, else a new entry; and it cleans what it passed.         *)
(***************************************************************************)
Store == INSTANCE MatchQueue WITH
  session <- IF Running THEN script.session ELSE session,
  queue   <- IF Running THEN script.queue ELSE queue

ScriptImplementsMatch == Store!Spec

=============================================================================
