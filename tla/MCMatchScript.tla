--------------------------- MODULE MCMatchScript ---------------------------
(* Four clients of one chat type.  c1 has an interest in common with each  *)
(* of two strict clients that have none in common with each other, so that  *)
(* it may find both in the queue; c1 and c4 may only fall back.             *)
EXTENDS MatchScript

CONSTANTS c1, c2, c3, c4, chess, go

MCFour == {c1, c2, c3, c4}
MCTopics == {chess, go}
MCChatType == [c \in Clients |-> "text"]
MCIsStrict == [c \in Clients |-> c \in {c2, c3}]
MCInterests == [c \in Clients |->
                  CASE c = c1 -> {chess, go} [] c = c2 -> {chess}
                    [] c = c3 -> {go} [] c = c4 -> {}]
MCIdRank == [c \in Clients |->
               CASE c = c1 -> 2 [] c = c2 -> 1 [] c = c3 -> 3 [] c = c4 -> 4]

\* Bound: a script runs alone, so clears matter to it one at a time.
OneClearing == Cardinality(clearing) <= 1

=============================================================================
