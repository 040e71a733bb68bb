------------------------------- MODULE MCHub -------------------------------
(* Small instances of the hub: two or three clients, at most one message.   *)
EXTENDS Hub

CONSTANTS c1, c2, c3, m1, chess

MCTwo == {c1, c2}
MCThree == {c1, c2, c3}
MCFirst == {c1}
MCSecond == {c2}
MCNone == {}
MCOne == {m1}
MCNewOnly == {"new_connection"}
MCAllKinds == {"typing", "peer_connected", "new_connection", "end_connection"}
MCTopics == {chess}
\* c1 and c2 may fall back to each other, c3 only wants to talk chess with c1,
\* and c2 and c3 must not meet.
MCChatType == [c \in Clients |-> "text"]
MCIsStrict == [c \in Clients |-> c = c3]
MCInterests == [c \in Clients |-> IF c \in {c1, c3} THEN {chess} ELSE {}]
MCIdRank == [c \in Clients |-> CASE c = c1 -> 2 [] c = c2 -> 1 [] c = c3 -> 3]

(***************************************************************************)
(* Bound: c1 asks for a new chat when its first search is over, or has      *)
(* passed the checks of Client.Connect and is about to write.               *)
(***************************************************************************)
AskLate ==
  \A m \in Messages : handler[m].pc = "start" => search[c1].pc \in {"setSelf", "done"}

(***************************************************************************)
(* Bound: c2 leaves while the handler of c1's message is going to use the   *)
(* partner it has found, and nothing follows that handler.                  *)
(***************************************************************************)
LeaveLate ==
  \A m \in Messages : handler[c2].pc # "off" => handler[m].pc \in {"use", "useAgain"}

=============================================================================
