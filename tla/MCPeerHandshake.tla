-------------------------- MODULE MCPeerHandshake --------------------------
(* Two pages that are paired twice, the caller being the callee of the     *)
(* second pair.                                                            *)
EXTENDS PeerHandshake

CONSTANTS a, b

MCPages == {a, b}
MCCaller == [r \in Rounds |-> IF r = 1 THEN a ELSE b]

\* The sockets of the second pair do not close, and nobody leaves it.
SecondIsCalm == \A p \in Pages : round[p] = 2 => attempts[p] = 0 /\ ~pressed[p]

=============================================================================
