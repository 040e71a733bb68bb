--------------------------- MODULE MCClientPumps ---------------------------
(* Two browsers with one tab each, or one browser with two.                *)
EXTENDS ClientPumps

CONSTANTS k1, k2, b1, b2, h1

MCTabs == {k1, k2}
MCBrowsers == {b1, b2}
MCOwn == {[k \in Tabs |-> IF k = k1 THEN b1 ELSE b2]}
MCShared == {[k \in Tabs |-> b1]}
MCBoth == MCOwn \cup MCShared
MCHandlers == {h1}

Interest(n) == [topic |-> "chess", length |-> n]
MCForms ==
  {[chatType |-> "text", isStrict |-> TRUE, interests |-> <<Interest(5)>>],
   [chatType |-> "text", isStrict |-> TRUE, interests |-> <<>>],
   [chatType |-> "text", isStrict |-> FALSE, interests |-> <<Interest(5), Interest(0)>>],
   [chatType |-> "chess", isStrict |-> FALSE, interests |-> <<>>]}

\* Where two tabs share a browser, one form is posted, nothing is said, and the
\* process is not stopped.  Where they do not, the first tab is ahead of the
\* second, and it is the one that speaks and leaves,
\* and the second's WritePump returns ahead of its ReadPump.
Quiet ==
  IF browser \in MCShared
  THEN /\ hub \in {"up", "down"} /\ cookie[b1] # k2
       /\ \A k \in Tabs : reader[k].pc # "post"
  ELSE /\ cookie[b2] # NoOne => stage[k1] = "on"
       /\ reader[k2].pc # "post" /\ link[k2] # "gone"
       /\ handler[h1] # <<>> => stage[k2] \notin {"page", "upgraded", "starting"}
       /\ hub # "up" => link[k1] # "gone"
       /\ hub \in {"up", "closing"} \/ stage[k2] \notin {"page", "upgraded"}
       /\ reader[k2].pc \in {"off", "check", "read"} \/ writer[k2] = "returned"

\* What is shown to hold, liveness too, is checked with clears, which neither wait
\* nor keep anybody waiting, only of a client without a partner, and not while the
\* process is stopped; nor does the read of an open connection fail then.
FewClears ==
  /\ Quiet /\ Len(handler[h1]) < 3
  /\ hub = "up" \/ \A i \in DOMAIN handler[h1] : handler[h1][i].do = "send"
  /\ hub = "closing" /\ reader[k1].pc \notin {"off", "check", "read", "post"}
       => link[k1] # "open"

=============================================================================
