----------------------------- MODULE MCNotifier -----------------------------
(* Two overlapping subscriptions of one client, and one of another client. *)
EXTENDS Notifier

CONSTANTS c1, c2, s1, s2, s3

MCSubs == {s1, s2, s3}
MCClients == {c1, c2}
MCChannel == [u \in Subs |-> IF u = s3 THEN c2 ELSE c1]

=============================================================================
