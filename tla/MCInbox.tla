------------------------------- MODULE MCInbox -------------------------------
(* Small instances of Inbox for TLC. *)
EXTENDS Inbox, TLC

CONSTANTS e1, e2, e3, m1, b1, b2, c1, p1, p2, d1

\* Two copies of one message and its id reused with another payload.
ReusedId == (e1 :> m1) @@ (e2 :> m1) @@ (e3 :> m1)
ReusedBody == (e1 :> b1) @@ (e2 :> b1) @@ (e3 :> b2)
\* Every process works for one durable consumer.
OneStandalone == (p1 :> c1) @@ (p2 :> c1) @@ (d1 :> c1)
=============================================================================
