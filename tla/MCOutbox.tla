------------------------------ MODULE MCOutbox ------------------------------
(* Small instances of Outbox for TLC. *)
EXTENDS OutboxImplements, TLC

CONSTANTS m1, m2, m3, p1, p2, w1, w2, d1, d2, t1, t2, r1

\* Two application connections and two dispatcher replicas of one service.
OneService == (w1 :> p1) @@ (w2 :> p1) @@ (d1 :> p1) @@ (d2 :> p1)
\* One connection and one dispatcher.
OneReplica == (w1 :> p1) @@ (d1 :> p1)
NoLegacy == [m \in {} |-> 0]
OldRow == m1 :> 1
TwoOldRows == (m1 :> 1) @@ (m2 :> 2)

RecoverySymmetry == Permutations({t1, t2})
=============================================================================
