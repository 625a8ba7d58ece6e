--------------------------- MODULE MCOperatorControl ---------------------------
(* Small instances of OperatorControl for TLC. *)
EXTENDS OperatorControl, TLC

CONSTANTS d1, s1, o1, o2, x1, x2, c1, c2, c3

\* The session and the quote outlive the shorter of two possible leases.
OneDeadline == (s1 :> 2)
OneExpiry == (d1 :> 2)

OperatorSymmetry ==
  Permutations(Dispatchers) \cup Permutations(Operators) \cup Permutations(CommandIds)
=============================================================================
