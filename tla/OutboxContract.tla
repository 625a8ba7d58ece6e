--------------------------- MODULE OutboxContract ---------------------------
(***************************************************************************)
(* What the outbox promises its users, without tables, leases, processes   *)
(* or tools: a committed message is attempted; an attempt puts at most one *)
(* copy on the stream; a message is confirmed only when a copy is there;   *)
(* and an attempt whose outcome is in doubt is never repeated.             *)
(***************************************************************************)
EXTENDS Naturals

CONSTANT Msgs

VARIABLES
  phase,    \* how far a message has come
  armed,    \* whether an attempt may still put its copy on the stream
  copies    \* copies of the message the stream has accepted

contractVars == <<phase, armed, copies>>

Phases == {"none", "queued", "attempted", "doubtful", "confirmed", "abandoned"}

Init ==
  /\ phase \in [Msgs -> {"none", "queued"}]
  /\ armed = [m \in Msgs |-> FALSE]
  /\ copies \in [Msgs -> {0, 1}]
  /\ \A m \in Msgs : phase[m] = "none" => copies[m] = 0

\* A transaction makes its messages visible together.
Queue(S) ==
  /\ \A m \in S : phase[m] = "none"
  /\ phase' = [m \in Msgs |-> IF m \in S THEN "queued" ELSE phase[m]]
  /\ UNCHANGED <<armed, copies>>

Attempt(m) ==
  /\ phase[m] = "queued"
  /\ phase' = [phase EXCEPT ![m] = "attempted"]
  /\ armed' = [armed EXCEPT ![m] = TRUE]
  /\ UNCHANGED copies

Deliver(m) ==
  /\ armed[m]
  /\ copies' = [copies EXCEPT ![m] = @ + 1]
  /\ armed' = [armed EXCEPT ![m] = FALSE]
  /\ UNCHANGED phase

GiveUp(m) ==
  /\ armed[m]
  /\ armed' = [armed EXCEPT ![m] = FALSE]
  /\ UNCHANGED <<phase, copies>>

Doubt(m) ==
  /\ phase[m] \in {"queued", "attempted"} /\ ~armed[m]
  /\ phase' = [phase EXCEPT ![m] = "doubtful"]
  /\ UNCHANGED <<armed, copies>>

Confirm(m) ==
  /\ phase[m] \in {"attempted", "doubtful"} /\ ~armed[m]
  /\ copies[m] >= 1
  /\ phase' = [phase EXCEPT ![m] = "confirmed"]
  /\ UNCHANGED <<armed, copies>>

Abandon(m) ==
  /\ phase[m] = "queued"
  /\ phase' = [phase EXCEPT ![m] = "abandoned"]
  /\ UNCHANGED <<armed, copies>>

Next ==
  \/ \E S \in SUBSET Msgs : Queue(S)
  \/ \E m \in Msgs : \/ Attempt(m) \/ Deliver(m) \/ GiveUp(m)
                     \/ Doubt(m) \/ Confirm(m) \/ Abandon(m)

Spec == Init /\ [][Next]_contractVars
=============================================================================
