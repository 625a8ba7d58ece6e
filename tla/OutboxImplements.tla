-------------------------- MODULE OutboxImplements --------------------------
(* The outbox of the code implements OutboxContract. *)
EXTENDS Outbox

\* How the columns of a row encode the phase of its message.
RowPhase(r) ==
  CASE r.place # "table" -> "none"
    [] r.place = "table" /\ r.published -> "confirmed"
    [] r.place = "table" /\ ~r.published /\ r.dead -> "abandoned"
    [] r.place = "table" /\ ~r.published /\ ~r.dead ->
         CASE r.state = "NONE" -> "queued"
           [] r.state = "PUBLISHING" -> "attempted"
           [] OTHER -> "doubtful"

phaseBar == [m \in Msgs |-> RowPhase(rows[m])]

\* A claim arms one delivery; the transport call, or the end of the process
\* that holds the claim, uses it up.
armedBar == [m \in Msgs |-> \E a \in Agents : /\ agent[a].pc = "claimed"
                                             /\ agent[a].msg = m]

Contract == INSTANCE OutboxContract
              WITH phase <- phaseBar, armed <- armedBar, copies <- accepted

\* The table, the dispatchers and the offline tools together behave as the
\* contract says: every step of theirs is a step of OutboxContract or invisible.
ImplementsContract == Contract!Spec
=============================================================================
