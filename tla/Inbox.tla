-------------------------------- MODULE Inbox --------------------------------
(***************************************************************************)
(* The idempotent inbox: the table message_inbox, the transaction that     *)
(* AuditRepository.message_transaction wraps around a handler, the         *)
(* subscription loop of DurableMessageBus, and the same repository calls   *)
(* used on their own, each in its own transaction.                         *)
(*                                                                         *)
(* A transaction holds the lock of its inbox row from the claim to its end *)
(* and shows nothing before it commits, so its writes are kept in the      *)
(* process until then.  The transport delivers an envelope to any process  *)
(* of a consumer, again and again, until an ACK for it arrives.            *)
(***************************************************************************)
EXTENDS Naturals, FiniteSets

CONSTANTS
  Envelopes,   \* entries of the transport stream
  Msgs,        \* stable message ids
  Bodies,      \* what the inbox compares: topic and SHA-256 of the payload
  MsgOf,       \* the message id an envelope carries
  BodyOf,      \* its topic and payload
  Consumers,   \* durable consumer names, service:group
  Procs,       \* processes that consume
  ConsumerOf,  \* the durable consumer a process works for
  Direct,      \* processes that call the repository without a transaction
  Nobody       \* no envelope, no body

ASSUME InboxConstants ==
  /\ MsgOf \in [Envelopes -> Msgs]
  /\ BodyOf \in [Envelopes -> Bodies]
  /\ ConsumerOf \in [Procs -> Consumers]
  /\ Direct \subseteq Procs
  /\ Nobody \notin Bodies \cup Envelopes

VARIABLES
  stream,   \* envelopes the transport holds
  acked,    \* envelopes each consumer has acknowledged
  inbox,    \* message_inbox, one row per consumer and message id
  proc,     \* what each process is doing
  effects,  \* handler transactions whose audit, business and outbox rows stay
  wins      \* completions of a row that reported success

vars == <<stream, acked, inbox, proc, effects, wins>>

-----------------------------------------------------------------------------
Keys == Consumers \X Msgs
Statuses == {"ABSENT", "PROCESSING", "FAILED", "COMPLETED"}

\* attempts, result and error are never read back by the protocol.
Row == [status : Statuses, body : Bodies \cup {Nobody}, expired : BOOLEAN]
AbsentRow == [status |-> "ABSENT", body |-> Nobody, expired |-> FALSE]

Idle == [pc |-> "idle", env |-> Nobody, asked |-> FALSE]

\* received: holds an envelope; handling: inside message_transaction with a
\* claim; acking: the transaction ended and the transport ACK is due; working:
\* a committed claim without a transaction.
Busy == [pc : {"received", "handling", "acking", "working"}, env : Envelopes,
         asked : BOOLEAN]

\* Statuses, leases, handlers and deliveries have their types.
TypeOK ==
  /\ stream \in SUBSET Envelopes
  /\ acked \in [Consumers -> SUBSET Envelopes]
  /\ inbox \in [Keys -> Row]
  /\ proc \in [Procs -> Busy \cup {Idle}]
  /\ effects \in [Keys -> Nat]
  /\ wins \in [Keys -> Nat]

Init ==
  /\ stream = {}
  /\ acked = [c \in Consumers |-> {}]
  /\ inbox = [k \in Keys |-> AbsentRow]
  /\ proc = [p \in Procs |-> Idle]
  /\ effects = [k \in Keys |-> 0]
  /\ wins = [k \in Keys |-> 0]

\* The row a process works on.
Key(p) == <<ConsumerOf[p], MsgOf[proc[p].env]>>
Body(p) == BodyOf[proc[p].env]

\* A statement on a row waits for the transaction that has it locked.
Unlocked(k) == \A q \in Procs : proc[q].pc = "handling" => Key(q) # k

Become(p, pc) == [proc EXCEPT ![p] = [@ EXCEPT !.pc = pc]]

-----------------------------------------------------------------------------
(***************************************************************************)
(* The transport.                                                          *)
(***************************************************************************)
Arrive(e) ==
  /\ e \notin stream
  /\ stream' = stream \cup {e}
  /\ UNCHANGED <<acked, inbox, proc, effects, wins>>

\* First delivery or redelivery of what this consumer has not acknowledged,
\* even while another process still has it.
Receive(p, e) ==
  /\ proc[p] = Idle
  /\ e \in stream \ acked[ConsumerOf[p]]
  /\ proc' = [proc EXCEPT ![p] = [pc |-> "received", env |-> e, asked |-> FALSE]]
  /\ UNCHANGED <<stream, acked, inbox, effects, wins>>

-----------------------------------------------------------------------------
(***************************************************************************)
(* claim_message.                                                          *)
(***************************************************************************)
\* Faulty variant: a failed message is never tried again.
ClaimableOnce(r) == r.status = "ABSENT" \/ (r.status = "PROCESSING" /\ r.expired)

\* The insert finds no row, or the ON CONFLICT update matches.
Claimable(r) ==
  \/ r.status = "ABSENT"
  \/ r.status = "FAILED"
  \/ r.status = "PROCESSING" /\ r.expired

\* A stored topic or digest that differs raises MessageIdentityConflict; the
\* whole transaction is rolled back and the subscription ends.
SameIdentity(r, b) == r.status = "ABSENT" \/ r.body = b

\* message_transaction claims and opens the savepoint of the handler.
ClaimMessage(p) ==
  /\ p \notin Direct /\ proc[p].pc = "received" /\ Unlocked(Key(p))
  /\ Claimable(inbox[Key(p)])
  /\ SameIdentity(inbox[Key(p)], Body(p))
  /\ proc' = Become(p, "handling")
  /\ UNCHANGED <<stream, acked, inbox, effects, wins>>

\* Faulty variant: every message that cannot be claimed is acknowledged.
AckDuplicateUnclaimed(p) ==
  /\ p \notin Direct /\ proc[p].pc = "received" /\ Unlocked(Key(p))
  /\ ~Claimable(inbox[Key(p)])
  /\ SameIdentity(inbox[Key(p)], Body(p))
  /\ proc' = Become(p, "acking")
  /\ UNCHANGED <<stream, acked, inbox, effects, wins>>

\* A completed duplicate is acknowledged without running the handler.
AckDuplicate(p) ==
  /\ p \notin Direct /\ proc[p].pc = "received" /\ Unlocked(Key(p))
  /\ inbox[Key(p)].status = "COMPLETED"
  /\ SameIdentity(inbox[Key(p)], Body(p))
  /\ proc' = Become(p, "acking")
  /\ UNCHANGED <<stream, acked, inbox, effects, wins>>

\* A live lease of someone else, or an identity conflict: nothing is done and
\* nothing is acknowledged.
RefuseMessage(p) ==
  /\ proc[p].pc = "received" /\ Unlocked(Key(p))
  /\ \/ inbox[Key(p)].status = "PROCESSING" /\ ~inbox[Key(p)].expired
     \/ ~SameIdentity(inbox[Key(p)], Body(p))
     \/ p \in Direct /\ inbox[Key(p)].status = "COMPLETED"
  /\ proc' = [proc EXCEPT ![p] = Idle]
  /\ UNCHANGED <<stream, acked, inbox, effects, wins>>

-----------------------------------------------------------------------------
(***************************************************************************)
(* The handler inside message_transaction.  The audit row of the payload,  *)
(* its business writes and the outbox rows of DurableMessageBus.publish    *)
(* all use the connection of the claim.                                    *)
(***************************************************************************)
\* DurableMessageBus.ack records the wish only; a second call raises.
RequestAck(p) ==
  /\ proc[p].pc = "handling" /\ ~proc[p].asked
  /\ proc' = [proc EXCEPT ![p] = [@ EXCEPT !.asked = TRUE]]
  /\ UNCHANGED <<stream, acked, inbox, effects, wins>>

\* complete() and the commit of everything; its answer may be lost.
CompleteDelivery(p) ==
  /\ proc[p].pc = "handling" /\ proc[p].asked
  /\ inbox' = [inbox EXCEPT ![Key(p)] =
                 [status |-> "COMPLETED", body |-> Body(p), expired |-> FALSE]]
  /\ effects' = [effects EXCEPT ![Key(p)] = @ + 1]
  /\ wins' = [wins EXCEPT ![Key(p)] = @ + 1]
  /\ \/ proc' = Become(p, "acking")
     \/ proc' = [proc EXCEPT ![p] = Idle]
  /\ UNCHANGED <<stream, acked>>

\* Faulty variant: the writes of a failed handler are committed with FAILED.
FailDeliveryKeepsWrites(p) ==
  /\ proc[p].pc = "handling"
  /\ inbox' = [inbox EXCEPT ![Key(p)] =
                 [status |-> "FAILED", body |-> Body(p), expired |-> FALSE]]
  /\ effects' = [effects EXCEPT ![Key(p)] = @ + 1]
  /\ proc' = [proc EXCEPT ![p] = Idle]
  /\ UNCHANGED <<stream, acked, wins>>

\* An exception inside the savepoint, the missing ACK request included: the
\* writes are rolled back and FAILED is committed.
FailDelivery(p) ==
  /\ proc[p].pc = "handling"
  /\ inbox' = [inbox EXCEPT ![Key(p)] =
                 [status |-> "FAILED", body |-> Body(p), expired |-> FALSE]]
  /\ proc' = [proc EXCEPT ![p] = Idle]
  /\ UNCHANGED <<stream, acked, effects, wins>>

\* transport.ack after the transaction; the call may fail.
TransportAck(p) ==
  /\ proc[p].pc = "acking"
  /\ \/ acked' = [acked EXCEPT ![ConsumerOf[p]] = @ \cup {proc[p].env}]
     \/ UNCHANGED acked
  /\ proc' = [proc EXCEPT ![p] = Idle]
  /\ UNCHANGED <<stream, inbox, effects, wins>>

\* Cancellation, a closed generator, a lost connection or a dead process: an
\* open transaction is rolled back, the claim included.
Abort(p) ==
  /\ proc[p] # Idle
  /\ proc' = [proc EXCEPT ![p] = Idle]
  /\ UNCHANGED <<stream, acked, inbox, effects, wins>>

-----------------------------------------------------------------------------
(***************************************************************************)
(* The repository calls on their own: the claim is committed before the    *)
(* work starts, and complete_message and fail_message know no owner.       *)
(***************************************************************************)
DirectClaim(p) ==
  /\ p \in Direct /\ proc[p].pc = "received" /\ Unlocked(Key(p))
  /\ Claimable(inbox[Key(p)])
  /\ SameIdentity(inbox[Key(p)], Body(p))
  /\ inbox' = [inbox EXCEPT ![Key(p)] =
                 [status |-> "PROCESSING", body |-> Body(p), expired |-> FALSE]]
  /\ proc' = Become(p, "working")
  /\ UNCHANGED <<stream, acked, effects, wins>>

\* complete_message; a caller that is told False must not acknowledge.
CompleteMessage(p) ==
  /\ proc[p].pc = "working" /\ Unlocked(Key(p))
  /\ \/ /\ inbox[Key(p)].status = "PROCESSING"
        /\ inbox' = [inbox EXCEPT ![Key(p)] = [@ EXCEPT !.status = "COMPLETED"]]
        /\ wins' = [wins EXCEPT ![Key(p)] = @ + 1]
        /\ proc' = Become(p, "acking")
     \/ /\ inbox[Key(p)].status # "PROCESSING"
        /\ proc' = [proc EXCEPT ![p] = Idle]
        /\ UNCHANGED <<inbox, wins>>
  /\ UNCHANGED <<stream, acked, effects>>

FailMessage(p) ==
  /\ proc[p].pc = "working" /\ Unlocked(Key(p))
  /\ IF inbox[Key(p)].status = "PROCESSING"
     THEN inbox' = [inbox EXCEPT ![Key(p)] = [@ EXCEPT !.status = "FAILED"]]
     ELSE UNCHANGED inbox
  /\ proc' = [proc EXCEPT ![p] = Idle]
  /\ UNCHANGED <<stream, acked, effects, wins>>

\* lease_until < now().
LeaseExpires(k) ==
  /\ inbox[k].status = "PROCESSING" /\ ~inbox[k].expired
  /\ inbox' = [inbox EXCEPT ![k] = [@ EXCEPT !.expired = TRUE]]
  /\ UNCHANGED <<stream, acked, proc, effects, wins>>

-----------------------------------------------------------------------------
Next ==
  \/ \E e \in Envelopes : Arrive(e)
  \/ \E p \in Procs, e \in Envelopes : Receive(p, e)
  \/ \E p \in Procs :
       \/ ClaimMessage(p) \/ AckDuplicate(p) \/ RefuseMessage(p)
       \/ RequestAck(p)
       \/ CompleteDelivery(p) \/ FailDelivery(p) \/ TransportAck(p)
       \/ DirectClaim(p) \/ CompleteMessage(p) \/ FailMessage(p)
       \/ Abort(p)
  \/ \E k \in Keys : LeaseExpires(k)

Spec == Init /\ [][Next]_vars

\* A try that comes to nothing: cancelled, failed, its commit or ACK lost.
Fault(p) ==
  /\ proc[p].pc \in {"received", "handling", "acking"} /\ proc'[p] = Idle
  /\ proc[p].env \notin acked'[ConsumerOf[p]]
  /\ ~RefuseMessage(p)

\* What a subscription loop and its handler do when nothing fails.
Proceed(p) ==
  \/ ClaimMessage(p) \/ AckDuplicate(p) \/ RefuseMessage(p)
  \/ RequestAck(p) \/ CompleteDelivery(p) \/ TransportAck(p)

\* The transport redelivers until the ACK, the loops keep running, leases run
\* out, and faults of the bus processes stop at some time; a process that uses
\* the repository on its own may die with its claim, but not claim for ever.
FairSpec ==
  /\ Spec
  /\ \A p \in Procs \ Direct : WF_vars(Proceed(p))
  /\ \A e \in Envelopes : SF_vars(\E p \in Procs \ Direct : Receive(p, e))
  /\ \A k \in Keys : WF_vars(LeaseExpires(k))
  /\ <>[][\A p \in Procs : ~DirectClaim(p) /\ (p \notin Direct => ~Fault(p))]_vars

-----------------------------------------------------------------------------
(***************************************************************************)
(* Properties.                                                             *)
(***************************************************************************)

\* Exactly-once effects: however often an envelope is delivered, to however
\* many replicas, through crashes, failures and lost commit answers, at most
\* one handler transaction leaves its writes, and only a completed one does.
EffectsOnce ==
  \A k \in Keys : /\ effects[k] <= 1
                  /\ effects[k] = 1 => inbox[k].status = "COMPLETED"

\* ACK after commit: an envelope the transport may forget has been completed,
\* under the topic and payload this very envelope carries.
AckedIsCompleted ==
  \A c \in Consumers : \A e \in acked[c] :
    /\ inbox[<<c, MsgOf[e]>>].status = "COMPLETED"
    /\ inbox[<<c, MsgOf[e]>>].body = BodyOf[e]

\* Of all processes that claimed a message, stale owners of an expired lease
\* included, at most one is told that its completion counted.
OneWinner == \A k \in Keys : wins[k] <= 1

\* A completed row is never reopened, and a row never changes the topic and
\* payload its first claim gave it.
CompletedIsFinal ==
  [][\A k \in Keys :
       /\ inbox[k].status = "COMPLETED" => inbox'[k] = inbox[k]
       /\ inbox[k].status # "ABSENT" => inbox'[k].body = inbox[k].body]_vars

\* Nothing is lost: an envelope on the stream is eventually acknowledged, or
\* its message id was taken by a different topic or payload.
EventuallyAcked ==
  \A p \in Procs \ Direct, e \in Envelopes :
    LET k == <<ConsumerOf[p], MsgOf[e]>>
    IN  e \in stream ~> \/ e \in acked[ConsumerOf[p]]
                        \/ inbox[k].status # "ABSENT" /\ inbox[k].body # BodyOf[e]

-----------------------------------------------------------------------------
(***************************************************************************)
(* The inductive invariant.                                                *)
(***************************************************************************)

\* Row locks work: no two transactions have claimed one row.
LockInv ==
  \A p, q \in Procs : (p # q /\ proc[p].pc = "handling" /\ proc[q].pc = "handling")
                        => Key(p) # Key(q)

\* What a process may rely on while it is busy with a row.
ProcGood(p) ==
  /\ proc[p].pc = "handling" => /\ inbox[Key(p)].status # "COMPLETED"
                                /\ SameIdentity(inbox[Key(p)], Body(p))
  /\ proc[p].pc = "working" => /\ inbox[Key(p)].status # "ABSENT"
                               /\ inbox[Key(p)].body = Body(p)
  /\ proc[p].pc = "acking" => /\ inbox[Key(p)].status = "COMPLETED"
                              /\ inbox[Key(p)].body = Body(p)

ProcInv == \A p \in Procs : ProcGood(p)

\* Completions account for effects.
WinInv ==
  \A k \in Keys : /\ effects[k] <= wins[k]
                  /\ wins[k] = IF inbox[k].status = "COMPLETED" THEN 1 ELSE 0

InboxInv == TypeOK /\ LockInv /\ ProcInv /\ WinInv /\ AckedIsCompleted
=============================================================================
