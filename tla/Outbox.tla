------------------------------- MODULE Outbox -------------------------------
(***************************************************************************)
(* The transactional outbox of kairos_persistence: the table               *)
(* message_outbox, the transactions that insert into it, the dispatcher    *)
(* task of DurableMessageBus, and the offline operator tools (exact drain, *)
(* exact reconciliation, quarantine, resolution from Redis evidence).      *)
(*                                                                         *)
(* One TLA+ step is one committed SQL statement or transaction, one        *)
(* transport call, or one externally visible passage of time.  A rejected  *)
(* operation changes nothing in the code and is a stuttering step here.    *)
(* Topics, payload bytes, timestamps and error texts are abstracted to     *)
(* what the guards tell apart.                                             *)
(***************************************************************************)
EXTENDS Naturals, FiniteSets

CONSTANTS
  Msgs,          \* stable message ids
  Producers,     \* logical producers (service names)
  Writers,       \* connections on which application transactions run
  Workers,       \* dispatcher tasks of DurableMessageBus instances
  Tools,         \* runs of the offline drain / reconciliation tools
  ToolIds,       \* reconciliation ids the operators choose
  Service,       \* the service each writer and each worker belongs to
  Legacy,        \* messages whose rows predate migration 018
  LegacyId,      \* the ids of those rows
  FirstId,       \* next value of the BIGSERIAL sequence
  MaxId,         \* bound: the largest id the sequence may hand out
  Aged,          \* messages old enough for the retention of event_audit
  Corrupt,       \* messages whose stored JSONB no longer hashes to its digest
  AttemptLimits, \* max_attempts arguments of fail_outbox
  NoOne          \* SQL NULL for lease_owner and reconciliation_id

ASSUME OutboxConstants ==
  /\ Service \in [Writers \cup Workers -> Producers]
  /\ Legacy \subseteq Msgs
  /\ FirstId \in Nat /\ MaxId \in Nat
  /\ LegacyId \in [Legacy -> Nat]
  /\ \A m \in Legacy : LegacyId[m] < FirstId
  /\ \A m, k \in Legacy : LegacyId[m] = LegacyId[k] => m = k
  /\ AttemptLimits \subseteq Nat
  /\ Workers \cap Tools = {}
  /\ NoOne \notin Writers \cup Workers \cup ToolIds \cup {"legacy-worker"}
  /\ NoOne \notin {"dispatch"} \X Nat

VARIABLES
  rows,      \* message_outbox, one row per message id
  nextId,    \* the id sequence; a rolled back insert leaves a gap
  txn,       \* the rows each writer has inserted and not yet committed
  before,    \* history: the rows a message causally follows
  nonce,     \* number of uuid4 reconciliation ids drawn so far
  agent,     \* what each dispatcher and tool process holds in memory
  accepted   \* how many copies of a message the Redis stream accepted

vars == <<rows, nextId, txn, before, nonce, agent, accepted>>

-----------------------------------------------------------------------------
Agents == Workers \cup Tools

\* The values of reconciliation_state (migration 018).
RecStates == {"NONE", "PUBLISHING", "PUBLISH_OUTCOME_UNKNOWN", "ACKNOWLEDGED"}

\* reconciliation_id: "dispatch:<uuid4>" or an id an operator chose.
DispatchId(n) == <<"dispatch", n>>
RecIds == ToolIds \cup ({"dispatch"} \X Nat)

Owners == Workers \cup ToolIds \cup {"legacy-worker"}

\* last_error: absent, a bounded category, or a text so long that wrapping it
\* into a resolution record exceeds the 4000 bytes the column may hold.
Errors == {"none", "short", "long"}

\* A row.  place says whether the row is visible to other transactions.
Row == [place : {"absent", "open", "table"},
        id : Nat,
        producer : Producers \cup {NoOne},
        hashed : BOOLEAN,            \* payload_sha256 IS NOT NULL
        audited : BOOLEAN,           \* exactly one matching event_audit row
        attempts : Nat,
        state : RecStates,
        rid : {NoOne} \cup RecIds,
        owner : Owners \cup {NoOne},
        expired : BOOLEAN,           \* lease_until < now()
        available : BOOLEAN,         \* available_at <= now()
        published : BOOLEAN,
        dead : BOOLEAN,
        error : Errors]

AbsentRow ==
  [place |-> "absent", id |-> 0, producer |-> NoOne, hashed |-> FALSE,
   audited |-> FALSE, attempts |-> 0, state |-> "NONE", rid |-> NoOne,
   owner |-> NoOne, expired |-> FALSE, available |-> FALSE,
   published |-> FALSE, dead |-> FALSE, error |-> "none"]

NewRow(id, p) ==
  [place |-> "open", id |-> id, producer |-> p, hashed |-> TRUE,
   audited |-> TRUE, attempts |-> 0, state |-> "NONE", rid |-> NoOne,
   owner |-> NoOne, expired |-> FALSE, available |-> TRUE,
   published |-> FALSE, dead |-> FALSE, error |-> "none"]

\* The rows an older release may have left behind: claimed under a lease, put
\* back for a later retry, or never fingerprinted.
LegacyShapes == {"leased", "backoff", "unhashed"}
LegacyRow(id, p, shape) ==
  [place |-> "table", id |-> id, producer |-> p,
   hashed |-> IF shape = "unhashed" THEN FALSE ELSE TRUE,
   audited |-> TRUE,
   attempts |-> IF shape = "unhashed" THEN 0 ELSE 1,
   state |-> "NONE", rid |-> NoOne,
   owner |-> IF shape = "leased" THEN "legacy-worker" ELSE NoOne,
   expired |-> FALSE,
   available |-> IF shape = "backoff" THEN FALSE ELSE TRUE,
   published |-> FALSE, dead |-> FALSE,
   error |-> IF shape = "backoff" THEN "short" ELSE "none"]

\* The in-memory record of a claim (OutboxRecord, OfflineOutboxClaim).
Idle == [pc |-> "idle", msg |-> NoOne, attempts |-> 0, rid |-> NoOne,
         hashed |-> FALSE]
Claim == [pc : {"claimed", "acking", "marking"}, msg : Msgs, attempts : Nat,
          rid : RecIds, hashed : BOOLEAN]

\* Rows, claims, agents and the stream have their types.
TypeOK ==
  /\ rows \in [Msgs -> Row]
  /\ nextId \in Nat
  /\ txn \in [Writers -> SUBSET Msgs]
  /\ before \in [Msgs -> SUBSET Msgs]
  /\ nonce \in Nat
  /\ agent \in [Agents -> Claim \cup {Idle}]
  /\ accepted \in [Msgs -> Nat]

Init ==
  /\ \E p \in [Legacy -> Producers], shape \in [Legacy -> LegacyShapes] :
       rows = [m \in Msgs |-> IF m \in Legacy
                              THEN LegacyRow(LegacyId[m], p[m], shape[m])
                              ELSE AbsentRow]
  /\ accepted \in [Msgs -> {0, 1}]
  /\ \A m \in Msgs : accepted[m] <= rows[m].attempts
  /\ nextId = FirstId
  /\ txn = [w \in Writers |-> {}]
  /\ before = [m \in Msgs |-> {}]
  /\ nonce = 0
  /\ agent = [a \in Agents |-> Idle]

-----------------------------------------------------------------------------
(***************************************************************************)
(* Application transactions.  enqueue_outbox draws the id when it inserts, *)
(* and the row becomes visible when the surrounding transaction commits;   *)
(* an exception, a cancellation or a lost connection rolls it back.        *)
(***************************************************************************)
InTable(m) == rows[m].place = "table"

\* A duplicate enqueue of identical content returns False and one of different
\* content raises MessageIdentityConflict, which ends in Rollback; an insert of
\* an id that another transaction holds open waits for that transaction.
EnqueueOutbox(w, m) ==
  /\ rows[m].place = "absent"
  /\ nextId <= MaxId
  /\ rows' = [rows EXCEPT ![m] = NewRow(nextId, Service[w])]
  /\ nextId' = nextId + 1
  /\ txn' = [txn EXCEPT ![w] = @ \cup {m}]
  /\ before' = [before EXCEPT ![m] = {k \in Msgs : InTable(k)} \cup txn[w]]
  /\ UNCHANGED <<nonce, agent, accepted>>

\* A duplicate enqueue writes the fingerprint an old row lacks, whatever the
\* row's delivery state.  Its transaction changes nothing else about the row,
\* so the step is taken where the transaction commits.
BackfillFingerprint(w, m) ==
  /\ InTable(m)
  /\ rows[m].producer = Service[w]
  /\ ~rows[m].hashed
  /\ rows' = [rows EXCEPT ![m].hashed = TRUE]
  /\ UNCHANGED <<nextId, txn, before, nonce, agent, accepted>>

Commit(w) ==
  /\ txn[w] # {}
  /\ rows' = [m \in Msgs |-> IF m \in txn[w]
                             THEN [rows[m] EXCEPT !.place = "table"]
                             ELSE rows[m]]
  /\ txn' = [txn EXCEPT ![w] = {}]
  /\ UNCHANGED <<nextId, before, nonce, agent, accepted>>

Rollback(w) ==
  /\ txn[w] # {}
  /\ rows' = [m \in Msgs |-> IF m \in txn[w] THEN AbsentRow ELSE rows[m]]
  /\ before' = [m \in Msgs |-> IF m \in txn[w] THEN {} ELSE before[m]]
  /\ txn' = [txn EXCEPT ![w] = {}]
  /\ UNCHANGED <<nextId, nonce, agent, accepted>>

-----------------------------------------------------------------------------
(***************************************************************************)
(* Claims.  Every claim commits PUBLISHING and the next attempt number     *)
(* before its process may touch the transport.                             *)
(***************************************************************************)
Unsettled(m) == ~rows[m].published /\ ~rows[m].dead

\* Faulty variant: an ambiguous predecessor does not block its successors.
IsHeadIgnoringUnknown(m) ==
  \A k \in Msgs : (/\ InTable(k)
                   /\ rows[k].producer = rows[m].producer
                   /\ rows[k].id < rows[m].id
                   /\ rows[k].state # "PUBLISH_OUTCOME_UNKNOWN") => ~Unsettled(k)

\* Faulty variant: a dead-lettered predecessor blocks its successors.
IsHeadBehindDead(m) ==
  \A k \in Msgs : (/\ InTable(k)
                   /\ rows[k].producer = rows[m].producer
                   /\ rows[k].id < rows[m].id) => rows[k].published

\* No visible earlier row of the same producer is unpublished and alive.
IsHead(m) ==
  \A k \in Msgs : (/\ InTable(k)
                   /\ rows[k].producer = rows[m].producer
                   /\ rows[k].id < rows[m].id) => ~Unsettled(k)

ClaimRow(a, m, owner, rid) ==
  /\ agent[a] = Idle
  /\ rows' = [rows EXCEPT ![m] =
                [@ EXCEPT !.owner = owner, !.expired = FALSE,
                          !.attempts = rows[m].attempts + 1,
                          !.state = "PUBLISHING", !.rid = rid,
                          !.error = "none"]]
  /\ agent' = [agent EXCEPT ![a] =
                 [pc |-> "claimed", msg |-> m,
                  attempts |-> rows[m].attempts + 1, rid |-> rid,
                  hashed |-> rows[m].hashed]]
  /\ UNCHANGED <<nextId, txn, before, accepted>>

\* Faulty variant: the lease protocol of an at-least-once outbox, in which a
\* dispatcher takes over a claim whose lease has run out.
ClaimOutboxOnExpiry(a, m) ==
  /\ InTable(m) /\ Unsettled(m)
  /\ rows[m].producer = Service[a]
  /\ rows[m].state \in {"NONE", "PUBLISHING"}
  /\ rows[m].available
  /\ rows[m].owner = NoOne \/ rows[m].expired
  /\ IsHead(m)
  /\ ClaimRow(a, m, a, DispatchId(nonce))
  /\ nonce' = nonce + 1

\* claim_outbox: SKIP LOCKED and LIMIT LEAST(limit, 1) give at most one head.
ClaimOutbox(a, m) ==
  /\ InTable(m) /\ Unsettled(m)
  /\ rows[m].producer = Service[a]
  /\ rows[m].state = "NONE"
  /\ rows[m].attempts = 0
  /\ rows[m].available
  /\ rows[m].owner = NoOne
  /\ IsHead(m)
  /\ ClaimRow(a, m, a, DispatchId(nonce))
  /\ nonce' = nonce + 1

\* _validate_exact_offline_outbox without its lease rule: the identity names
\* a row with a fingerprint, the payload still hashes to it, and exactly one
\* matching audit row survives.
ExactRow(m) ==
  /\ InTable(m) /\ Unsettled(m)
  /\ rows[m].hashed
  /\ m \notin Corrupt
  /\ rows[m].audited

\* Faulty variant: the reconciliation state is not looked at.
ExactClaimableAnyState(m) ==
  /\ ExactRow(m)
  /\ rows[m].available
  /\ IsHead(m)

ExactClaimable(m) ==
  /\ ExactRow(m)
  /\ rows[m].available
  /\ rows[m].state = "NONE"
  /\ IsHead(m)

LeaseExpired(m) == rows[m].owner # NoOne /\ rows[m].expired

ClaimReadyOutboxExact(a, m, rid) ==
  /\ ExactClaimable(m)
  /\ rows[m].owner = NoOne
  /\ ClaimRow(a, m, rid, rid)
  /\ UNCHANGED nonce

ClaimExpiredOutboxExact(a, m, rid) ==
  /\ ExactClaimable(m)
  /\ LeaseExpired(m)
  /\ ClaimRow(a, m, rid, rid)
  /\ UNCHANGED nonce

-----------------------------------------------------------------------------
(***************************************************************************)
(* One claimed row: hash check, one transport call, durable outcome.  Each *)
(* database or transport call may take effect and still raise (timeout,    *)
(* cancellation, lost connection), or raise without effect.                *)
(***************************************************************************)
Goto(a, pc) == agent' = [agent EXCEPT ![a].pc = pc]
Release(a) == agent' = [agent EXCEPT ![a] = Idle]

\* PRE_PUBLISH_HASH_MISMATCH: the dispatcher never sends such a payload.
RejectPayload(a) ==
  /\ a \in Workers
  /\ agent[a].pc = "claimed"
  /\ ~agent[a].hashed \/ agent[a].msg \in Corrupt
  /\ Goto(a, "marking")
  /\ UNCHANGED <<rows, nextId, txn, before, nonce, accepted>>

\* Faulty variant: the dispatcher sends what has no digest or not its own.
PublishUnchecked(a) ==
  /\ agent[a].pc = "claimed"
  /\ \/ /\ accepted' = [accepted EXCEPT ![agent[a].msg] = @ + 1]
        /\ \/ Goto(a, "acking")
           \/ Goto(a, "marking")
     \/ /\ Goto(a, "marking")
        /\ UNCHANGED accepted
  /\ UNCHANGED <<rows, nextId, txn, before, nonce>>

\* transport.publish / publisher(topic, payload).
Publish(a) ==
  /\ agent[a].pc = "claimed"
  /\ a \in Workers => agent[a].hashed /\ agent[a].msg \notin Corrupt
  /\ \/ /\ accepted' = [accepted EXCEPT ![agent[a].msg] = @ + 1]
        /\ \/ Goto(a, "acking")
           \/ Goto(a, "marking")
     \/ /\ Goto(a, "marking")
        /\ UNCHANGED accepted
  /\ UNCHANGED <<rows, nextId, txn, before, nonce>>

\* The WHERE clause of the four outcome updates: the row still is the exact
\* durable claim this process was given.
HoldsClaim(a) ==
  LET c == agent[a]
      r == rows[c.msg]
  IN  /\ r.place = "table" /\ ~r.published /\ ~r.dead
      /\ r.hashed = c.hashed
      /\ r.attempts = c.attempts
      /\ r.rid = c.rid
      /\ r.state = "PUBLISHING"
      /\ a \in Workers => r.owner = a

\* mark_published / acknowledge_exact_outbox_publish.
Acknowledge(a) ==
  /\ agent[a].pc = "acking"
  /\ \/ /\ HoldsClaim(a)
        /\ rows' = [rows EXCEPT ![agent[a].msg] =
                      [@ EXCEPT !.published = TRUE, !.owner = NoOne,
                                !.expired = FALSE, !.error = "none",
                                !.state = "ACKNOWLEDGED"]]
        /\ \/ Release(a)
           \/ Goto(a, "marking")
     \/ /\ Goto(a, "marking")
        /\ UNCHANGED rows
  /\ UNCHANGED <<nextId, txn, before, nonce, accepted>>

\* mark_outbox_publish_outcome_unknown and its exact variant; the callers give
\* up after one try, so a failed update leaves the row PUBLISHING.
MarkOutcomeUnknown(a) ==
  /\ agent[a].pc = "marking"
  /\ \/ /\ HoldsClaim(a)
        /\ rows' = [rows EXCEPT ![agent[a].msg] =
                      [@ EXCEPT !.owner = NoOne, !.expired = FALSE,
                                !.error = "short",
                                !.state = "PUBLISH_OUTCOME_UNKNOWN"]]
     \/ UNCHANGED rows
  /\ Release(a)
  /\ UNCHANGED <<nextId, txn, before, nonce, accepted>>

\* A process dies between any two of these calls and forgets its claim.
Crash(a) ==
  /\ agent[a] # Idle
  /\ Release(a)
  /\ UNCHANGED <<rows, nextId, txn, before, nonce, accepted>>

-----------------------------------------------------------------------------
(***************************************************************************)
(* Operator primitives that never call the transport.                      *)
(***************************************************************************)
\* quarantine_expired_outbox_exact; the reason may use up the error column.
QuarantineExpiredOutboxExact(m, rid, reason) ==
  /\ ExactRow(m)
  /\ rows[m].state = "NONE"
  /\ rows[m].available
  /\ LeaseExpired(m)
  /\ rows' = [rows EXCEPT ![m] =
                [@ EXCEPT !.owner = NoOne, !.expired = FALSE,
                          !.error = reason, !.rid = rid,
                          !.state = "PUBLISH_OUTCOME_UNKNOWN"]]
  /\ UNCHANGED <<nextId, txn, before, nonce, agent, accepted>>

\* Faulty variant: absence from the stream counts as evidence too.
ResolveUnknownOutboxAnyCount(m, rid, matches) ==
  /\ matches <= 1
  /\ InTable(m) /\ rows[m].rid = rid
  /\ rows[m].state = "PUBLISH_OUTCOME_UNKNOWN"
  /\ rows' = [rows EXCEPT ![m] =
                [@ EXCEPT !.published = TRUE, !.error = "long",
                          !.state = "ACKNOWLEDGED"]]
  /\ UNCHANGED <<nextId, txn, before, nonce, agent, accepted>>

\* The row that resolution accepts, whatever the probe found: the payload and the
\* one audit row still hash to the digest, and the reason fits into the record.
Resolvable(m, rid) ==
  /\ InTable(m) /\ rows[m].hashed /\ m \notin Corrupt /\ rows[m].audited
  /\ rows[m].rid = rid
  /\ rows[m].state = "PUBLISH_OUTCOME_UNKNOWN"
  /\ Unsettled(m) /\ rows[m].owner = NoOne
  /\ rows[m].error = "short"

\* resolve_unknown_outbox_from_redis_evidence.  The stream may have been
\* trimmed and the probe may be old, so the evidence counts any number of
\* matches up to the copies ever accepted; only a unique match acknowledges.
ResolveUnknownOutbox(m, rid, matches) ==
  /\ matches = 1
  /\ Resolvable(m, rid)
  /\ rows' = [rows EXCEPT ![m] =
                [@ EXCEPT !.published = TRUE, !.error = "long",
                          !.state = "ACKNOWLEDGED"]]
  /\ UNCHANGED <<nextId, txn, before, nonce, agent, accepted>>

\* fail_outbox: only a lease of the older protocol (state NONE) can match.
FailOutbox(m, limit) ==
  /\ InTable(m)
  /\ rows[m].owner # NoOne
  /\ ~rows[m].published
  /\ rows[m].state = "NONE"
  /\ rows' = [rows EXCEPT ![m] =
                [@ EXCEPT !.owner = NoOne, !.expired = FALSE,
                          !.available = FALSE, !.error = "short",
                          !.dead = rows[m].attempts >= limit]]
  /\ UNCHANGED <<nextId, txn, before, nonce, agent, accepted>>

-----------------------------------------------------------------------------
(***************************************************************************)
(* Time and retention.                                                     *)
(***************************************************************************)
LeaseExpires(m) ==
  /\ rows[m].owner # NoOne /\ ~rows[m].expired
  /\ rows' = [rows EXCEPT ![m].expired = TRUE]
  /\ UNCHANGED <<nextId, txn, before, nonce, agent, accepted>>

BecomesAvailable(m) ==
  /\ InTable(m) /\ ~rows[m].available
  /\ rows' = [rows EXCEPT ![m].available = TRUE]
  /\ UNCHANGED <<nextId, txn, before, nonce, agent, accepted>>

\* add_retention_policy('event_audit', INTERVAL '365 days').
AuditRetention(m) ==
  /\ m \in Aged /\ InTable(m) /\ rows[m].audited
  /\ rows' = [rows EXCEPT ![m].audited = FALSE]
  /\ UNCHANGED <<nextId, txn, before, nonce, agent, accepted>>

-----------------------------------------------------------------------------
Transactions ==
  \E w \in Writers : \/ \E m \in Msgs : \/ EnqueueOutbox(w, m)
                                        \/ BackfillFingerprint(w, m)
                     \/ Commit(w)
                     \/ Rollback(w)

\* One turn of the loop of _dispatch_outbox.
Dispatch(a) ==
  \/ \E m \in Msgs : ClaimOutbox(a, m)
  \/ RejectPayload(a)
  \/ Publish(a)
  \/ Acknowledge(a)
  \/ MarkOutcomeUnknown(a)

\* drain_exact and the exact reconciler.
ToolStep(a) ==
  \/ \E m \in Msgs, rid \in ToolIds : \/ ClaimReadyOutboxExact(a, m, rid)
                                      \/ ClaimExpiredOutboxExact(a, m, rid)
  \/ Publish(a)
  \/ Acknowledge(a)
  \/ MarkOutcomeUnknown(a)

Operator ==
  \E m \in Msgs :
    \/ \E rid \in ToolIds, reason \in {"short", "long"} :
         QuarantineExpiredOutboxExact(m, rid, reason)
    \/ \E rid \in ToolIds \cup {DispatchId(n) : n \in 0..nonce}, k \in 0..accepted[m] :
         ResolveUnknownOutbox(m, rid, k)
    \/ \E limit \in AttemptLimits : FailOutbox(m, limit)

Environment ==
  \/ \E m \in Msgs : LeaseExpires(m) \/ BecomesAvailable(m) \/ AuditRetention(m)
  \/ \E a \in Agents : Crash(a)

Next ==
  \/ Transactions
  \/ \E a \in Workers : Dispatch(a)
  \/ \E a \in Tools : ToolStep(a)
  \/ Operator
  \/ Environment

\* The dispatcher task polls forever and a transaction ends; nothing obliges
\* an operator to run a tool.
Fairness ==
  /\ \A a \in Workers : WF_vars(Dispatch(a))
  /\ \A w \in Writers : WF_vars(Commit(w) \/ Rollback(w))

Spec == Init /\ [][Next]_vars
FairSpec == Spec /\ Fairness

-----------------------------------------------------------------------------
(***************************************************************************)
(* Properties.                                                             *)
(***************************************************************************)

\* Fail-closed delivery: across dispatcher replicas, crashes, lost answers and
\* operator tools, a message enqueued under the current protocol reaches the
\* stream at most once, and an old row at most once per attempt it records.
AtMostOncePublish ==
  \A m \in Msgs : /\ accepted[m] <= rows[m].attempts
                  /\ m \notin Legacy => accepted[m] <= 1

\* published_at is evidence of delivery: no acknowledgement, late or resolved
\* from a Redis probe, marks a row whose message the stream never accepted.
PublishedWasAccepted ==
  \A m \in Msgs : rows[m].published => accepted[m] >= 1

\* No causal overtaking: once a message is on the stream, every message of its
\* producer that was committed before it was enqueued, or enqueued earlier in
\* its own transaction, is published or dead-lettered.
CausalOrder ==
  \A m \in Msgs : accepted[m] >= 1 =>
    \A k \in before[m] : rows[k].producer = rows[m].producer => ~Unsettled(k)

\* Two processes never work on the same row, whichever of them an operator
\* started and whatever reconciliation ids the operators reuse.
ExclusiveClaim ==
  \A a, b \in Agents :
    (a # b /\ agent[a] # Idle /\ agent[b] # Idle) => agent[a].msg # agent[b].msg

\* What was sent can be settled.  While a process works on a message that is on the
\* stream, its outcome update still matches the row, also when a duplicate enqueue
\* writes the digest meanwhile.  Once the outcome is in doubt, resolution accepts the
\* row; the exceptions are an audit row that retention has removed, and a long reason
\* from the quarantine of an older release's lease.
SentIsResolvable ==
  \A m \in Msgs : accepted[m] >= 1 =>
    /\ \A a \in Agents : (/\ agent[a] # Idle /\ agent[a].msg = m
                         /\ rows[m].state = "PUBLISHING") => HoldsClaim(a)
    /\ rows[m].state = "PUBLISH_OUTCOME_UNKNOWN" =>
         \/ Resolvable(m, rows[m].rid)
         \/ m \in Aged /\ ~rows[m].audited
         \/ m \in Legacy /\ rows[m].error = "long"

\* An attempt is never taken back: once a claim left NONE behind, the row
\* keeps its attempt number and reconciliation id for good, is never dead-
\* lettered, moves only towards ACKNOWLEDGED, and never loses published_at.
FinalRow(r, s) ==
  /\ r.state # "NONE" =>
       /\ s.attempts = r.attempts /\ s.rid = r.rid /\ s.dead = r.dead
       /\ \/ s.state = r.state
          \/ r.state \in {"PUBLISHING", "PUBLISH_OUTCOME_UNKNOWN"}
             /\ s.state = "ACKNOWLEDGED"
          \/ r.state = "PUBLISHING" /\ s.state = "PUBLISH_OUTCOME_UNKNOWN"
  /\ r.published \/ r.dead => s.published \/ s.dead

ClaimsAreFinal == [][\A m \in Msgs : FinalRow(rows[m], rows'[m])]_vars

\* A row that only an operator can move: its outcome is ambiguous and no
\* process holds it, or an older release already attempted it.
NeedsOperator(m) ==
  /\ InTable(m) /\ Unsettled(m)
  /\ \/ rows[m].state = "PUBLISH_OUTCOME_UNKNOWN"
     \/ rows[m].state = "PUBLISHING" /\ \A a \in Agents : agent[a].msg # m
     \/ rows[m].state = "NONE" /\ rows[m].attempts > 0

\* The dispatcher loses nothing silently: every committed row is eventually
\* published or dead-lettered, or it waits behind (or is) a row of its own
\* producer that needs an operator.
EventuallySettledOrEscalated ==
  \A m \in Msgs :
    InTable(m) ~> \/ ~Unsettled(m)
                  \/ \E k \in Msgs : /\ NeedsOperator(k)
                                     /\ rows[k].producer = rows[m].producer
                                     /\ rows[k].id <= rows[m].id

-----------------------------------------------------------------------------
(***************************************************************************)
(* The inductive invariant from which the properties above follow.         *)
(***************************************************************************)

\* An uncommitted row belongs to one writer; a row's id is below the next one;
\* the causal predecessors of a row have smaller ids and become visible no
\* later than the row itself; old rows have none.
PlacementInv ==
  /\ \A w \in Writers : \A m \in txn[w] : rows[m].place = "open"
  /\ \A w, v \in Writers : w # v => txn[w] \cap txn[v] = {}
  /\ \A m \in Msgs : rows[m].place = "open" => \E w \in Writers : m \in txn[w]
  /\ \A m \in Msgs : rows[m].place # "absent" => rows[m].id < nextId
  /\ \A m \in Msgs : rows[m].place # "absent" =>
       \A k \in before[m] : rows[k].id < rows[m].id
  /\ \A m \in Msgs : InTable(m) => \A k \in before[m] : InTable(k)
  /\ \A w \in Writers : \A m \in txn[w] : \A k \in before[m] :
       InTable(k) \/ k \in txn[w]
  /\ \A m \in Legacy : InTable(m) /\ before[m] = {}

\* How the delivery columns of one row depend on each other.
GoodRow(m, r) ==
  /\ r.place # "table" => /\ r.attempts = 0 /\ r.state = "NONE"
                          /\ r.owner = NoOne /\ ~r.published /\ ~r.dead
  /\ r.published <=> r.state = "ACKNOWLEDGED"
  /\ r.state # "NONE" => ~r.dead /\ r.rid # NoOne
  /\ r.state = "PUBLISH_OUTCOME_UNKNOWN" => r.owner = NoOne /\ r.error # "none"
  /\ r.dead => r.owner = NoOne
  /\ m \notin Legacy =>
       /\ r.attempts <= 1
       /\ r.state = "NONE" => r.attempts = 0 /\ r.owner = NoOne

RowInv == \A m \in Msgs : GoodRow(m, rows[m])

\* A process that works on a row knows its latest attempt; the row cannot be
\* back in NONE, and the attempt's copy is not on the stream before the call.
GoodClaim(c, r, n) ==
  /\ r.place = "table"
  /\ r.attempts = c.attempts
  /\ r.rid = c.rid
  /\ c.pc \in {"claimed", "acking"} => r.state = "PUBLISHING"
  /\ c.pc = "marking" => r.state \in {"PUBLISHING", "ACKNOWLEDGED"}
  /\ c.pc = "acking" => n >= 1
  /\ c.pc = "claimed" => n < r.attempts

AgentInv ==
  \A a \in Agents : agent[a] # Idle =>
    GoodClaim(agent[a], rows[agent[a].msg], accepted[agent[a].msg])

\* Copies on the stream are accounted for by attempts.
CopiesInv ==
  \A m \in Msgs : /\ accepted[m] <= rows[m].attempts
                  /\ rows[m].published => accepted[m] >= 1

\* A row that was claimed under the current protocol has no unsettled causal
\* predecessor of the same producer.
OrderInv ==
  \A m \in Msgs \ Legacy : rows[m].state # "NONE" =>
    \A k \in before[m] : rows[k].producer = rows[m].producer => ~Unsettled(k)

DeliveryInv == RowInv /\ AgentInv /\ ExclusiveClaim /\ CopiesInv

OutboxInv == TypeOK /\ PlacementInv /\ DeliveryInv /\ OrderInv

\* What is left to identify a message by: a row is audited until retention comes, a
\* reason that is too long is a quarantine's, and what was sent has its digest.
GoodEvidence(m, r, n) ==
  /\ r.place # "absent" /\ ~r.audited => m \in Aged
  /\ r.state = "PUBLISH_OUTCOME_UNKNOWN" /\ r.error = "long" => m \in Legacy
  /\ r.state # "NONE" /\ n >= 1 => r.hashed /\ m \notin Corrupt

\* A claimant knows the digest of what it has sent, and a tool that of what it may
\* send; a dispatcher's row carries its name while the outcome is open.
GoodKnowledge(a, c, r, n) ==
  /\ c.hashed => r.hashed
  /\ a \in Tools => c.hashed /\ c.msg \notin Corrupt
  /\ n >= 1 => c.hashed
  /\ a \in Workers /\ r.state = "PUBLISHING" => r.owner = a

EvidenceInv ==
  /\ \A m \in Msgs : GoodEvidence(m, rows[m], accepted[m])
  /\ \A a \in Agents : agent[a] # Idle =>
       GoodKnowledge(a, agent[a], rows[agent[a].msg], accepted[agent[a].msg])

-----------------------------------------------------------------------------
(***************************************************************************)
(* What README.md says of a crash between acceptance and acknowledgement.  *)
(***************************************************************************)

\* README.md:151 "A process may crash after Redis accepts a publish but before
\* PostgreSQL records published_at; the row is then published again".
AbandonedClaimIsRetried ==
  \A m \in Msgs :
    (rows[m].state = "PUBLISHING" /\ \A a \in Agents : agent[a].msg # m)
      ~> rows[m].published
=============================================================================
