---------------------------- MODULE OutboxProofs ----------------------------
(***************************************************************************)
(* Machine-checked proofs about Outbox, for every number of messages,      *)
(* producers, dispatchers, tools and old rows.                             *)
(***************************************************************************)
EXTENDS OutboxImplements, TLAPS

-----------------------------------------------------------------------------
(***************************************************************************)
(* Types.                                                                  *)
(***************************************************************************)

\* The row an insert creates and the placeholder of a missing row are rows.
LEMMA NewRowType ==
  ASSUME NEW id \in Nat, NEW p \in Producers
  PROVE  NewRow(id, p) \in Row /\ AbsentRow \in Row
BY DEF NewRow, AbsentRow, Row, RecStates, Errors

\* A row left behind by an older release is a row.
LEMMA LegacyRowType ==
  ASSUME NEW id \in Nat, NEW p \in Producers, NEW s \in LegacyShapes
  PROVE  LegacyRow(id, p, s) \in Row
BY DEF LegacyRow, NewRow, AbsentRow, Row, RecStates, Errors, Owners, LegacyShapes

\* DispatchId yields reconciliation ids.
LEMMA DispatchIdType ==
  ASSUME NEW n \in Nat
  PROVE  DispatchId(n) \in RecIds
BY DEF DispatchId, RecIds

\* The initial state is well typed.
LEMMA InitType == Init => TypeOK
<1> SUFFICES ASSUME Init PROVE TypeOK
  OBVIOUS
<1> USE OutboxConstants
<1>1. rows \in [Msgs -> Row]
  <2>1. PICK p \in [Legacy -> Producers], shape \in [Legacy -> LegacyShapes] :
          rows = [m \in Msgs |-> IF m \in Legacy
                                 THEN LegacyRow(LegacyId[m], p[m], shape[m])
                                 ELSE AbsentRow]
    BY DEF Init
  <2>2. ASSUME NEW m \in Msgs
        PROVE  (IF m \in Legacy THEN LegacyRow(LegacyId[m], p[m], shape[m])
                                ELSE AbsentRow) \in Row
    <3>1. CASE m \in Legacy
      BY <3>1, LegacyRowType
    <3>2. CASE m \notin Legacy
      BY <3>2 DEF AbsentRow, Row, RecStates, Errors
    <3> QED BY <3>1, <3>2
  <2> QED BY <2>1, <2>2
<1>2. agent \in [Agents -> Claim \cup {Idle}]
  BY DEF Init
<1> QED BY <1>1, <1>2 DEF Init, TypeOK

-----------------------------------------------------------------------------
(***************************************************************************)
(* What each action does to the columns of a row.  The proofs below use    *)
(* these facts in place of the EXCEPT expressions of the actions.          *)
(***************************************************************************)
SameIdentity(r, s) == s.place = r.place /\ s.id = r.id /\ s.producer = r.producer

SameDelivery(r, s) ==
  /\ s.attempts = r.attempts /\ s.state = r.state /\ s.rid = r.rid
  /\ s.owner = r.owner /\ s.published = r.published /\ s.dead = r.dead
  /\ s.error = r.error

SameEvidence(r, s) == s.hashed = r.hashed /\ s.audited = r.audited

-----------------------------------------------------------------------------
(***************************************************************************)
(* The steps that keep the set of rows: one row at most changes, and it    *)
(* keeps its place, id and producer.                                       *)
(***************************************************************************)
Kept == /\ rows' \in [Msgs -> Row]
        /\ \A k \in Msgs : SameIdentity(rows[k], rows'[k])
        /\ nextId' = nextId /\ txn' = txn /\ before' = before

\* Replacing one row by a row of the same identity.
LEMMA ReplaceRow ==
  ASSUME TypeOK, NEW m \in Msgs, NEW s \in Row, SameIdentity(rows[m], s),
         rows' = [rows EXCEPT ![m] = s],
         nextId' = nextId, txn' = txn, before' = before
  PROVE  /\ Kept
         /\ rows'[m] = s
         /\ \A k \in Msgs \ {m} : rows'[k] = rows[k]
BY DEF TypeOK, Kept, SameIdentity

\* The memory of a process that is not idle.
LEMMA BusyAgent ==
  ASSUME TypeOK, NEW a \in Agents, agent[a].pc # "idle"
  PROVE  agent[a] \in Claim /\ agent[a] # Idle /\ agent[a].msg \in Msgs
BY DEF TypeOK, Idle, Claim

\* Moving the program counter changes nothing else of the claim.
LEMMA GotoEffect ==
  ASSUME TypeOK, NEW a \in Agents, NEW pc \in {"acking", "marking"},
         agent[a].pc # "idle", Goto(a, pc)
  PROVE  /\ agent' \in [Agents -> Claim \cup {Idle}]
         /\ agent'[a] # Idle
         /\ agent'[a].pc = pc /\ agent'[a].msg = agent[a].msg
         /\ agent'[a].attempts = agent[a].attempts
         /\ agent'[a].rid = agent[a].rid /\ agent'[a].hashed = agent[a].hashed
         /\ \A b \in Agents \ {a} : agent'[b] = agent[b]
<1>1. agent[a] \in Claim
  BY BusyAgent
<1>2. LET c == [agent[a] EXCEPT !.pc = pc]
      IN  /\ c \in Claim /\ c.pc = pc /\ c.msg = agent[a].msg
          /\ c.attempts = agent[a].attempts /\ c.rid = agent[a].rid /\ c.hashed = agent[a].hashed
  BY <1>1 DEF Claim
<1>3. agent' = [agent EXCEPT ![a] = [agent[a] EXCEPT !.pc = pc]]
  BY DEF Goto
<1> QED BY <1>2, <1>3 DEF TypeOK, Idle

\* Forgetting a claim.
LEMMA ReleaseEffect ==
  ASSUME TypeOK, NEW a \in Agents, Release(a)
  PROVE  /\ agent' \in [Agents -> Claim \cup {Idle}]
         /\ agent'[a] = Idle
         /\ \A b \in Agents \ {a} : agent'[b] = agent[b]
BY DEF Release, TypeOK

\* A claim: the row goes to PUBLISHING and the process remembers it.
LEMMA ClaimEffect ==
  ASSUME TypeOK, NEW a \in Agents, NEW m \in Msgs, NEW o \in Owners,
         NEW rid \in RecIds, ClaimRow(a, m, o, rid)
  PROVE  /\ Kept
         /\ \A k \in Msgs \ {m} : rows'[k] = rows[k]
         /\ rows'[m].attempts = rows[m].attempts + 1
         /\ rows'[m].state = "PUBLISHING" /\ rows'[m].rid = rid
         /\ rows'[m].owner = o /\ SameEvidence(rows[m], rows'[m])
         /\ rows'[m].published = rows[m].published
         /\ rows'[m].dead = rows[m].dead
         /\ agent' \in [Agents -> Claim \cup {Idle}]
         /\ agent'[a] # Idle /\ agent'[a].pc = "claimed" /\ agent'[a].msg = m
         /\ agent'[a].attempts = rows[m].attempts + 1 /\ agent'[a].rid = rid
         /\ agent'[a].hashed = rows[m].hashed
         /\ \A b \in Agents \ {a} : agent'[b] = agent[b]
         /\ agent[a] = Idle
         /\ accepted' = accepted
<1>1. rows[m] \in Row /\ rows[m].attempts \in Nat /\ rows[m].hashed \in BOOLEAN
  BY DEF TypeOK, Row
<1> DEFINE n == rows[m].attempts + 1
           s == [rows[m] EXCEPT !.owner = o, !.expired = FALSE, !.attempts = n,
                                !.state = "PUBLISHING", !.rid = rid,
                                !.error = "none"]
           c == [pc |-> "claimed", msg |-> m, attempts |-> n, rid |-> rid,
                 hashed |-> rows[m].hashed]
<1>. n \in Nat
  BY <1>1
<1>2. /\ s \in Row /\ SameIdentity(rows[m], s)
      /\ s.attempts = n /\ s.state = "PUBLISHING" /\ s.rid = rid
      /\ s.owner = o /\ s.published = rows[m].published /\ s.dead = rows[m].dead
      /\ SameEvidence(rows[m], s)
  <2> HIDE DEF n
  <2> QED BY <1>1 DEF Row, RecStates, Errors, SameIdentity, SameEvidence
<1>3. rows' = [rows EXCEPT ![m] = s] /\ agent' = [agent EXCEPT ![a] = c]
  BY DEF ClaimRow
<1>4. nextId' = nextId /\ txn' = txn /\ before' = before /\ accepted' = accepted
      /\ agent[a] = Idle
  BY DEF ClaimRow
<1>5. c \in Claim /\ c # Idle /\ c.pc = "claimed" /\ c.msg = m
      /\ c.attempts = n /\ c.rid = rid /\ c.hashed = rows[m].hashed
  BY <1>1 DEF Claim, Idle
<1> HIDE DEF s, c
<1>6. Kept /\ rows'[m] = s /\ \A k \in Msgs \ {m} : rows'[k] = rows[k]
  BY <1>2, <1>3, <1>4, ReplaceRow
<1>7. agent' \in [Agents -> Claim \cup {Idle}] /\ agent'[a] = c
      /\ \A b \in Agents \ {a} : agent'[b] = agent[b]
  BY <1>3, <1>5 DEF TypeOK
<1> QED BY <1>2, <1>4, <1>5, <1>6, <1>7

\* A digest stays, and the audit row goes only when it is old enough.
EvidenceFades(k) ==
  /\ rows[k].hashed => rows'[k].hashed
  /\ rows'[k].audited \/ ~rows[k].audited \/ k \in Aged

\* Backfill, lease expiry, availability and retention leave delivery alone.
LEMMA FlagEffect ==
  ASSUME TypeOK, NEW m \in Msgs,
         \/ \E w \in Writers : BackfillFingerprint(w, m)
         \/ LeaseExpires(m)
         \/ BecomesAvailable(m)
         \/ AuditRetention(m)
  PROVE  /\ Kept
         /\ \A k \in Msgs : SameDelivery(rows[k], rows'[k]) /\ EvidenceFades(k)
         /\ agent' = agent /\ accepted' = accepted /\ nonce' = nonce
<1>1. rows[m] \in Row
  BY DEF TypeOK
<1>2. /\ nextId' = nextId /\ txn' = txn /\ before' = before
      /\ agent' = agent /\ accepted' = accepted /\ nonce' = nonce
  BY DEF BackfillFingerprint, LeaseExpires, BecomesAvailable, AuditRetention
<1>3. ASSUME NEW s \in Row, SameIdentity(rows[m], s), SameDelivery(rows[m], s),
             rows[m].hashed => s.hashed, s.audited \/ ~rows[m].audited \/ m \in Aged,
             rows' = [rows EXCEPT ![m] = s]
      PROVE  Kept /\ \A k \in Msgs : SameDelivery(rows[k], rows'[k]) /\ EvidenceFades(k)
  <2>1. Kept /\ rows'[m] = s /\ \A k \in Msgs \ {m} : rows'[k] = rows[k]
    BY <1>2, <1>3, ReplaceRow
  <2> QED BY <1>3, <2>1 DEF SameDelivery, EvidenceFades
<1>4. CASE \E w \in Writers : BackfillFingerprint(w, m)
  <2> DEFINE s == [rows[m] EXCEPT !.hashed = TRUE]
  <2>1. /\ s \in Row /\ SameIdentity(rows[m], s) /\ SameDelivery(rows[m], s)
        /\ s.audited = rows[m].audited /\ (rows[m].hashed => s.hashed)
    BY <1>1 DEF Row, SameIdentity, SameDelivery
  <2>2. rows' = [rows EXCEPT ![m] = s]
    BY <1>4 DEF BackfillFingerprint
  <2> HIDE DEF s
  <2> QED BY <1>2, <1>3, <2>1, <2>2
<1>5. CASE LeaseExpires(m)
  <2> DEFINE s == [rows[m] EXCEPT !.expired = TRUE]
  <2>1. /\ s \in Row /\ SameIdentity(rows[m], s) /\ SameDelivery(rows[m], s)
        /\ s.audited = rows[m].audited /\ (rows[m].hashed => s.hashed)
    BY <1>1 DEF Row, SameIdentity, SameDelivery
  <2>2. rows' = [rows EXCEPT ![m] = s]
    BY <1>5 DEF LeaseExpires
  <2> HIDE DEF s
  <2> QED BY <1>2, <1>3, <2>1, <2>2
<1>6. CASE BecomesAvailable(m)
  <2> DEFINE s == [rows[m] EXCEPT !.available = TRUE]
  <2>1. /\ s \in Row /\ SameIdentity(rows[m], s) /\ SameDelivery(rows[m], s)
        /\ s.audited = rows[m].audited /\ (rows[m].hashed => s.hashed)
    BY <1>1 DEF Row, SameIdentity, SameDelivery
  <2>2. rows' = [rows EXCEPT ![m] = s]
    BY <1>6 DEF BecomesAvailable
  <2> HIDE DEF s
  <2> QED BY <1>2, <1>3, <2>1, <2>2
<1>7. CASE AuditRetention(m)
  <2> DEFINE s == [rows[m] EXCEPT !.audited = FALSE]
  <2>1. /\ s \in Row /\ SameIdentity(rows[m], s) /\ SameDelivery(rows[m], s)
        /\ s.hashed = rows[m].hashed
    BY <1>1 DEF Row, SameIdentity, SameDelivery
  <2>2. rows' = [rows EXCEPT ![m] = s] /\ m \in Aged
    BY <1>7 DEF AuditRetention
  <2> HIDE DEF s
  <2> QED BY <1>2, <1>3, <2>1, <2>2
<1> QED BY <1>4, <1>5, <1>6, <1>7

\* An acknowledgement that finds its claim publishes the row.
LEMMA AckEffect ==
  ASSUME TypeOK, NEW a \in Agents, Acknowledge(a), rows' # rows
  PROVE  LET m == agent[a].msg
         IN  /\ m \in Msgs /\ HoldsClaim(a)
             /\ Kept
             /\ \A k \in Msgs \ {m} : rows'[k] = rows[k]
             /\ rows'[m].attempts = rows[m].attempts
             /\ rows'[m].rid = rows[m].rid
             /\ rows'[m].state = "ACKNOWLEDGED" /\ rows'[m].owner = NoOne
             /\ rows'[m].published /\ rows'[m].dead = rows[m].dead
             /\ SameEvidence(rows[m], rows'[m])
<1> DEFINE m == agent[a].msg
           s == [rows[m] EXCEPT !.published = TRUE, !.owner = NoOne,
                                !.expired = FALSE, !.error = "none",
                                !.state = "ACKNOWLEDGED"]
<1>1. m \in Msgs /\ rows[m] \in Row
  BY BusyAgent DEF Acknowledge, TypeOK
<1>2. /\ s \in Row /\ SameIdentity(rows[m], s)
      /\ s.attempts = rows[m].attempts /\ s.rid = rows[m].rid
      /\ s.state = "ACKNOWLEDGED" /\ s.owner = NoOne
      /\ s.published /\ s.dead = rows[m].dead
      /\ SameEvidence(rows[m], s)
  <2> HIDE DEF m
  <2> QED BY <1>1 DEF Row, RecStates, Errors, SameIdentity, SameEvidence
<1>3. /\ rows' = [rows EXCEPT ![m] = s] /\ HoldsClaim(a)
      /\ nextId' = nextId /\ txn' = txn /\ before' = before
  BY DEF Acknowledge
<1> HIDE DEF s
<1> QED BY <1>1, <1>2, <1>3, ReplaceRow

\* A marker that finds its claim keeps the attempt and clears the lease.
LEMMA MarkEffect ==
  ASSUME TypeOK, NEW a \in Agents, MarkOutcomeUnknown(a), rows' # rows
  PROVE  LET m == agent[a].msg
         IN  /\ m \in Msgs /\ HoldsClaim(a)
             /\ Kept
             /\ \A k \in Msgs \ {m} : rows'[k] = rows[k]
             /\ rows'[m].attempts = rows[m].attempts
             /\ rows'[m].rid = rows[m].rid
             /\ rows'[m].state = "PUBLISH_OUTCOME_UNKNOWN"
             /\ rows'[m].owner = NoOne /\ rows'[m].error = "short"
             /\ rows'[m].published = rows[m].published
             /\ rows'[m].dead = rows[m].dead
             /\ SameEvidence(rows[m], rows'[m])
<1> DEFINE m == agent[a].msg
           s == [rows[m] EXCEPT !.owner = NoOne, !.expired = FALSE,
                                !.error = "short",
                                !.state = "PUBLISH_OUTCOME_UNKNOWN"]
<1>1. m \in Msgs /\ rows[m] \in Row
  BY BusyAgent DEF MarkOutcomeUnknown, TypeOK
<1>2. /\ s \in Row /\ SameIdentity(rows[m], s)
      /\ s.attempts = rows[m].attempts /\ s.rid = rows[m].rid
      /\ s.state = "PUBLISH_OUTCOME_UNKNOWN" /\ s.owner = NoOne
      /\ s.error = "short"
      /\ s.published = rows[m].published /\ s.dead = rows[m].dead
      /\ SameEvidence(rows[m], s)
  <2> HIDE DEF m
  <2> QED BY <1>1 DEF Row, RecStates, Errors, SameIdentity, SameEvidence
<1>3. /\ rows' = [rows EXCEPT ![m] = s] /\ HoldsClaim(a)
      /\ nextId' = nextId /\ txn' = txn /\ before' = before
  BY DEF MarkOutcomeUnknown
<1> HIDE DEF s
<1> QED BY <1>1, <1>2, <1>3, ReplaceRow

\* Quarantine moves an expired old lease to the unknown state.
LEMMA QuarantineEffect ==
  ASSUME TypeOK, NEW m \in Msgs, NEW rid \in ToolIds, NEW e \in {"short", "long"},
         QuarantineExpiredOutboxExact(m, rid, e)
  PROVE  /\ Kept
         /\ \A k \in Msgs \ {m} : rows'[k] = rows[k]
         /\ rows'[m].attempts = rows[m].attempts
         /\ rows'[m].rid = rid
         /\ rows'[m].state = "PUBLISH_OUTCOME_UNKNOWN"
         /\ rows'[m].owner = NoOne /\ rows'[m].error = e
         /\ rows'[m].published = rows[m].published
         /\ rows'[m].dead = rows[m].dead
         /\ SameEvidence(rows[m], rows'[m])
<1> DEFINE s == [rows[m] EXCEPT !.owner = NoOne, !.expired = FALSE,
                                !.error = e, !.rid = rid,
                                !.state = "PUBLISH_OUTCOME_UNKNOWN"]
<1>1. rows[m] \in Row
  BY DEF TypeOK
<1>2. /\ s \in Row /\ SameIdentity(rows[m], s)
      /\ s.attempts = rows[m].attempts /\ s.rid = rid
      /\ s.state = "PUBLISH_OUTCOME_UNKNOWN" /\ s.owner = NoOne
      /\ s.error = e
      /\ s.published = rows[m].published /\ s.dead = rows[m].dead
      /\ SameEvidence(rows[m], s)
  BY <1>1 DEF Row, RecStates, RecIds, Errors, SameIdentity, SameEvidence
<1>3. /\ rows' = [rows EXCEPT ![m] = s]
      /\ nextId' = nextId /\ txn' = txn /\ before' = before
  BY DEF QuarantineExpiredOutboxExact
<1> HIDE DEF s
<1> QED BY <1>1, <1>2, <1>3, ReplaceRow

\* Resolution publishes a row whose outcome was unknown.
LEMMA ResolveEffect ==
  ASSUME TypeOK, NEW m \in Msgs, NEW rid, NEW n, ResolveUnknownOutbox(m, rid, n)
  PROVE  /\ Kept
         /\ \A k \in Msgs \ {m} : rows'[k] = rows[k]
         /\ rows'[m].attempts = rows[m].attempts
         /\ rows'[m].rid = rows[m].rid
         /\ rows'[m].state = "ACKNOWLEDGED"
         /\ rows'[m].owner = rows[m].owner
         /\ rows'[m].published
         /\ rows'[m].dead = rows[m].dead
         /\ SameEvidence(rows[m], rows'[m])
<1> DEFINE s == [rows[m] EXCEPT !.published = TRUE, !.error = "long",
                                !.state = "ACKNOWLEDGED"]
<1>1. rows[m] \in Row
  BY DEF TypeOK
<1>2. /\ s \in Row /\ SameIdentity(rows[m], s)
      /\ s.attempts = rows[m].attempts /\ s.rid = rows[m].rid
      /\ s.state = "ACKNOWLEDGED" /\ s.owner = rows[m].owner
      /\ s.published /\ s.dead = rows[m].dead
      /\ SameEvidence(rows[m], s)
  BY <1>1 DEF Row, RecStates, Errors, SameIdentity, SameEvidence
<1>3. /\ rows' = [rows EXCEPT ![m] = s]
      /\ nextId' = nextId /\ txn' = txn /\ before' = before
  BY DEF ResolveUnknownOutbox
<1> HIDE DEF s
<1> QED BY <1>1, <1>2, <1>3, ReplaceRow

\* A retry decision clears an old lease and may dead-letter the row.
LEMMA FailEffect ==
  ASSUME TypeOK, NEW m \in Msgs, NEW limit \in AttemptLimits, FailOutbox(m, limit)
  PROVE  /\ Kept
         /\ \A k \in Msgs \ {m} : rows'[k] = rows[k]
         /\ rows'[m].attempts = rows[m].attempts
         /\ rows'[m].rid = rows[m].rid
         /\ rows'[m].state = rows[m].state
         /\ rows'[m].owner = NoOne
         /\ rows'[m].published = rows[m].published
         /\ SameEvidence(rows[m], rows'[m])
<1> DEFINE d == rows[m].attempts >= limit
           s == [rows[m] EXCEPT !.owner = NoOne, !.expired = FALSE,
                                !.available = FALSE, !.error = "short",
                                !.dead = d]
<1>1. rows[m] \in Row /\ d \in BOOLEAN
  BY DEF TypeOK
<1>2. /\ s \in Row /\ SameIdentity(rows[m], s)
      /\ s.attempts = rows[m].attempts /\ s.rid = rows[m].rid
      /\ s.state = rows[m].state /\ s.owner = NoOne
      /\ s.published = rows[m].published
      /\ SameEvidence(rows[m], s)
  <2> HIDE DEF d
  <2> QED BY <1>1 DEF Row, Errors, SameIdentity, SameEvidence
<1>3. /\ rows' = [rows EXCEPT ![m] = s]
      /\ nextId' = nextId /\ txn' = txn /\ before' = before
  BY DEF FailOutbox
<1> HIDE DEF s
<1> QED BY <1>1, <1>2, <1>3, ReplaceRow

\* A commit makes the rows of its transaction visible.
LEMMA CommitEffect ==
  ASSUME TypeOK, NEW w \in Writers, Commit(w)
  PROVE  /\ rows' \in [Msgs -> Row]
         /\ txn' \in [Writers -> SUBSET Msgs] /\ txn'[w] = {}
         /\ \A v \in Writers \ {w} : txn'[v] = txn[v]
         /\ \A m \in Msgs : /\ rows'[m].id = rows[m].id
                            /\ rows'[m].producer = rows[m].producer
                            /\ SameDelivery(rows[m], rows'[m])
                            /\ SameEvidence(rows[m], rows'[m])
         /\ \A m \in txn[w] : rows'[m].place = "table"
         /\ \A m \in Msgs \ txn[w] : rows'[m] = rows[m]
<1>1. ASSUME NEW m \in Msgs, m \in txn[w]
      PROVE  /\ rows'[m] \in Row /\ rows'[m].place = "table"
             /\ rows'[m].id = rows[m].id /\ rows'[m].producer = rows[m].producer
             /\ SameDelivery(rows[m], rows'[m]) /\ SameEvidence(rows[m], rows'[m])
  <2> DEFINE s == [rows[m] EXCEPT !.place = "table"]
  <2>1. rows[m] \in Row
    BY DEF TypeOK
  <2>2. /\ s \in Row /\ s.place = "table" /\ s.id = rows[m].id
        /\ s.producer = rows[m].producer /\ SameDelivery(rows[m], s) /\ SameEvidence(rows[m], s)
    BY <2>1 DEF Row, SameDelivery, SameEvidence
  <2>3. rows'[m] = s
    BY <1>1 DEF Commit
  <2> HIDE DEF s
  <2> QED BY <2>2, <2>3
<1>2. ASSUME NEW m \in Msgs, m \notin txn[w]
      PROVE  rows'[m] = rows[m] /\ rows'[m] \in Row
  BY <1>2 DEF Commit, TypeOK
<1>3. rows' \in [Msgs -> Row]
  <2>1. DOMAIN rows' = Msgs /\ rows' = [m \in Msgs |-> rows'[m]]
    BY DEF Commit
  <2> QED BY <1>1, <1>2, <2>1
<1>4. txn[w] \subseteq Msgs
  BY DEF TypeOK
<1>5. /\ txn' \in [Writers -> SUBSET Msgs] /\ txn'[w] = {}
      /\ \A v \in Writers \ {w} : txn'[v] = txn[v]
  BY DEF Commit, TypeOK
<1>6. \A m \in Msgs \ txn[w] : SameDelivery(rows[m], rows'[m]) /\ SameEvidence(rows[m], rows'[m])
  BY <1>2 DEF SameDelivery, SameEvidence
<1> QED BY <1>1, <1>2, <1>3, <1>4, <1>5, <1>6

-----------------------------------------------------------------------------
(***************************************************************************)
(* Type correctness.                                                       *)
(***************************************************************************)

\* Every step keeps the types.
LEMMA NextType == TypeOK /\ [Next]_vars => TypeOK'
<1> SUFFICES ASSUME TypeOK, [Next]_vars PROVE TypeOK'
  OBVIOUS
<1>1. ASSUME NEW w \in Writers, NEW m \in Msgs, EnqueueOutbox(w, m)
      PROVE  TypeOK'
  <2>1. NewRow(nextId, Service[w]) \in Row
    BY NewRowType, OutboxConstants DEF TypeOK
  <2> QED BY <1>1, <2>1 DEF EnqueueOutbox, TypeOK
<1>2. ASSUME NEW m \in Msgs,
             \/ \E w \in Writers : BackfillFingerprint(w, m)
             \/ LeaseExpires(m)
             \/ BecomesAvailable(m)
             \/ AuditRetention(m)
      PROVE  TypeOK'
  BY <1>2, FlagEffect DEF Kept, TypeOK
<1>3. ASSUME NEW w \in Writers, Commit(w) PROVE TypeOK'
  BY <1>3, CommitEffect DEF Commit, TypeOK
<1>4. ASSUME NEW w \in Writers, Rollback(w) PROVE TypeOK'
  <2>1. AbsentRow \in Row
    BY DEF AbsentRow, Row, RecStates, Errors
  <2> QED BY <1>4, <2>1 DEF Rollback, TypeOK
<1>5. ASSUME NEW a \in Workers, NEW m \in Msgs, ClaimOutbox(a, m)
      PROVE  TypeOK'
  <2>1. a \in Agents /\ a \in Owners /\ DispatchId(nonce) \in RecIds
    BY DispatchIdType DEF TypeOK, Agents, Owners
  <2> QED BY <1>5, <2>1, ClaimEffect DEF ClaimOutbox, Kept, TypeOK
<1>6. ASSUME NEW a \in Tools, NEW m \in Msgs, NEW rid \in ToolIds,
             ClaimReadyOutboxExact(a, m, rid) \/ ClaimExpiredOutboxExact(a, m, rid)
      PROVE  TypeOK'
  <2>1. a \in Agents /\ rid \in Owners /\ rid \in RecIds
    BY DEF RecIds, Agents, Owners
  <2> QED BY <1>6, <2>1, ClaimEffect
          DEF ClaimReadyOutboxExact, ClaimExpiredOutboxExact, Kept, TypeOK
<1>7. ASSUME NEW a \in Agents, RejectPayload(a) PROVE TypeOK'
  BY <1>7, GotoEffect DEF RejectPayload, TypeOK
<1>8. ASSUME NEW a \in Agents, Publish(a) PROVE TypeOK'
  BY <1>8, GotoEffect, BusyAgent DEF Publish, TypeOK
<1>9. ASSUME NEW a \in Agents, Acknowledge(a) PROVE TypeOK'
  <2>1. agent' \in [Agents -> Claim \cup {Idle}]
    BY <1>9, GotoEffect, ReleaseEffect DEF Acknowledge
  <2>2. rows' \in [Msgs -> Row]
    BY <1>9, AckEffect DEF Kept, TypeOK
  <2> QED BY <1>9, <2>1, <2>2 DEF Acknowledge, TypeOK
<1>10. ASSUME NEW a \in Agents, MarkOutcomeUnknown(a) PROVE TypeOK'
  <2>1. agent' \in [Agents -> Claim \cup {Idle}]
    BY <1>10, ReleaseEffect DEF MarkOutcomeUnknown
  <2>2. rows' \in [Msgs -> Row]
    BY <1>10, MarkEffect DEF Kept, TypeOK
  <2> QED BY <1>10, <2>1, <2>2 DEF MarkOutcomeUnknown, TypeOK
<1>11. ASSUME NEW a \in Agents, Crash(a) PROVE TypeOK'
  BY <1>11, ReleaseEffect DEF Crash, TypeOK
<1>12. CASE Operator
  <2>1. ASSUME NEW m \in Msgs, NEW rid \in ToolIds, NEW e \in {"short", "long"},
               QuarantineExpiredOutboxExact(m, rid, e)
        PROVE  TypeOK'
    BY <2>1, QuarantineEffect DEF QuarantineExpiredOutboxExact, Kept, TypeOK
  <2>2. ASSUME NEW m \in Msgs, NEW rid, NEW n, ResolveUnknownOutbox(m, rid, n)
        PROVE  TypeOK'
    BY <2>2, ResolveEffect DEF ResolveUnknownOutbox, Kept, TypeOK
  <2>3. ASSUME NEW m \in Msgs, NEW limit \in AttemptLimits, FailOutbox(m, limit)
        PROVE  TypeOK'
    BY <2>3, FailEffect DEF FailOutbox, Kept, TypeOK
  <2> QED BY <1>12, <2>1, <2>2, <2>3 DEF Operator
<1>13. CASE UNCHANGED vars
  BY <1>13 DEF vars, TypeOK
<1> QED
  BY <1>1, <1>2, <1>3, <1>4, <1>5, <1>6, <1>7, <1>8, <1>9, <1>10, <1>11, <1>12,
     <1>13
  DEF Next, Transactions, Dispatch, ToolStep, Environment, Agents

\* The columns of message_outbox and the processes' memory keep their types.
THEOREM TypeCorrect == Spec => []TypeOK
BY InitType, NextType, PTL DEF Spec

-----------------------------------------------------------------------------
(***************************************************************************)
(* Placement: ids, transactions and causal predecessors.                   *)
(***************************************************************************)

\* A row of the initial state.
LEMMA InitRows ==
  ASSUME Init, NEW m \in Msgs
  PROVE  /\ m \in Legacy => /\ rows[m].place = "table" /\ rows[m].id = LegacyId[m]
                            /\ rows[m].owner \in {NoOne, "legacy-worker"}
         /\ m \notin Legacy => /\ rows[m].place = "absent"
                               /\ rows[m].attempts = 0 /\ rows[m].owner = NoOne
         /\ rows[m].state = "NONE" /\ ~rows[m].published /\ ~rows[m].dead
<1>1. PICK p \in [Legacy -> Producers], shape \in [Legacy -> LegacyShapes] :
        rows = [k \in Msgs |-> IF k \in Legacy
                               THEN LegacyRow(LegacyId[k], p[k], shape[k])
                               ELSE AbsentRow]
  BY DEF Init
<1>2. CASE m \in Legacy
  <2>1. rows[m] = LegacyRow(LegacyId[m], p[m], shape[m])
    BY <1>1, <1>2
  <2> QED BY <1>2, <2>1 DEF LegacyRow
<1>3. CASE m \notin Legacy
  <2>1. rows[m] = AbsentRow
    BY <1>1, <1>3
  <2> QED BY <1>3, <2>1 DEF AbsentRow
<1> QED BY <1>2, <1>3

\* Initially only old rows exist, and nothing precedes them.
LEMMA InitPlacement == Init => PlacementInv
<1> SUFFICES ASSUME Init PROVE PlacementInv
  OBVIOUS
<1>1. /\ txn = [w \in Writers |-> {}] /\ before = [m \in Msgs |-> {}]
      /\ nextId = FirstId
  BY DEF Init
<1>2. \A m \in Msgs : /\ m \in Legacy => rows[m].place = "table" /\ rows[m].id = LegacyId[m]
                      /\ m \notin Legacy => rows[m].place = "absent"
  BY InitRows
<1> QED BY <1>1, <1>2, OutboxConstants DEF PlacementInv, InTable

\* Steps that keep the set of rows keep their placement.
LEMMA KeptPlacement ==
  ASSUME TypeOK, PlacementInv, Kept
  PROVE  PlacementInv'
<1>1. /\ nextId' = nextId /\ txn' = txn /\ before' = before
      /\ \A k \in Msgs : rows'[k].place = rows[k].place /\ rows'[k].id = rows[k].id
  BY DEF Kept, SameIdentity
<1>2. /\ \A w \in Writers : txn[w] \subseteq Msgs
      /\ \A m \in Msgs : before[m] \subseteq Msgs
      /\ Legacy \subseteq Msgs
  BY OutboxConstants DEF TypeOK
<1> QED BY <1>1, <1>2 DEF PlacementInv, InTable

\* A new row gets the largest id and follows only present rows.
LEMMA EnqueuePlacement ==
  ASSUME TypeOK, PlacementInv, NEW w \in Writers, NEW m \in Msgs,
         EnqueueOutbox(w, m)
  PROVE  PlacementInv'
<1>1. /\ rows[m].place = "absent"
      /\ nextId' = nextId + 1 /\ nextId \in Nat
      /\ rows'[m].place = "open" /\ rows'[m].id = nextId
      /\ \A k \in Msgs \ {m} : rows'[k] = rows[k]
  BY DEF EnqueueOutbox, NewRow, TypeOK
<1>2. /\ txn'[w] = txn[w] \cup {m}
      /\ \A v \in Writers \ {w} : txn'[v] = txn[v]
      /\ before'[m] = {k \in Msgs : InTable(k)} \cup txn[w]
      /\ \A k \in Msgs \ {m} : before'[k] = before[k]
  BY DEF EnqueueOutbox, TypeOK
<1>3. /\ \A v \in Writers : txn[v] \subseteq Msgs \ {m}
      /\ \A k \in Msgs : before[k] \subseteq Msgs
      /\ Legacy \subseteq Msgs \ {m}
  BY <1>1, OutboxConstants DEF TypeOK, PlacementInv, InTable
<1>4. \A k \in Msgs : rows[k].place # "absent" => m \notin before[k]
  <2> SUFFICES ASSUME NEW k \in Msgs, rows[k].place # "absent", m \in before[k]
               PROVE  FALSE
    OBVIOUS
  <2>1. rows[k].place = "table" \/ \E v \in Writers : k \in txn[v]
    BY DEF TypeOK, Row, PlacementInv
  <2> QED BY <1>1, <1>3, <2>1 DEF PlacementInv, InTable
<1>5. \A k \in Msgs : rows[k].id \in Nat
  BY DEF TypeOK, Row
<1>6. (\A v \in Writers : \A k \in txn[v] : rows[k].place = "open")'
  BY <1>1, <1>2, <1>3 DEF PlacementInv
<1>7. (\A u, v \in Writers : u # v => txn[u] \cap txn[v] = {})'
  BY <1>2, <1>3 DEF PlacementInv
<1>8. (\A k \in Msgs : rows[k].place = "open" => \E v \in Writers : k \in txn[v])'
  BY <1>1, <1>2 DEF PlacementInv
<1>9. (\A k \in Msgs : rows[k].place # "absent" => rows[k].id < nextId)'
  BY <1>1, <1>5 DEF PlacementInv
<1>10. (\A k \in Msgs : rows[k].place # "absent" =>
          \A j \in before[k] : rows[j].id < rows[k].id)'
  <2>1. ASSUME NEW j \in before'[m] PROVE rows'[j].id < rows'[m].id
    BY <1>1, <1>2, <1>3, <2>1 DEF PlacementInv, InTable
  <2> QED BY <1>1, <1>2, <1>3, <1>4, <2>1 DEF PlacementInv
<1>11. (\A k \in Msgs : InTable(k) => \A j \in before[k] : InTable(j))'
  BY <1>1, <1>2, <1>3 DEF PlacementInv, InTable
<1>12. (\A v \in Writers : \A k \in txn[v] : \A j \in before[k] :
          InTable(j) \/ j \in txn[v])'
  BY <1>1, <1>2, <1>3, <1>6, <1>7 DEF PlacementInv, InTable
<1>13. (\A k \in Legacy : InTable(k) /\ before[k] = {})'
  BY <1>1, <1>2, <1>3 DEF PlacementInv, InTable
<1> QED BY <1>6, <1>7, <1>8, <1>9, <1>10, <1>11, <1>12, <1>13 DEF PlacementInv

\* A commit shows the rows of a transaction together with what they follow.
LEMMA CommitPlacement ==
  ASSUME TypeOK, PlacementInv, NEW w \in Writers, Commit(w)
  PROVE  PlacementInv'
<1>1. /\ txn'[w] = {} /\ \A v \in Writers \ {w} : txn'[v] = txn[v]
      /\ \A m \in Msgs : rows'[m].id = rows[m].id
      /\ \A m \in txn[w] : rows'[m].place = "table"
      /\ \A m \in Msgs \ txn[w] : rows'[m] = rows[m]
  BY CommitEffect
<1>2. nextId' = nextId /\ before' = before
  BY DEF Commit
<1>3. /\ \A v \in Writers : txn[v] \subseteq Msgs
      /\ \A k \in Msgs : before[k] \subseteq Msgs
      /\ Legacy \subseteq Msgs
  BY OutboxConstants DEF TypeOK
<1>4. \A k \in Msgs : rows'[k].place # "absent" => rows[k].place # "absent"
  BY <1>1 DEF PlacementInv
<1>5. \A k \in Msgs : rows[k].place = "table" => rows'[k].place = "table"
  BY <1>1 DEF PlacementInv
<1>6. (\A v \in Writers : \A k \in txn[v] : rows[k].place = "open")'
  BY <1>1, <1>3 DEF PlacementInv
<1>7. (\A u, v \in Writers : u # v => txn[u] \cap txn[v] = {})'
  BY <1>1 DEF PlacementInv
<1>8. (\A k \in Msgs : rows[k].place = "open" => \E v \in Writers : k \in txn[v])'
  BY <1>1 DEF PlacementInv
<1>9. (\A k \in Msgs : rows[k].place # "absent" => rows[k].id < nextId)'
  BY <1>1, <1>2, <1>4 DEF PlacementInv
<1>10. (\A k \in Msgs : rows[k].place # "absent" =>
          \A j \in before[k] : rows[j].id < rows[k].id)'
  BY <1>1, <1>2, <1>3, <1>4 DEF PlacementInv
<1>11. (\A k \in Msgs : InTable(k) => \A j \in before[k] : InTable(j))'
  BY <1>1, <1>2, <1>3, <1>5 DEF PlacementInv, InTable
<1>12. (\A v \in Writers : \A k \in txn[v] : \A j \in before[k] :
          InTable(j) \/ j \in txn[v])'
  BY <1>1, <1>2, <1>3, <1>5 DEF PlacementInv, InTable
<1>13. (\A k \in Legacy : InTable(k) /\ before[k] = {})'
  BY <1>2, <1>3, <1>5 DEF PlacementInv, InTable
<1> QED BY <1>6, <1>7, <1>8, <1>9, <1>10, <1>11, <1>12, <1>13 DEF PlacementInv

\* A rollback removes rows that no remaining row follows.
LEMMA RollbackPlacement ==
  ASSUME TypeOK, PlacementInv, NEW w \in Writers, Rollback(w)
  PROVE  PlacementInv'
<1>1. /\ txn'[w] = {} /\ \A v \in Writers \ {w} : txn'[v] = txn[v]
      /\ \A m \in txn[w] : rows'[m].place = "absent"
      /\ \A m \in Msgs \ txn[w] : rows'[m] = rows[m] /\ before'[m] = before[m]
      /\ nextId' = nextId
  BY DEF Rollback, TypeOK, AbsentRow
<1>2. /\ \A v \in Writers : txn[v] \subseteq Msgs
      /\ \A k \in Msgs : before[k] \subseteq Msgs
      /\ Legacy \subseteq Msgs \ txn[w]
  BY OutboxConstants DEF TypeOK, PlacementInv, InTable
<1>3. \A k \in Msgs : rows'[k].place # "absent" =>
         k \notin txn[w] /\ before[k] \cap txn[w] = {}
  <2> SUFFICES ASSUME NEW k \in Msgs, k \notin txn[w], rows[k].place # "absent",
                      NEW j \in before[k], j \in txn[w]
               PROVE  FALSE
    BY <1>1
  <2>1. rows[k].place = "table" \/ \E v \in Writers : k \in txn[v]
    BY DEF TypeOK, Row, PlacementInv
  <2>2. rows[j].place = "open"
    BY DEF PlacementInv
  <2>3. CASE rows[k].place = "table"
    BY <2>2, <2>3 DEF PlacementInv, InTable
  <2>4. ASSUME NEW v \in Writers, k \in txn[v] PROVE FALSE
    <3>1. v # w
      BY <2>4
    <3>2. j \in txn[v]
      BY <2>2, <2>4 DEF PlacementInv, InTable
    <3> QED BY <3>1, <3>2 DEF PlacementInv
  <2> QED BY <2>1, <2>3, <2>4
<1>4. (\A v \in Writers : \A k \in txn[v] : rows[k].place = "open")'
  BY <1>1, <1>2 DEF PlacementInv
<1>5. (\A u, v \in Writers : u # v => txn[u] \cap txn[v] = {})'
  BY <1>1 DEF PlacementInv
<1>6. (\A k \in Msgs : rows[k].place = "open" => \E v \in Writers : k \in txn[v])'
  BY <1>1 DEF PlacementInv
<1>7. (\A k \in Msgs : rows[k].place # "absent" => rows[k].id < nextId)'
  BY <1>1 DEF PlacementInv
<1>8. (\A k \in Msgs : rows[k].place # "absent" =>
          \A j \in before[k] : rows[j].id < rows[k].id)'
  BY <1>1, <1>2, <1>3 DEF PlacementInv
<1>9. (\A k \in Msgs : InTable(k) => \A j \in before[k] : InTable(j))'
  BY <1>1, <1>2, <1>3 DEF PlacementInv, InTable
<1>10. (\A v \in Writers : \A k \in txn[v] : \A j \in before[k] :
          InTable(j) \/ j \in txn[v])'
  BY <1>1, <1>2, <1>3, <1>4 DEF PlacementInv, InTable
<1>11. (\A k \in Legacy : InTable(k) /\ before[k] = {})'
  BY <1>1, <1>2 DEF PlacementInv, InTable
<1> QED BY <1>4, <1>5, <1>6, <1>7, <1>8, <1>9, <1>10, <1>11 DEF PlacementInv

\* Only transactions change which rows there are.
LEMMA OtherStepsKeepRows ==
  ASSUME TypeOK, [Next]_vars,
         \A w \in Writers : /\ \A m \in Msgs : ~EnqueueOutbox(w, m)
                            /\ ~Commit(w) /\ ~Rollback(w)
  PROVE  Kept
<1>0. ASSUME rows' = rows, nextId' = nextId, txn' = txn, before' = before
      PROVE  Kept
  BY <1>0 DEF Kept, SameIdentity, TypeOK
<1>1. ASSUME NEW m \in Msgs,
             \/ \E w \in Writers : BackfillFingerprint(w, m)
             \/ LeaseExpires(m)
             \/ BecomesAvailable(m)
             \/ AuditRetention(m)
      PROVE  Kept
  BY <1>1, FlagEffect
<1>2. ASSUME NEW a \in Workers, NEW m \in Msgs, ClaimOutbox(a, m)
      PROVE  Kept
  <2>1. a \in Agents /\ a \in Owners /\ DispatchId(nonce) \in RecIds
    BY DispatchIdType DEF TypeOK, Agents, Owners
  <2> QED BY <1>2, <2>1, ClaimEffect DEF ClaimOutbox
<1>3. ASSUME NEW a \in Tools, NEW m \in Msgs, NEW rid \in ToolIds,
             ClaimReadyOutboxExact(a, m, rid) \/ ClaimExpiredOutboxExact(a, m, rid)
      PROVE  Kept
  <2>1. a \in Agents /\ rid \in Owners /\ rid \in RecIds
    BY DEF RecIds, Agents, Owners
  <2> QED BY <1>3, <2>1, ClaimEffect DEF ClaimReadyOutboxExact, ClaimExpiredOutboxExact
<1>4. ASSUME NEW a \in Agents, RejectPayload(a) \/ Publish(a) \/ Crash(a)
      PROVE  Kept
  BY <1>0, <1>4 DEF RejectPayload, Publish, Crash
<1>5. ASSUME NEW a \in Agents, Acknowledge(a) PROVE Kept
  <2>1. CASE rows' = rows
    BY <1>0, <1>5, <2>1 DEF Acknowledge
  <2> QED BY <1>5, <2>1, AckEffect
<1>6. ASSUME NEW a \in Agents, MarkOutcomeUnknown(a) PROVE Kept
  <2>1. CASE rows' = rows
    BY <1>0, <1>6, <2>1 DEF MarkOutcomeUnknown
  <2> QED BY <1>6, <2>1, MarkEffect
<1>7. CASE Operator
  BY <1>7, QuarantineEffect, ResolveEffect, FailEffect DEF Operator
<1>8. CASE UNCHANGED vars
  BY <1>0, <1>8 DEF vars
<1> QED
  BY <1>1, <1>2, <1>3, <1>4, <1>5, <1>6, <1>7, <1>8
  DEF Next, Transactions, Dispatch, ToolStep, Environment, Agents

\* Every step keeps the placement of the rows.
LEMMA NextPlacement == TypeOK /\ PlacementInv /\ [Next]_vars => PlacementInv'
BY EnqueuePlacement, CommitPlacement, RollbackPlacement, OtherStepsKeepRows,
   KeptPlacement

-----------------------------------------------------------------------------
(***************************************************************************)
(* Delivery: rows, claims and copies.                                      *)
(***************************************************************************)

\* The types of a row's delivery columns and of a claim.
LEMMA RowTypes ==
  ASSUME TypeOK
  PROVE  /\ \A m \in Msgs : /\ rows[m].attempts \in Nat
                            /\ rows[m].state \in RecStates
                            /\ accepted[m] \in Nat
         /\ \A a \in Agents : agent[a] # Idle => /\ agent[a].msg \in Msgs
                                                 /\ agent[a] \in Claim
BY DEF TypeOK, Row, Claim

\* No process holds a row that is not committed, unclaimed or in doubt.
LEMMA Unclaimed ==
  ASSUME TypeOK, DeliveryInv, NEW m \in Msgs,
         \/ rows[m].place # "table"
         \/ rows[m].state \in {"NONE", "PUBLISH_OUTCOME_UNKNOWN"}
  PROVE  \A a \in Agents : agent[a] # Idle => agent[a].msg # m
<1> SUFFICES ASSUME NEW a \in Agents, agent[a] # Idle, agent[a].msg = m
             PROVE  FALSE
  OBVIOUS
<1>1. GoodClaim(agent[a], rows[m], accepted[m])
  BY DEF DeliveryInv, AgentInv
<1>2. agent[a].pc \in {"claimed", "acking", "marking"}
  BY RowTypes DEF Claim
<1> QED BY <1>1, <1>2 DEF GoodClaim

\* Initially nothing was claimed under the current protocol.
LEMMA InitDelivery == Init => DeliveryInv
<1> SUFFICES ASSUME Init PROVE DeliveryInv
  OBVIOUS
<1>1. RowInv
  <2> SUFFICES ASSUME NEW m \in Msgs PROVE GoodRow(m, rows[m])
    BY DEF RowInv
  <2> QED BY InitRows DEF GoodRow
<1>2. \A a \in Agents : agent[a] = Idle
  BY DEF Init
<1>3. CopiesInv
  BY InitRows DEF CopiesInv, Init
<1> QED BY <1>1, <1>2, <1>3 DEF DeliveryInv, AgentInv, ExclusiveClaim

\* A step that changes only row m, which no process holds.
LEMMA QuietStep ==
  ASSUME TypeOK, DeliveryInv, NEW m \in Msgs,
         \A k \in Msgs \ {m} : rows'[k] = rows[k],
         GoodRow(m, rows'[m]), agent' = agent, accepted' = accepted,
         \A a \in Agents : agent[a] # Idle => agent[a].msg # m,
         accepted[m] <= rows'[m].attempts,
         rows'[m].published => accepted[m] >= 1
  PROVE  DeliveryInv'
<1>1. RowInv'
  BY DEF DeliveryInv, RowInv
<1>2. AgentInv'
  BY RowTypes DEF DeliveryInv, AgentInv
<1>3. ExclusiveClaim'
  BY DEF DeliveryInv, ExclusiveClaim
<1>4. CopiesInv'
  BY DEF DeliveryInv, CopiesInv
<1> QED BY <1>1, <1>2, <1>3, <1>4 DEF DeliveryInv

\* An insert creates an unattempted row.
LEMMA EnqueueDelivery ==
  ASSUME TypeOK, PlacementInv, DeliveryInv, NEW w \in Writers, NEW m \in Msgs,
         EnqueueOutbox(w, m)
  PROVE  DeliveryInv'
<1>1. /\ rows[m].place = "absent"
      /\ rows'[m] = NewRow(nextId, Service[w])
      /\ \A k \in Msgs \ {m} : rows'[k] = rows[k]
      /\ agent' = agent /\ accepted' = accepted
  BY DEF EnqueueOutbox, TypeOK
<1>2. GoodRow(m, rows'[m]) /\ rows'[m].attempts = 0 /\ ~rows'[m].published
  BY <1>1 DEF NewRow, GoodRow
<1>3. accepted[m] <= 0
  BY <1>1, RowTypes DEF DeliveryInv, CopiesInv, RowInv, GoodRow
<1>4. \A a \in Agents : agent[a] # Idle => agent[a].msg # m
  BY <1>1, Unclaimed
<1> QED BY <1>1, <1>2, <1>3, <1>4, QuietStep

\* Steps that leave the delivery columns alone and hide no row.
LEMMA SameDeliveryStep ==
  ASSUME TypeOK, DeliveryInv, agent' = agent, accepted' = accepted,
         \A k \in Msgs : /\ SameDelivery(rows[k], rows'[k])
                         /\ rows[k].place = "table" => rows'[k].place = "table"
  PROVE  DeliveryInv'
<1>1. RowInv'
  BY DEF DeliveryInv, RowInv, GoodRow, SameDelivery
<1>2. AgentInv'
  BY RowTypes DEF DeliveryInv, AgentInv, GoodClaim, SameDelivery
<1>3. ExclusiveClaim'
  BY DEF DeliveryInv, ExclusiveClaim
<1>4. CopiesInv'
  BY DEF DeliveryInv, CopiesInv, SameDelivery
<1> QED BY <1>1, <1>2, <1>3, <1>4 DEF DeliveryInv

\* A rollback removes rows that were never attempted.
LEMMA RollbackDelivery ==
  ASSUME TypeOK, PlacementInv, DeliveryInv, NEW w \in Writers, Rollback(w)
  PROVE  DeliveryInv'
<1>1. /\ \A m \in txn[w] : rows'[m] = AbsentRow /\ rows[m].place = "open"
      /\ \A m \in Msgs \ txn[w] : rows'[m] = rows[m]
      /\ txn[w] \subseteq Msgs
      /\ agent' = agent /\ accepted' = accepted
  BY DEF Rollback, TypeOK, PlacementInv
<1>2. \A m \in txn[w] : /\ GoodRow(m, rows'[m]) /\ rows'[m].attempts = 0
                        /\ ~rows'[m].published
  BY <1>1 DEF AbsentRow, GoodRow
<1>3. \A m \in txn[w] : accepted[m] <= 0
  BY <1>1, RowTypes DEF DeliveryInv, CopiesInv, RowInv, GoodRow
<1>4. \A a \in Agents : agent[a] # Idle => agent[a].msg \notin txn[w]
  BY <1>1, Unclaimed
<1>5. RowInv'
  BY <1>1, <1>2 DEF DeliveryInv, RowInv
<1>6. AgentInv'
  BY <1>1, <1>4, RowTypes DEF DeliveryInv, AgentInv
<1>7. ExclusiveClaim'
  BY <1>1 DEF DeliveryInv, ExclusiveClaim
<1>8. CopiesInv'
  BY <1>1, <1>2, <1>3 DEF DeliveryInv, CopiesInv
<1> QED BY <1>5, <1>6, <1>7, <1>8 DEF DeliveryInv

\* A claim takes an unclaimed, unsettled row and starts a new attempt.
LEMMA ClaimDelivery ==
  ASSUME TypeOK, DeliveryInv, NEW a \in Agents, NEW m \in Msgs, NEW o \in Owners,
         NEW rid \in RecIds, rid # NoOne, ClaimRow(a, m, o, rid),
         rows[m].place = "table", rows[m].state = "NONE", Unsettled(m)
  PROVE  DeliveryInv'
<1>1. /\ Kept
      /\ \A k \in Msgs \ {m} : rows'[k] = rows[k]
      /\ rows'[m].attempts = rows[m].attempts + 1
      /\ rows'[m].state = "PUBLISHING" /\ rows'[m].rid = rid
      /\ rows'[m].published = rows[m].published
      /\ rows'[m].dead = rows[m].dead
      /\ agent'[a] # Idle /\ agent'[a].pc = "claimed" /\ agent'[a].msg = m
      /\ agent'[a].attempts = rows[m].attempts + 1 /\ agent'[a].rid = rid
      /\ \A b \in Agents \ {a} : agent'[b] = agent[b]
      /\ accepted' = accepted
  BY ClaimEffect
<1>2. rows'[m].place = "table"
  BY <1>1 DEF Kept, SameIdentity
<1>3. \A b \in Agents : agent[b] # Idle => agent[b].msg # m
  BY Unclaimed
<1>4. rows[m].attempts \in Nat /\ accepted[m] \in Nat /\ accepted[m] <= rows[m].attempts
  BY RowTypes DEF DeliveryInv, CopiesInv
<1>5. GoodRow(m, rows'[m])
  BY <1>1, <1>2, <1>4 DEF DeliveryInv, RowInv, GoodRow, Unsettled
<1>6. RowInv'
  BY <1>1, <1>5 DEF DeliveryInv, RowInv
<1>7. AgentInv'
  <2>1. GoodClaim(agent'[a], rows'[m], accepted'[m])
    BY <1>1, <1>2, <1>4 DEF GoodClaim
  <2> QED BY <1>1, <1>3, <2>1, RowTypes DEF DeliveryInv, AgentInv
<1>8. ExclusiveClaim'
  BY <1>1, <1>3 DEF DeliveryInv, ExclusiveClaim
<1>9. CopiesInv'
  BY <1>1, <1>4 DEF DeliveryInv, CopiesInv, Unsettled
<1> QED BY <1>6, <1>7, <1>8, <1>9 DEF DeliveryInv

\* A process that moves on to its durable outcome, with no new copy.
LEMMA MarkingDelivery ==
  ASSUME TypeOK, DeliveryInv, NEW a \in Agents, Goto(a, "marking"),
         agent[a].pc \in {"claimed", "acking"}, rows' = rows, accepted' = accepted
  PROVE  DeliveryInv'
<1>1. /\ agent'[a] # Idle /\ agent'[a].pc = "marking"
      /\ agent'[a].msg = agent[a].msg
      /\ agent'[a].attempts = agent[a].attempts
      /\ agent'[a].rid = agent[a].rid
      /\ \A b \in Agents \ {a} : agent'[b] = agent[b]
  BY GotoEffect
<1>2. agent[a] # Idle
  BY BusyAgent
<1>3. RowInv' /\ CopiesInv'
  BY DEF DeliveryInv, RowInv, CopiesInv
<1>4. AgentInv'
  BY <1>1, <1>2 DEF DeliveryInv, AgentInv, GoodClaim
<1>5. ExclusiveClaim'
  BY <1>1, <1>2 DEF DeliveryInv, ExclusiveClaim
<1> QED BY <1>3, <1>4, <1>5 DEF DeliveryInv

\* The one transport call of a claim adds the one copy its attempt pays for.
LEMMA PublishDelivery ==
  ASSUME TypeOK, DeliveryInv, NEW a \in Agents, Publish(a)
  PROVE  DeliveryInv'
<1> DEFINE m == agent[a].msg
<1>1. agent[a].pc = "claimed" /\ agent[a] # Idle /\ m \in Msgs /\ rows' = rows
  BY BusyAgent DEF Publish
<1>2. CASE accepted' = accepted
  BY <1>1, <1>2, MarkingDelivery, RowTypes DEF Publish, TypeOK
<1>3. ASSUME NEW pc \in {"acking", "marking"}, Goto(a, pc),
             accepted' = [accepted EXCEPT ![m] = @ + 1]
      PROVE  DeliveryInv'
  <2>1. /\ agent'[a] # Idle /\ agent'[a].pc = pc /\ agent'[a].msg = m
        /\ agent'[a].attempts = agent[a].attempts
        /\ agent'[a].rid = agent[a].rid
        /\ \A b \in Agents \ {a} : agent'[b] = agent[b]
    BY <1>1, <1>3, GotoEffect
  <2>2. /\ accepted'[m] = accepted[m] + 1
        /\ \A k \in Msgs \ {m} : accepted'[k] = accepted[k]
        /\ accepted[m] \in Nat /\ rows[m].attempts \in Nat
    BY <1>1, <1>3, RowTypes DEF TypeOK
  <2>3. GoodClaim(agent[a], rows[m], accepted[m])
    BY <1>1 DEF DeliveryInv, AgentInv
  <2>4. \A b \in Agents \ {a} : agent[b] # Idle => agent[b].msg # m
    BY <1>1 DEF DeliveryInv, ExclusiveClaim
  <2>5. RowInv'
    BY <1>1 DEF DeliveryInv, RowInv
  <2>6. AgentInv'
    <3>1. GoodClaim(agent'[a], rows'[m], accepted'[m])
      BY <1>1, <1>3, <2>1, <2>2, <2>3 DEF GoodClaim
    <3> QED BY <1>1, <2>1, <2>2, <2>4, <3>1, RowTypes DEF DeliveryInv, AgentInv
  <2>7. ExclusiveClaim'
    BY <1>1, <2>1 DEF DeliveryInv, ExclusiveClaim
  <2>8. CopiesInv'
    BY <1>1, <2>2, <2>3 DEF DeliveryInv, CopiesInv, GoodClaim
  <2> QED BY <2>5, <2>6, <2>7, <2>8 DEF DeliveryInv
<1> QED BY <1>1, <1>2, <1>3 DEF Publish

\* An acknowledgement, applied or not, answered or not.
LEMMA AckDelivery ==
  ASSUME TypeOK, DeliveryInv, NEW a \in Agents, Acknowledge(a)
  PROVE  DeliveryInv'
<1> DEFINE m == agent[a].msg
<1>1. /\ agent[a].pc = "acking" /\ agent[a] # Idle /\ m \in Msgs
      /\ accepted' = accepted
  BY BusyAgent DEF Acknowledge
<1>2. /\ agent'[a] = Idle \/ /\ agent'[a] # Idle /\ agent'[a].pc = "marking"
                             /\ agent'[a].msg = m
                             /\ agent'[a].attempts = agent[a].attempts
                             /\ agent'[a].rid = agent[a].rid
      /\ \A b \in Agents \ {a} : agent'[b] = agent[b]
  BY <1>1, GotoEffect, ReleaseEffect DEF Acknowledge
<1>3. \A b \in Agents \ {a} : agent[b] # Idle => agent[b].msg # m
  BY <1>1 DEF DeliveryInv, ExclusiveClaim
<1>4. GoodClaim(agent[a], rows[m], accepted[m])
  BY <1>1 DEF DeliveryInv, AgentInv
<1>5. ExclusiveClaim'
  BY <1>1, <1>2 DEF DeliveryInv, ExclusiveClaim
<1>6. CASE rows' = rows
  <2>1. RowInv' /\ CopiesInv'
    BY <1>1, <1>6 DEF DeliveryInv, RowInv, CopiesInv
  <2>2. AgentInv'
    BY <1>1, <1>2, <1>4, <1>6 DEF DeliveryInv, AgentInv, GoodClaim
  <2> QED BY <1>5, <2>1, <2>2 DEF DeliveryInv
<1>7. CASE rows' # rows
  <2>1. /\ Kept
        /\ \A k \in Msgs \ {m} : rows'[k] = rows[k]
        /\ rows'[m].attempts = rows[m].attempts
        /\ rows'[m].rid = rows[m].rid
        /\ rows'[m].state = "ACKNOWLEDGED" /\ rows'[m].owner = NoOne
        /\ rows'[m].published /\ rows'[m].dead = rows[m].dead
    BY <1>7, AckEffect
  <2>2. rows'[m].place = "table"
    BY <1>1, <1>4, <2>1 DEF Kept, SameIdentity, GoodClaim
  <2>3. RowInv'
    <3>1. GoodRow(m, rows'[m])
      BY <1>1, <1>4, <2>1, <2>2 DEF DeliveryInv, RowInv, GoodRow, GoodClaim
    <3> QED BY <2>1, <3>1 DEF DeliveryInv, RowInv
  <2>4. AgentInv'
    <3>1. agent'[a] # Idle => GoodClaim(agent'[a], rows'[m], accepted'[m])
      BY <1>1, <1>2, <1>4, <2>1, <2>2 DEF GoodClaim
    <3> QED BY <1>1, <1>2, <1>3, <2>1, <3>1, RowTypes DEF DeliveryInv, AgentInv
  <2>5. CopiesInv'
    BY <1>1, <1>4, <2>1 DEF DeliveryInv, CopiesInv, GoodClaim
  <2> QED BY <1>5, <2>3, <2>4, <2>5 DEF DeliveryInv
<1> QED BY <1>6, <1>7

\* A process that ends its claim, marking the row or not.
LEMMA MarkDelivery ==
  ASSUME TypeOK, DeliveryInv, NEW a \in Agents, MarkOutcomeUnknown(a)
  PROVE  DeliveryInv'
<1> DEFINE m == agent[a].msg
<1>1. /\ agent[a].pc = "marking" /\ agent[a] # Idle /\ m \in Msgs
      /\ accepted' = accepted
  BY BusyAgent DEF MarkOutcomeUnknown
<1>2. agent'[a] = Idle /\ \A b \in Agents \ {a} : agent'[b] = agent[b]
  BY ReleaseEffect DEF MarkOutcomeUnknown
<1>3. \A b \in Agents \ {a} : agent[b] # Idle => agent[b].msg # m
  BY <1>1 DEF DeliveryInv, ExclusiveClaim
<1>4. ExclusiveClaim'
  BY <1>2 DEF DeliveryInv, ExclusiveClaim
<1>5. CASE rows' = rows
  BY <1>1, <1>2, <1>4, <1>5 DEF DeliveryInv, RowInv, CopiesInv, AgentInv
<1>6. CASE rows' # rows
  <2>1. /\ Kept /\ HoldsClaim(a)
        /\ \A k \in Msgs \ {m} : rows'[k] = rows[k]
        /\ rows'[m].attempts = rows[m].attempts
        /\ rows'[m].rid = rows[m].rid
        /\ rows'[m].state = "PUBLISH_OUTCOME_UNKNOWN"
        /\ rows'[m].owner = NoOne /\ rows'[m].error = "short"
        /\ rows'[m].published = rows[m].published
        /\ rows'[m].dead = rows[m].dead
    BY <1>6, MarkEffect
  <2>2. rows[m].place = "table" /\ rows[m].state = "PUBLISHING"
        /\ ~rows[m].published
    BY <2>1 DEF HoldsClaim
  <2>3. rows'[m].place = "table"
    BY <1>1, <2>1, <2>2 DEF Kept, SameIdentity
  <2>4. RowInv'
    <3>1. GoodRow(m, rows'[m])
      BY <1>1, <2>1, <2>2, <2>3 DEF DeliveryInv, RowInv, GoodRow
    <3> QED BY <2>1, <3>1 DEF DeliveryInv, RowInv
  <2>5. AgentInv'
    BY <1>1, <1>2, <1>3, <2>1, RowTypes DEF DeliveryInv, AgentInv
  <2>6. CopiesInv'
    BY <1>1, <2>1, <2>2 DEF DeliveryInv, CopiesInv
  <2> QED BY <1>4, <2>4, <2>5, <2>6 DEF DeliveryInv
<1> QED BY <1>5, <1>6

\* A crash forgets a claim and leaves the row as it is.
LEMMA CrashDelivery ==
  ASSUME TypeOK, DeliveryInv, NEW a \in Agents, Crash(a)
  PROVE  DeliveryInv'
<1>1. agent'[a] = Idle /\ \A b \in Agents \ {a} : agent'[b] = agent[b]
  BY ReleaseEffect DEF Crash
<1>2. rows' = rows /\ accepted' = accepted
  BY DEF Crash
<1> QED BY <1>1, <1>2 DEF DeliveryInv, RowInv, CopiesInv, AgentInv, ExclusiveClaim

\* The three operator primitives work on rows that no process holds.
LEMMA OperatorDelivery ==
  ASSUME TypeOK, DeliveryInv, Operator
  PROVE  DeliveryInv'
<1> USE OutboxConstants
<1>1. ASSUME NEW m \in Msgs, NEW rid \in ToolIds, NEW e \in {"short", "long"},
             QuarantineExpiredOutboxExact(m, rid, e)
      PROVE  DeliveryInv'
  <2>1. /\ rows[m].state = "NONE" /\ rows[m].place = "table" /\ Unsettled(m)
        /\ agent' = agent /\ accepted' = accepted
    BY <1>1 DEF QuarantineExpiredOutboxExact, ExactRow, InTable
  <2>2. /\ Kept
        /\ \A k \in Msgs \ {m} : rows'[k] = rows[k]
        /\ rows'[m].attempts = rows[m].attempts
        /\ rows'[m].rid = rid
        /\ rows'[m].state = "PUBLISH_OUTCOME_UNKNOWN"
        /\ rows'[m].owner = NoOne /\ rows'[m].error = e
        /\ rows'[m].published = rows[m].published
        /\ rows'[m].dead = rows[m].dead
    BY <1>1, QuarantineEffect
  <2>3. rows'[m].place = "table"
    BY <2>1, <2>2 DEF Kept, SameIdentity
  <2>4. GoodRow(m, rows'[m])
    BY <2>1, <2>2, <2>3 DEF DeliveryInv, RowInv, GoodRow, Unsettled
  <2>5. accepted[m] <= rows'[m].attempts /\ ~rows'[m].published
    BY <2>1, <2>2 DEF DeliveryInv, CopiesInv, Unsettled
  <2>6. \A a \in Agents : agent[a] # Idle => agent[a].msg # m
    BY <2>1, Unclaimed
  <2> QED BY <2>1, <2>2, <2>4, <2>5, <2>6, QuietStep
<1>2. ASSUME NEW m \in Msgs, NEW rid, NEW n \in 0..accepted[m],
             ResolveUnknownOutbox(m, rid, n)
      PROVE  DeliveryInv'
  <2>1. /\ rows[m].state = "PUBLISH_OUTCOME_UNKNOWN" /\ rows[m].place = "table"
        /\ rows[m].owner = NoOne
        /\ agent' = agent /\ accepted' = accepted /\ n = 1
    BY <1>2 DEF ResolveUnknownOutbox, Resolvable, InTable
  <2>2. /\ Kept
        /\ \A k \in Msgs \ {m} : rows'[k] = rows[k]
        /\ rows'[m].attempts = rows[m].attempts
        /\ rows'[m].rid = rows[m].rid
        /\ rows'[m].state = "ACKNOWLEDGED"
        /\ rows'[m].owner = rows[m].owner
        /\ rows'[m].published
        /\ rows'[m].dead = rows[m].dead
    BY <1>2, ResolveEffect
  <2>3. rows'[m].place = "table"
    BY <2>1, <2>2 DEF Kept, SameIdentity
  <2>4. GoodRow(m, rows'[m])
    BY <2>1, <2>2, <2>3 DEF DeliveryInv, RowInv, GoodRow
  <2>5. accepted[m] <= rows'[m].attempts /\ accepted[m] >= 1
    BY <1>2, <2>1, <2>2, RowTypes DEF DeliveryInv, CopiesInv
  <2>6. \A a \in Agents : agent[a] # Idle => agent[a].msg # m
    BY <2>1, Unclaimed
  <2> QED BY <2>1, <2>2, <2>4, <2>5, <2>6, QuietStep
<1>3. ASSUME NEW m \in Msgs, NEW limit \in AttemptLimits, FailOutbox(m, limit)
      PROVE  DeliveryInv'
  <2>1. /\ rows[m].state = "NONE" /\ rows[m].place = "table" /\ rows[m].owner # NoOne
        /\ ~rows[m].published
        /\ agent' = agent /\ accepted' = accepted
    BY <1>3 DEF FailOutbox, InTable
  <2>2. /\ Kept
        /\ \A k \in Msgs \ {m} : rows'[k] = rows[k]
        /\ rows'[m].attempts = rows[m].attempts
        /\ rows'[m].rid = rows[m].rid
        /\ rows'[m].state = rows[m].state
        /\ rows'[m].owner = NoOne
        /\ rows'[m].published = rows[m].published
    BY <1>3, FailEffect
  <2>3. rows'[m].place = "table"
    BY <2>1, <2>2 DEF Kept, SameIdentity
  <2>4. GoodRow(m, rows'[m])
    BY <2>1, <2>2, <2>3 DEF DeliveryInv, RowInv, GoodRow
  <2>5. accepted[m] <= rows'[m].attempts /\ ~rows'[m].published
    BY <2>1, <2>2 DEF DeliveryInv, CopiesInv
  <2>6. \A a \in Agents : agent[a] # Idle => agent[a].msg # m
    BY <2>1, Unclaimed
  <2> QED BY <2>1, <2>2, <2>4, <2>5, <2>6, QuietStep
<1> QED BY <1>1, <1>2, <1>3 DEF Operator

\* Every step keeps rows, claims and copies in agreement.
LEMMA NextDelivery ==
  TypeOK /\ PlacementInv /\ DeliveryInv /\ [Next]_vars => DeliveryInv'
<1> SUFFICES ASSUME TypeOK, PlacementInv, DeliveryInv, [Next]_vars
             PROVE  DeliveryInv'
  OBVIOUS
<1>1. ASSUME NEW w \in Writers, NEW m \in Msgs, EnqueueOutbox(w, m)
      PROVE  DeliveryInv'
  BY <1>1, EnqueueDelivery
<1>2. ASSUME NEW m \in Msgs,
             \/ \E w \in Writers : BackfillFingerprint(w, m)
             \/ LeaseExpires(m)
             \/ BecomesAvailable(m)
             \/ AuditRetention(m)
      PROVE  DeliveryInv'
  BY <1>2, FlagEffect, SameDeliveryStep DEF Kept, SameIdentity
<1>3. ASSUME NEW w \in Writers, Commit(w) PROVE DeliveryInv'
  <2>1. /\ \A m \in Msgs : SameDelivery(rows[m], rows'[m])
        /\ \A m \in txn[w] : rows'[m].place = "table"
        /\ \A m \in Msgs \ txn[w] : rows'[m] = rows[m]
    BY <1>3, CommitEffect
  <2>2. agent' = agent /\ accepted' = accepted
    BY <1>3 DEF Commit
  <2> QED BY <2>1, <2>2, SameDeliveryStep
<1>4. ASSUME NEW w \in Writers, Rollback(w) PROVE DeliveryInv'
  BY <1>4, RollbackDelivery
<1>5. ASSUME NEW a \in Workers, NEW m \in Msgs, ClaimOutbox(a, m)
      PROVE  DeliveryInv'
  <2>1. a \in Agents /\ a \in Owners /\ DispatchId(nonce) \in RecIds
        /\ DispatchId(nonce) # NoOne
    BY DispatchIdType, OutboxConstants DEF TypeOK, Agents, Owners, DispatchId
  <2> QED BY <1>5, <2>1, ClaimDelivery DEF ClaimOutbox, InTable
<1>6. ASSUME NEW a \in Tools, NEW m \in Msgs, NEW rid \in ToolIds,
             ClaimReadyOutboxExact(a, m, rid) \/ ClaimExpiredOutboxExact(a, m, rid)
      PROVE  DeliveryInv'
  <2>1. a \in Agents /\ rid \in Owners /\ rid \in RecIds /\ rid # NoOne
    BY OutboxConstants DEF RecIds, Agents, Owners
  <2>2. /\ ClaimRow(a, m, rid, rid) /\ rows[m].place = "table"
        /\ rows[m].state = "NONE" /\ Unsettled(m)
    BY <1>6 DEF ClaimReadyOutboxExact, ClaimExpiredOutboxExact, ExactClaimable,
                ExactRow, InTable
  <2> QED BY <2>1, <2>2, ClaimDelivery
<1>7. ASSUME NEW a \in Agents, RejectPayload(a) PROVE DeliveryInv'
  BY <1>7, MarkingDelivery DEF RejectPayload
<1>8. ASSUME NEW a \in Agents, Publish(a) PROVE DeliveryInv'
  BY <1>8, PublishDelivery
<1>9. ASSUME NEW a \in Agents, Acknowledge(a) PROVE DeliveryInv'
  BY <1>9, AckDelivery
<1>10. ASSUME NEW a \in Agents, MarkOutcomeUnknown(a) PROVE DeliveryInv'
  BY <1>10, MarkDelivery
<1>11. ASSUME NEW a \in Agents, Crash(a) PROVE DeliveryInv'
  BY <1>11, CrashDelivery
<1>12. CASE Operator
  BY <1>12, OperatorDelivery
<1>13. CASE UNCHANGED vars
  BY <1>13 DEF vars, DeliveryInv, RowInv, AgentInv, ExclusiveClaim, CopiesInv
<1> QED
  BY <1>1, <1>2, <1>3, <1>4, <1>5, <1>6, <1>7, <1>8, <1>9, <1>10, <1>11, <1>12,
     <1>13
  DEF Next, Transactions, Dispatch, ToolStep, Environment, Agents

-----------------------------------------------------------------------------
(***************************************************************************)
(* Finality and order.                                                     *)
(***************************************************************************)

\* What a step may do to a row: never undo an attempt or a settlement, and
\* take a row of the current protocol out of NONE only when it is the head.
RowStep(m) ==
  /\ FinalRow(rows[m], rows'[m])
  /\ (m \notin Legacy /\ rows[m].state = "NONE" /\ rows'[m].state # "NONE") =>
        InTable(m) /\ IsHead(m)

\* A row that keeps its delivery columns takes no step.
LEMMA SameRowStep ==
  ASSUME NEW m \in Msgs, SameDelivery(rows[m], rows'[m])
  PROVE  RowStep(m)
BY DEF RowStep, FinalRow, SameDelivery

\* Every step of the system is a legal step of every row.
LEMMA NextRowStep ==
  ASSUME TypeOK, PlacementInv, DeliveryInv, [Next]_vars, NEW m \in Msgs
  PROVE  RowStep(m)
<1>0. GoodRow(m, rows[m])
  BY DEF DeliveryInv, RowInv
<1>a. ASSUME rows'[m] = rows[m] PROVE RowStep(m)
  BY <1>a, SameRowStep DEF SameDelivery
<1>1. ASSUME NEW w \in Writers, NEW k \in Msgs, EnqueueOutbox(w, k)
      PROVE  RowStep(m)
  <2>1. CASE k = m
    <3>1. rows[m].place = "absent" /\ rows'[m] = NewRow(nextId, Service[w])
      BY <1>1, <2>1 DEF EnqueueOutbox, TypeOK
    <3>2. rows'[m].state = "NONE"
      BY <3>1 DEF NewRow
    <3>3. rows[m].state = "NONE" /\ ~rows[m].published /\ ~rows[m].dead
      BY <1>0, <3>1 DEF GoodRow
    <3> QED BY <3>2, <3>3 DEF RowStep, FinalRow
  <2>2. CASE k # m
    BY <1>1, <1>a, <2>2 DEF EnqueueOutbox, TypeOK
  <2> QED BY <2>1, <2>2
<1>2. ASSUME NEW k \in Msgs,
             \/ \E w \in Writers : BackfillFingerprint(w, k)
             \/ LeaseExpires(k)
             \/ BecomesAvailable(k)
             \/ AuditRetention(k)
      PROVE  RowStep(m)
  BY <1>2, FlagEffect, SameRowStep
<1>3. ASSUME NEW w \in Writers, Commit(w) PROVE RowStep(m)
  BY <1>3, CommitEffect, SameRowStep
<1>4. ASSUME NEW w \in Writers, Rollback(w) PROVE RowStep(m)
  <2>1. CASE m \in txn[w]
    <3>1. rows[m].place = "open" /\ rows'[m] = AbsentRow
      BY <1>4, <2>1 DEF Rollback, PlacementInv
    <3>2. rows'[m].state = "NONE"
      BY <3>1 DEF AbsentRow
    <3>3. rows[m].state = "NONE" /\ ~rows[m].published /\ ~rows[m].dead
      BY <1>0, <3>1 DEF GoodRow
    <3> QED BY <3>2, <3>3 DEF RowStep, FinalRow
  <2>2. CASE m \notin txn[w]
    BY <1>4, <1>a, <2>2 DEF Rollback
  <2> QED BY <2>1, <2>2
<1>5. ASSUME NEW a \in Agents, NEW k \in Msgs, NEW o \in Owners,
             NEW rid \in RecIds, ClaimRow(a, k, o, rid), InTable(k), IsHead(k),
             rows[k].state = "NONE"
      PROVE  RowStep(m)
  <2>1. CASE k = m
    BY <1>5, <2>1, ClaimEffect DEF RowStep, FinalRow
  <2>2. CASE k # m
    BY <1>5, <1>a, <2>2, ClaimEffect
  <2> QED BY <2>1, <2>2
<1>6. ASSUME NEW a \in Workers, NEW k \in Msgs, ClaimOutbox(a, k)
      PROVE  RowStep(m)
  <2>1. a \in Agents /\ a \in Owners /\ DispatchId(nonce) \in RecIds
    BY DispatchIdType DEF TypeOK, Agents, Owners
  <2> QED BY <1>5, <1>6, <2>1 DEF ClaimOutbox
<1>7. ASSUME NEW a \in Tools, NEW k \in Msgs, NEW rid \in ToolIds,
             ClaimReadyOutboxExact(a, k, rid) \/ ClaimExpiredOutboxExact(a, k, rid)
      PROVE  RowStep(m)
  <2>1. a \in Agents /\ rid \in Owners /\ rid \in RecIds
    BY DEF RecIds, Agents, Owners
  <2> QED BY <1>5, <1>7, <2>1 DEF ClaimReadyOutboxExact, ClaimExpiredOutboxExact,
                                  ExactClaimable, ExactRow
<1>8. ASSUME NEW a \in Agents, RejectPayload(a) \/ Publish(a) \/ Crash(a)
      PROVE  RowStep(m)
  BY <1>8, <1>a DEF RejectPayload, Publish, Crash
<1>9. ASSUME NEW a \in Agents, Acknowledge(a) PROVE RowStep(m)
  <2>1. CASE rows' = rows
    BY <1>a, <2>1
  <2>2. CASE rows' # rows /\ agent[a].msg = m
    BY <1>9, <2>2, AckEffect DEF RowStep, FinalRow, HoldsClaim
  <2>3. CASE rows' # rows /\ agent[a].msg # m
    BY <1>9, <1>a, <2>3, AckEffect
  <2> QED BY <2>1, <2>2, <2>3
<1>10. ASSUME NEW a \in Agents, MarkOutcomeUnknown(a) PROVE RowStep(m)
  <2>1. CASE rows' = rows
    BY <1>a, <2>1
  <2>2. CASE rows' # rows /\ agent[a].msg = m
    BY <1>10, <2>2, MarkEffect DEF RowStep, FinalRow, HoldsClaim
  <2>3. CASE rows' # rows /\ agent[a].msg # m
    BY <1>10, <1>a, <2>3, MarkEffect
  <2> QED BY <2>1, <2>2, <2>3
<1>11. CASE Operator
  <2>1. ASSUME NEW k \in Msgs, NEW rid \in ToolIds, NEW e \in {"short", "long"},
               QuarantineExpiredOutboxExact(k, rid, e)
        PROVE  RowStep(m)
    <3>1. CASE k = m
      BY <1>0, <2>1, <3>1, QuarantineEffect
         DEF RowStep, FinalRow, GoodRow, QuarantineExpiredOutboxExact, LeaseExpired
    <3>2. CASE k # m
      BY <1>a, <2>1, <3>2, QuarantineEffect
    <3> QED BY <3>1, <3>2
  <2>2. ASSUME NEW k \in Msgs, NEW rid, NEW n, ResolveUnknownOutbox(k, rid, n)
        PROVE  RowStep(m)
    <3>1. CASE k = m
      BY <1>0, <2>2, <3>1, ResolveEffect DEF RowStep, FinalRow, ResolveUnknownOutbox, Resolvable
    <3>2. CASE k # m
      BY <1>a, <2>2, <3>2, ResolveEffect
    <3> QED BY <3>1, <3>2
  <2>3. ASSUME NEW k \in Msgs, NEW limit \in AttemptLimits, FailOutbox(k, limit)
        PROVE  RowStep(m)
    <3>1. CASE k = m
      BY <1>0, <2>3, <3>1, FailEffect DEF RowStep, FinalRow, GoodRow, FailOutbox
    <3>2. CASE k # m
      BY <1>a, <2>3, <3>2, FailEffect
    <3> QED BY <3>1, <3>2
  <2> QED BY <1>11, <2>1, <2>2, <2>3 DEF Operator
<1>12. CASE UNCHANGED vars
  BY <1>12, <1>a DEF vars
<1> QED
  BY <1>1, <1>2, <1>3, <1>4, <1>6, <1>7, <1>8, <1>9, <1>10, <1>11, <1>12
  DEF Next, Transactions, Dispatch, ToolStep, Environment, Agents

\* A row keeps its producer and predecessors while it stays.
LEMMA IdentityStays ==
  ASSUME TypeOK, PlacementInv, [Next]_vars, NEW m \in Msgs, InTable(m)
  PROVE  rows'[m].producer = rows[m].producer /\ before'[m] = before[m]
<1>1. ASSUME NEW w \in Writers, NEW k \in Msgs, EnqueueOutbox(w, k)
      PROVE  rows'[m].producer = rows[m].producer /\ before'[m] = before[m]
  BY <1>1 DEF EnqueueOutbox, InTable, TypeOK
<1>2. ASSUME NEW w \in Writers, Commit(w)
      PROVE  rows'[m].producer = rows[m].producer /\ before'[m] = before[m]
  BY <1>2, CommitEffect DEF Commit
<1>3. ASSUME NEW w \in Writers, Rollback(w)
      PROVE  rows'[m].producer = rows[m].producer /\ before'[m] = before[m]
  BY <1>3 DEF Rollback, PlacementInv, InTable
<1> QED BY <1>1, <1>2, <1>3, OtherStepsKeepRows DEF Kept, SameIdentity

\* Every step keeps the causal order.
LEMMA NextOrder ==
  TypeOK /\ PlacementInv /\ DeliveryInv /\ OrderInv /\ [Next]_vars => OrderInv'
<1> SUFFICES ASSUME TypeOK, PlacementInv, DeliveryInv, OrderInv, [Next]_vars,
                    NEW m \in Msgs \ Legacy, rows'[m].state # "NONE",
                    NEW k \in before'[m], rows'[k].producer = rows'[m].producer
             PROVE  rows'[k].published \/ rows'[k].dead
  BY DEF OrderInv, Unsettled
<1>1. RowStep(m)
  BY NextRowStep
<1>2. InTable(m)
  BY <1>1 DEF RowStep, DeliveryInv, RowInv, GoodRow, InTable
<1>3. before'[m] = before[m] /\ rows'[m].producer = rows[m].producer
  BY <1>2, IdentityStays
<1>4. k \in Msgs /\ InTable(k) /\ rows[k].id < rows[m].id
  BY <1>2, <1>3 DEF PlacementInv, InTable, TypeOK
<1>5. rows'[k].producer = rows[k].producer
  BY <1>4, IdentityStays
<1>6. ~Unsettled(k)
  <2>1. CASE rows[m].state # "NONE"
    BY <1>3, <1>5, <2>1 DEF OrderInv
  <2>2. CASE rows[m].state = "NONE"
    BY <1>1, <1>3, <1>4, <1>5, <2>2 DEF RowStep, IsHead
  <2> QED BY <2>1, <2>2
<1>7. RowStep(k)
  BY <1>4, NextRowStep
<1> QED BY <1>6, <1>7 DEF RowStep, FinalRow, Unsettled

-----------------------------------------------------------------------------
(***************************************************************************)
(* The theorems.                                                           *)
(***************************************************************************)

\* The inductive invariant holds in every reachable state of the outbox.
THEOREM OutboxInvariant == Spec => []OutboxInv
<1>1. Init => OutboxInv
  <2> SUFFICES ASSUME Init PROVE OrderInv
    BY InitType, InitPlacement, InitDelivery DEF OutboxInv
  <2> QED BY InitRows DEF OrderInv
<1>2. OutboxInv /\ [Next]_vars => OutboxInv'
  BY NextType, NextPlacement, NextDelivery, NextOrder DEF OutboxInv
<1> QED BY <1>1, <1>2, PTL DEF Spec

\* Fail-closed delivery: whatever dispatchers, tools, crashes and lost answers
\* do, a message of the current protocol reaches the stream at most once.
THEOREM AtMostOnce == Spec => []AtMostOncePublish
<1>1. OutboxInv => AtMostOncePublish
  <2> SUFFICES ASSUME OutboxInv, NEW m \in Msgs
               PROVE  /\ accepted[m] <= rows[m].attempts
                      /\ m \notin Legacy => accepted[m] <= 1
    BY DEF AtMostOncePublish
  <2>1. accepted[m] \in Nat /\ rows[m].attempts \in Nat
    BY RowTypes DEF OutboxInv
  <2> QED BY <2>1 DEF OutboxInv, DeliveryInv, CopiesInv, RowInv, GoodRow
<1> QED BY <1>1, OutboxInvariant, PTL

\* published_at is evidence: a published message is on the stream.
THEOREM PublishedIsDelivered == Spec => []PublishedWasAccepted
<1>1. OutboxInv => PublishedWasAccepted
  BY DEF OutboxInv, DeliveryInv, CopiesInv, PublishedWasAccepted
<1> QED BY <1>1, OutboxInvariant, PTL

\* Two processes never work on one row.
THEOREM ClaimsAreExclusive == Spec => []ExclusiveClaim
<1>1. OutboxInv => ExclusiveClaim
  BY DEF OutboxInv, DeliveryInv
<1> QED BY <1>1, OutboxInvariant, PTL

\* A message on the stream has no unsettled causal predecessor of its producer.
THEOREM NoCausalOvertaking == Spec => []CausalOrder
<1>1. OutboxInv => CausalOrder
  <2> SUFFICES ASSUME OutboxInv, NEW m \in Msgs, accepted[m] >= 1,
                      NEW k \in before[m], rows[k].producer = rows[m].producer
               PROVE  ~Unsettled(k)
    BY DEF CausalOrder
  <2>1. CASE m \in Legacy
    BY <2>1 DEF OutboxInv, PlacementInv
  <2>2. CASE m \notin Legacy
    <3>1. rows[m].attempts # 0
      BY RowTypes DEF OutboxInv, DeliveryInv, CopiesInv
    <3>2. rows[m].state # "NONE"
      BY <2>2, <3>1 DEF OutboxInv, DeliveryInv, RowInv, GoodRow
    <3> QED BY <2>2, <3>2 DEF OutboxInv, OrderInv
  <2> QED BY <2>1, <2>2
<1> QED BY <1>1, OutboxInvariant, PTL

\* Attempts and settlements are never undone.
THEOREM AttemptsAreFinal == Spec => ClaimsAreFinal
<1>1. OutboxInv /\ [Next]_vars => [\A m \in Msgs : FinalRow(rows[m], rows'[m])]_vars
  BY NextRowStep DEF OutboxInv, RowStep
<1> QED BY <1>1, OutboxInvariant, PTL DEF Spec, ClaimsAreFinal

-----------------------------------------------------------------------------
(***************************************************************************)
(* Evidence: what was sent stays identifiable.                             *)
(***************************************************************************)

\* Initially every row is audited and nothing was claimed under the protocol.
LEMMA InitEvidence == Init => EvidenceInv
<1> SUFFICES ASSUME Init PROVE EvidenceInv
  OBVIOUS
<1>1. PICK p \in [Legacy -> Producers], shape \in [Legacy -> LegacyShapes] :
        rows = [m \in Msgs |-> IF m \in Legacy
                               THEN LegacyRow(LegacyId[m], p[m], shape[m])
                               ELSE AbsentRow]
  BY DEF Init
<1>2. ASSUME NEW m \in Msgs PROVE GoodEvidence(m, rows[m], accepted[m])
  <2>1. rows[m].state = "NONE"
    BY InitRows
  <2>2. rows[m].place # "absent" => rows[m].audited
    <3>1. CASE m \in Legacy
      <4>1. rows[m] = LegacyRow(LegacyId[m], p[m], shape[m])
        BY <1>1, <3>1
      <4> QED BY <4>1 DEF LegacyRow
    <3>2. CASE m \notin Legacy
      BY <3>2, InitRows
    <3> QED BY <3>1, <3>2
  <2> QED BY <2>1, <2>2 DEF GoodEvidence
<1>3. \A a \in Agents : agent[a] = Idle
  BY DEF Init
<1> QED BY <1>2, <1>3 DEF EvidenceInv

\* A step that changes only row m, which no process holds.
LEMMA QuietEvidence ==
  ASSUME TypeOK, EvidenceInv, NEW m \in Msgs,
         \A k \in Msgs \ {m} : rows'[k] = rows[k],
         GoodEvidence(m, rows'[m], accepted[m]), agent' = agent, accepted' = accepted,
         \A a \in Agents : agent[a] # Idle => agent[a].msg # m
  PROVE  EvidenceInv'
<1>1. \A k \in Msgs : GoodEvidence(k, rows'[k], accepted'[k])
  BY DEF EvidenceInv
<1>2. \A a \in Agents : agent'[a] # Idle =>
        GoodKnowledge(a, agent'[a], rows'[agent'[a].msg], accepted'[agent'[a].msg])
  BY RowTypes DEF EvidenceInv
<1> QED BY <1>1, <1>2 DEF EvidenceInv

\* A step that leaves delivery alone, creates no row, and lets evidence only fade.
LEMMA FadingEvidence ==
  ASSUME TypeOK, EvidenceInv, agent' = agent, accepted' = accepted,
         \A k \in Msgs : /\ SameDelivery(rows[k], rows'[k]) /\ EvidenceFades(k)
                         /\ rows'[k].place # "absent" => rows[k].place # "absent"
  PROVE  EvidenceInv'
<1>1. ASSUME NEW k \in Msgs PROVE GoodEvidence(k, rows'[k], accepted'[k])
  <2>1. /\ rows'[k].state = rows[k].state /\ rows'[k].error = rows[k].error
        /\ rows[k].hashed => rows'[k].hashed
        /\ rows'[k].audited \/ ~rows[k].audited \/ k \in Aged
        /\ rows'[k].place # "absent" => rows[k].place # "absent"
    BY DEF SameDelivery, EvidenceFades
  <2> QED BY <2>1 DEF EvidenceInv, GoodEvidence
<1>2. ASSUME NEW a \in Agents, agent[a] # Idle
      PROVE  GoodKnowledge(a, agent[a], rows'[agent[a].msg], accepted[agent[a].msg])
  <2> DEFINE k == agent[a].msg
  <2>1. /\ rows'[k].state = rows[k].state /\ rows'[k].owner = rows[k].owner
        /\ rows[k].hashed => rows'[k].hashed
    BY <1>2, RowTypes DEF SameDelivery, EvidenceFades
  <2> QED BY <1>2, <2>1 DEF EvidenceInv, GoodKnowledge
<1> QED BY <1>1, <1>2 DEF EvidenceInv

\* A rollback removes rows that no process holds.
LEMMA RollbackEvidence ==
  ASSUME TypeOK, PlacementInv, DeliveryInv, EvidenceInv, NEW w \in Writers, Rollback(w)
  PROVE  EvidenceInv'
<1>1. /\ \A m \in txn[w] : rows'[m] = AbsentRow /\ rows[m].place = "open"
      /\ \A m \in Msgs \ txn[w] : rows'[m] = rows[m]
      /\ txn[w] \subseteq Msgs
      /\ agent' = agent /\ accepted' = accepted
  BY DEF Rollback, TypeOK, PlacementInv
<1>2. \A m \in txn[w] : GoodEvidence(m, rows'[m], accepted[m])
  BY <1>1 DEF AbsentRow, GoodEvidence
<1>3. \A a \in Agents : agent[a] # Idle => agent[a].msg \in Msgs \ txn[w]
  BY <1>1, Unclaimed, RowTypes
<1>4. \A m \in Msgs : GoodEvidence(m, rows'[m], accepted'[m])
  BY <1>1, <1>2 DEF EvidenceInv
<1>5. \A a \in Agents : agent'[a] # Idle =>
        GoodKnowledge(a, agent'[a], rows'[agent'[a].msg], accepted'[agent'[a].msg])
  BY <1>1, <1>3 DEF EvidenceInv
<1> QED BY <1>4, <1>5 DEF EvidenceInv

\* A claim names a dispatcher as the owner, and a row with copies has its digest.
LEMMA ClaimEvidence ==
  ASSUME TypeOK, DeliveryInv, EvidenceInv, NEW a \in Agents, NEW m \in Msgs,
         NEW o \in Owners, NEW rid \in RecIds, ClaimRow(a, m, o, rid),
         rows[m].place = "table", rows[m].state = "NONE",
         a \in Workers => o = a,
         a \in Tools \/ accepted[m] >= 1 => rows[m].hashed /\ m \notin Corrupt
  PROVE  EvidenceInv'
<1>1. /\ Kept
      /\ \A k \in Msgs \ {m} : rows'[k] = rows[k]
      /\ rows'[m].state = "PUBLISHING" /\ rows'[m].owner = o
      /\ rows'[m].hashed = rows[m].hashed /\ rows'[m].audited = rows[m].audited
      /\ agent'[a].msg = m /\ agent'[a].hashed = rows[m].hashed
      /\ \A b \in Agents \ {a} : agent'[b] = agent[b]
      /\ accepted' = accepted
  BY ClaimEffect DEF SameEvidence
<1>2. \A b \in Agents : agent[b] # Idle => agent[b].msg \in Msgs \ {m}
  BY Unclaimed, RowTypes
<1>3. GoodEvidence(m, rows'[m], accepted[m])
  BY <1>1 DEF EvidenceInv, GoodEvidence
<1>4. \A k \in Msgs : GoodEvidence(k, rows'[k], accepted'[k])
  BY <1>1, <1>3 DEF EvidenceInv
<1>5. GoodKnowledge(a, agent'[a], rows'[m], accepted[m])
  BY <1>1 DEF GoodKnowledge
<1>6. \A b \in Agents : agent'[b] # Idle =>
        GoodKnowledge(b, agent'[b], rows'[agent'[b].msg], accepted'[agent'[b].msg])
  BY <1>1, <1>2, <1>5 DEF EvidenceInv
<1> QED BY <1>4, <1>6 DEF EvidenceInv

\* A process that moves on or forgets its claim, with no new copy and no new row.
LEMMA MovingEvidence ==
  ASSUME TypeOK, EvidenceInv, NEW a \in Agents, agent[a] # Idle,
         rows' = rows, accepted' = accepted,
         \/ agent'[a] = Idle
         \/ agent'[a].msg = agent[a].msg /\ agent'[a].hashed = agent[a].hashed,
         \A b \in Agents \ {a} : agent'[b] = agent[b]
  PROVE  EvidenceInv'
<1>1. agent'[a] # Idle => GoodKnowledge(a, agent'[a], rows[agent'[a].msg], accepted[agent'[a].msg])
  BY DEF EvidenceInv, GoodKnowledge
<1> QED BY <1>1 DEF EvidenceInv

\* The transport call sends only what has its own digest.
LEMMA PublishEvidence ==
  ASSUME TypeOK, DeliveryInv, EvidenceInv, NEW a \in Agents, Publish(a)
  PROVE  EvidenceInv'
<1> DEFINE m == agent[a].msg
<1>1. /\ agent[a].pc = "claimed" /\ agent[a] # Idle /\ m \in Msgs /\ rows' = rows
      /\ accepted' \in {accepted, [accepted EXCEPT ![m] = @ + 1]}
  BY BusyAgent DEF Publish
<1>2. /\ agent'[a].msg = m /\ agent'[a].hashed = agent[a].hashed
      /\ \A b \in Agents \ {a} : agent'[b] = agent[b]
  BY <1>1, GotoEffect DEF Publish
<1>3. CASE accepted' = accepted
  BY <1>1, <1>2, <1>3, MovingEvidence
<1>4. CASE accepted' = [accepted EXCEPT ![m] = @ + 1]
  <2>1. GoodKnowledge(a, agent[a], rows[m], accepted[m]) /\ GoodEvidence(m, rows[m], accepted[m])
    BY <1>1 DEF EvidenceInv
  <2>2. agent[a].hashed /\ m \notin Corrupt
    BY <2>1 DEF Publish, GoodKnowledge, Agents
  <2>3. /\ GoodEvidence(m, rows[m], accepted'[m])
        /\ GoodKnowledge(a, agent'[a], rows[m], accepted'[m])
    BY <1>2, <2>1, <2>2 DEF GoodEvidence, GoodKnowledge
  <2>4. \A k \in Msgs \ {m} : accepted'[k] = accepted[k]
    BY <1>4 DEF TypeOK
  <2>5. \A b \in Agents \ {a} : agent[b] # Idle => agent[b].msg \in Msgs \ {m}
    BY <1>1, RowTypes DEF DeliveryInv, ExclusiveClaim
  <2>6. \A k \in Msgs : GoodEvidence(k, rows'[k], accepted'[k])
    BY <1>1, <2>3, <2>4 DEF EvidenceInv
  <2>7. \A b \in Agents : agent'[b] # Idle =>
          GoodKnowledge(b, agent'[b], rows'[agent'[b].msg], accepted'[agent'[b].msg])
    BY <1>1, <1>2, <2>3, <2>4, <2>5 DEF EvidenceInv
  <2> QED BY <2>6, <2>7 DEF EvidenceInv
<1> QED BY <1>1, <1>3, <1>4

\* An applied outcome keeps the digest and the audit row of its message.
LEMMA OutcomeEvidence ==
  ASSUME TypeOK, DeliveryInv, EvidenceInv, NEW a \in Agents, NEW m \in Msgs,
         agent[a] # Idle, agent[a].msg = m, Kept, HoldsClaim(a), accepted' = accepted,
         \A k \in Msgs \ {m} : rows'[k] = rows[k],
         SameEvidence(rows[m], rows'[m]),
         \/ rows'[m].state = "ACKNOWLEDGED"
         \/ rows'[m].state = "PUBLISH_OUTCOME_UNKNOWN" /\ rows'[m].error = "short",
         \/ agent'[a] = Idle
         \/ agent'[a].msg = m /\ agent'[a].hashed = agent[a].hashed,
         \A b \in Agents \ {a} : agent'[b] = agent[b]
  PROVE  EvidenceInv'
<1>1. /\ rows'[m].place = rows[m].place /\ rows[m].state = "PUBLISHING"
      /\ rows'[m].hashed = rows[m].hashed /\ rows'[m].audited = rows[m].audited
      /\ rows'[m].state # "PUBLISHING"
  BY DEF Kept, SameIdentity, SameEvidence, HoldsClaim
<1>2. \A b \in Agents \ {a} : agent[b] # Idle => agent[b].msg \in Msgs \ {m}
  BY RowTypes DEF DeliveryInv, ExclusiveClaim
<1>3. GoodEvidence(m, rows[m], accepted[m]) /\ GoodKnowledge(a, agent[a], rows[m], accepted[m])
  BY DEF EvidenceInv
<1>4. GoodEvidence(m, rows'[m], accepted[m])
  BY <1>1, <1>3 DEF GoodEvidence
<1>5. agent'[a] # Idle => GoodKnowledge(a, agent'[a], rows'[m], accepted[m])
  BY <1>1, <1>3 DEF GoodKnowledge
<1>6. \A k \in Msgs : GoodEvidence(k, rows'[k], accepted'[k])
  BY <1>4 DEF EvidenceInv
<1>7. \A b \in Agents : agent'[b] # Idle =>
        GoodKnowledge(b, agent'[b], rows'[agent'[b].msg], accepted'[agent'[b].msg])
  BY <1>2, <1>5 DEF EvidenceInv
<1> QED BY <1>6, <1>7 DEF EvidenceInv

\* The operator primitives: only the quarantine of an old lease writes a long reason.
LEMMA OperatorEvidence ==
  ASSUME TypeOK, DeliveryInv, EvidenceInv, Operator
  PROVE  EvidenceInv'
<1>1. ASSUME NEW m \in Msgs, NEW rid \in ToolIds, NEW e \in {"short", "long"},
             QuarantineExpiredOutboxExact(m, rid, e)
      PROVE  EvidenceInv'
  <2>1. /\ rows[m].state = "NONE" /\ rows[m].owner # NoOne
        /\ rows[m].hashed /\ m \notin Corrupt /\ rows[m].audited
        /\ agent' = agent /\ accepted' = accepted
    BY <1>1 DEF QuarantineExpiredOutboxExact, ExactRow, LeaseExpired
  <2>2. m \in Legacy
    BY <2>1 DEF DeliveryInv, RowInv, GoodRow
  <2>3. /\ \A k \in Msgs \ {m} : rows'[k] = rows[k]
        /\ rows'[m].hashed = rows[m].hashed /\ rows'[m].audited = rows[m].audited
    BY <1>1, QuarantineEffect DEF SameEvidence
  <2>4. GoodEvidence(m, rows'[m], accepted[m])
    BY <2>1, <2>2, <2>3 DEF GoodEvidence
  <2>5. \A a \in Agents : agent[a] # Idle => agent[a].msg # m
    BY <2>1, Unclaimed
  <2> QED BY <2>1, <2>3, <2>4, <2>5, QuietEvidence
<1>2. ASSUME NEW m \in Msgs, NEW rid, NEW n, ResolveUnknownOutbox(m, rid, n)
      PROVE  EvidenceInv'
  <2>1. /\ rows[m].state = "PUBLISH_OUTCOME_UNKNOWN"
        /\ rows[m].hashed /\ m \notin Corrupt /\ rows[m].audited
        /\ agent' = agent /\ accepted' = accepted
    BY <1>2 DEF ResolveUnknownOutbox, Resolvable
  <2>2. /\ \A k \in Msgs \ {m} : rows'[k] = rows[k]
        /\ rows'[m].state = "ACKNOWLEDGED"
        /\ rows'[m].hashed = rows[m].hashed /\ rows'[m].audited = rows[m].audited
    BY <1>2, ResolveEffect DEF SameEvidence
  <2>3. GoodEvidence(m, rows'[m], accepted[m])
    BY <2>1, <2>2 DEF GoodEvidence
  <2>4. \A a \in Agents : agent[a] # Idle => agent[a].msg # m
    BY <2>1, Unclaimed
  <2> QED BY <2>1, <2>2, <2>3, <2>4, QuietEvidence
<1>3. ASSUME NEW m \in Msgs, NEW limit \in AttemptLimits, FailOutbox(m, limit)
      PROVE  EvidenceInv'
  <2>1. rows[m].state = "NONE" /\ agent' = agent /\ accepted' = accepted
    BY <1>3 DEF FailOutbox
  <2>2. /\ \A k \in Msgs \ {m} : rows'[k] = rows[k]
        /\ rows'[m].state = "NONE" /\ rows'[m].place = rows[m].place
        /\ rows'[m].audited = rows[m].audited
    BY <1>3, <2>1, FailEffect DEF SameEvidence, Kept, SameIdentity
  <2>3. GoodEvidence(m, rows'[m], accepted[m])
    BY <2>2 DEF EvidenceInv, GoodEvidence
  <2>4. \A a \in Agents : agent[a] # Idle => agent[a].msg # m
    BY <2>1, Unclaimed
  <2> QED BY <2>1, <2>2, <2>3, <2>4, QuietEvidence
<1> QED BY <1>1, <1>2, <1>3 DEF Operator

\* Every step keeps the evidence.
LEMMA NextEvidence == OutboxInv /\ EvidenceInv /\ [Next]_vars => EvidenceInv'
<1> SUFFICES ASSUME TypeOK, PlacementInv, DeliveryInv, EvidenceInv, [Next]_vars
             PROVE  EvidenceInv'
  BY DEF OutboxInv
<1>1. ASSUME NEW w \in Writers, NEW m \in Msgs, EnqueueOutbox(w, m)
      PROVE  EvidenceInv'
  <2>1. /\ rows[m].place = "absent"
        /\ rows'[m] = NewRow(nextId, Service[w])
        /\ \A k \in Msgs \ {m} : rows'[k] = rows[k]
        /\ agent' = agent /\ accepted' = accepted
    BY <1>1 DEF EnqueueOutbox, TypeOK
  <2>2. GoodEvidence(m, rows'[m], accepted[m])
    BY <2>1 DEF NewRow, GoodEvidence
  <2>3. \A a \in Agents : agent[a] # Idle => agent[a].msg # m
    BY <2>1, Unclaimed
  <2> QED BY <2>1, <2>2, <2>3, QuietEvidence
<1>2. ASSUME NEW m \in Msgs,
             \/ \E w \in Writers : BackfillFingerprint(w, m)
             \/ LeaseExpires(m)
             \/ BecomesAvailable(m)
             \/ AuditRetention(m)
      PROVE  EvidenceInv'
  <2>1. /\ agent' = agent /\ accepted' = accepted
        /\ \A k \in Msgs : /\ SameDelivery(rows[k], rows'[k]) /\ EvidenceFades(k)
                           /\ rows'[k].place = rows[k].place
    BY <1>2, FlagEffect DEF Kept, SameIdentity
  <2> QED BY <2>1, FadingEvidence
<1>3. ASSUME NEW w \in Writers, Commit(w) PROVE EvidenceInv'
  <2>1. agent' = agent /\ accepted' = accepted
    BY <1>3 DEF Commit
  <2>2. ASSUME NEW k \in Msgs
        PROVE  /\ SameDelivery(rows[k], rows'[k]) /\ EvidenceFades(k)
               /\ rows'[k].place # "absent" => rows[k].place # "absent"
    <3>1. SameDelivery(rows[k], rows'[k]) /\ SameEvidence(rows[k], rows'[k])
      BY <1>3, CommitEffect
    <3>2. EvidenceFades(k)
      BY <3>1 DEF SameEvidence, EvidenceFades
    <3>3. rows'[k].place # "absent" => rows[k].place # "absent"
      BY <1>3, CommitEffect DEF PlacementInv
    <3> QED BY <3>1, <3>2, <3>3
  <2> QED BY <2>1, <2>2, FadingEvidence
<1>4. ASSUME NEW w \in Writers, Rollback(w) PROVE EvidenceInv'
  BY <1>4, RollbackEvidence
<1>5. ASSUME NEW a \in Workers, NEW m \in Msgs, ClaimOutbox(a, m)
      PROVE  EvidenceInv'
  <2>1. a \in Agents /\ a \in Owners /\ a \notin Tools /\ DispatchId(nonce) \in RecIds
    BY DispatchIdType, OutboxConstants DEF TypeOK, Agents, Owners
  <2>2. /\ ClaimRow(a, m, a, DispatchId(nonce)) /\ rows[m].place = "table"
        /\ rows[m].state = "NONE" /\ rows[m].attempts = 0
    BY <1>5 DEF ClaimOutbox, InTable
  <2>3. ~(accepted[m] >= 1)
    BY <2>2, RowTypes DEF DeliveryInv, CopiesInv
  <2> QED BY <2>1, <2>2, <2>3, ClaimEvidence
<1>6. ASSUME NEW a \in Tools, NEW m \in Msgs, NEW rid \in ToolIds,
             ClaimReadyOutboxExact(a, m, rid) \/ ClaimExpiredOutboxExact(a, m, rid)
      PROVE  EvidenceInv'
  <2>1. a \in Agents /\ a \notin Workers /\ rid \in Owners /\ rid \in RecIds
    BY OutboxConstants DEF RecIds, Agents, Owners
  <2>2. /\ ClaimRow(a, m, rid, rid) /\ rows[m].place = "table"
        /\ rows[m].state = "NONE" /\ rows[m].hashed /\ m \notin Corrupt
    BY <1>6 DEF ClaimReadyOutboxExact, ClaimExpiredOutboxExact, ExactClaimable,
                ExactRow, InTable
  <2> QED BY <2>1, <2>2, ClaimEvidence
<1>7. ASSUME NEW a \in Agents, RejectPayload(a) PROVE EvidenceInv'
  <2>1. /\ agent[a].pc # "idle" /\ Goto(a, "marking")
        /\ rows' = rows /\ accepted' = accepted
    BY <1>7 DEF RejectPayload
  <2> QED BY <2>1, BusyAgent, GotoEffect, MovingEvidence
<1>8. ASSUME NEW a \in Agents, Publish(a) PROVE EvidenceInv'
  BY <1>8, PublishEvidence
<1>9. ASSUME NEW a \in Agents, Acknowledge(a) PROVE EvidenceInv'
  <2>1. /\ agent[a].pc = "acking" /\ agent[a] # Idle /\ agent[a].msg \in Msgs
        /\ accepted' = accepted
    BY <1>9, BusyAgent DEF Acknowledge
  <2>2. /\ \/ agent'[a] = Idle
           \/ agent'[a].msg = agent[a].msg /\ agent'[a].hashed = agent[a].hashed
        /\ \A b \in Agents \ {a} : agent'[b] = agent[b]
    BY <1>9, <2>1, GotoEffect, ReleaseEffect DEF Acknowledge
  <2>3. CASE rows' = rows
    BY <2>1, <2>2, <2>3, MovingEvidence
  <2>4. CASE rows' # rows
    BY <1>9, <2>1, <2>2, <2>4, AckEffect, OutcomeEvidence
  <2> QED BY <2>3, <2>4
<1>10. ASSUME NEW a \in Agents, MarkOutcomeUnknown(a) PROVE EvidenceInv'
  <2>1. /\ agent[a].pc = "marking" /\ agent[a] # Idle /\ agent[a].msg \in Msgs
        /\ accepted' = accepted
    BY <1>10, BusyAgent DEF MarkOutcomeUnknown
  <2>2. agent'[a] = Idle /\ \A b \in Agents \ {a} : agent'[b] = agent[b]
    BY <1>10, ReleaseEffect DEF MarkOutcomeUnknown
  <2>3. CASE rows' = rows
    BY <2>1, <2>2, <2>3, MovingEvidence
  <2>4. CASE rows' # rows
    BY <1>10, <2>1, <2>2, <2>4, MarkEffect, OutcomeEvidence
  <2> QED BY <2>3, <2>4
<1>11. ASSUME NEW a \in Agents, Crash(a) PROVE EvidenceInv'
  <2>1. agent[a] # Idle /\ Release(a) /\ rows' = rows /\ accepted' = accepted
    BY <1>11 DEF Crash
  <2> QED BY <2>1, ReleaseEffect, MovingEvidence
<1>12. CASE Operator
  BY <1>12, OperatorEvidence
<1>13. CASE UNCHANGED vars
  BY <1>13 DEF vars, EvidenceInv
<1> QED
  BY <1>1, <1>2, <1>3, <1>4, <1>5, <1>6, <1>7, <1>8, <1>9, <1>10, <1>11, <1>12,
     <1>13
  DEF Next, Transactions, Dispatch, ToolStep, Environment, Agents

\* The two invariants together say that what was sent can be settled.
LEMMA EvidenceSettles == OutboxInv /\ EvidenceInv => SentIsResolvable
<1> SUFFICES ASSUME TypeOK, DeliveryInv, EvidenceInv, NEW m \in Msgs, accepted[m] >= 1
             PROVE  /\ \A a \in Agents :
                         (/\ agent[a] # Idle /\ agent[a].msg = m
                          /\ rows[m].state = "PUBLISHING") => HoldsClaim(a)
                    /\ rows[m].state = "PUBLISH_OUTCOME_UNKNOWN" =>
                         \/ Resolvable(m, rows[m].rid)
                         \/ m \in Aged /\ ~rows[m].audited
                         \/ m \in Legacy /\ rows[m].error = "long"
  BY DEF OutboxInv, SentIsResolvable
<1>1. GoodRow(m, rows[m]) /\ GoodEvidence(m, rows[m], accepted[m])
  BY DEF DeliveryInv, RowInv, EvidenceInv
<1>2. ASSUME NEW a \in Agents, agent[a] # Idle, agent[a].msg = m,
             rows[m].state = "PUBLISHING"
      PROVE  HoldsClaim(a)
  <2>1. /\ GoodClaim(agent[a], rows[m], accepted[m])
        /\ GoodKnowledge(a, agent[a], rows[m], accepted[m])
    BY <1>2 DEF DeliveryInv, AgentInv, EvidenceInv
  <2>2. rows[m].hashed \in BOOLEAN /\ agent[a].hashed \in BOOLEAN
    BY <1>2, RowTypes DEF TypeOK, Row, Claim
  <2>3. rows[m].hashed = agent[a].hashed
    BY <2>1, <2>2 DEF GoodKnowledge
  <2>4. ~rows[m].published /\ ~rows[m].dead
    BY <1>1, <1>2 DEF GoodRow
  <2> QED BY <1>2, <2>1, <2>3, <2>4 DEF GoodClaim, GoodKnowledge, HoldsClaim
<1>3. ASSUME rows[m].state = "PUBLISH_OUTCOME_UNKNOWN"
      PROVE  \/ Resolvable(m, rows[m].rid)
             \/ m \in Aged /\ ~rows[m].audited
             \/ m \in Legacy /\ rows[m].error = "long"
  <2>1. /\ rows[m].place = "table" /\ ~rows[m].published /\ ~rows[m].dead
        /\ rows[m].owner = NoOne /\ rows[m].error # "none"
    BY <1>1, <1>3 DEF GoodRow
  <2>2. rows[m].hashed /\ m \notin Corrupt
    BY <1>1, <1>3 DEF GoodEvidence
  <2>3. rows[m].audited \/ (m \in Aged /\ ~rows[m].audited)
    BY <1>1, <2>1 DEF GoodEvidence
  <2>4. rows[m].error = "short" \/ (m \in Legacy /\ rows[m].error = "long")
    BY <1>1, <1>3, <2>1 DEF GoodEvidence, TypeOK, Row, Errors
  <2> QED BY <1>3, <2>1, <2>2, <2>3, <2>4 DEF Resolvable, InTable, Unsettled
<1> QED BY <1>2, <1>3

\* A message that is on the stream while its outcome is open can be settled: its
\* claimant's update still matches the row, and once the outcome is in doubt the
\* resolution accepts the row, unless retention removed its audit row or the
\* quarantine of an older release's lease stored a reason that is too long.
THEOREM SentStaysResolvable == Spec => []SentIsResolvable
<1>1. Spec => []EvidenceInv
  BY InitEvidence, NextEvidence, OutboxInvariant, PTL DEF Spec
<1> QED BY <1>1, OutboxInvariant, EvidenceSettles, PTL

-----------------------------------------------------------------------------
(***************************************************************************)
(* Outbox implements OutboxContract: the initial states agree and every    *)
(* step is a step of the contract or changes nothing the contract can see. *)
(***************************************************************************)

\* The phase of a row, read off its columns.
LEMMA PhaseOf ==
  ASSUME NEW r
  PROVE  /\ r.place # "table" => RowPhase(r) = "none"
         /\ (r.place = "table" /\ r.published) => RowPhase(r) = "confirmed"
         /\ (r.place = "table" /\ ~r.published /\ r.dead) => RowPhase(r) = "abandoned"
         /\ (r.place = "table" /\ ~r.published /\ ~r.dead) =>
              /\ r.state = "NONE" => RowPhase(r) = "queued"
              /\ r.state = "PUBLISHING" => RowPhase(r) = "attempted"
              /\ r.state = "PUBLISH_OUTCOME_UNKNOWN" => RowPhase(r) = "doubtful"
BY DEF RowPhase

\* The phase depends on four columns only.
LEMMA PhaseDepends ==
  ASSUME NEW r \in Row, NEW s \in Row, r.place = s.place, r.published = s.published,
         r.dead = s.dead, r.state = s.state
  PROVE  RowPhase(r) = RowPhase(s)
BY DEF RowPhase

\* Reading the three components of the refinement mapping.
LEMMA BarValues ==
  /\ \A m \in Msgs : phaseBar[m] = RowPhase(rows[m])
  /\ \A m \in Msgs : armedBar[m] <=> \E a \in Agents : /\ agent[a].pc = "claimed"
                                                       /\ agent[a].msg = m
  /\ \A m \in Msgs : phaseBar'[m] = RowPhase(rows'[m])
  /\ \A m \in Msgs : armedBar'[m] <=> \E a \in Agents : /\ agent'[a].pc = "claimed"
                                                        /\ agent'[a].msg = m
BY DEF phaseBar, armedBar

\* The initial states agree.
LEMMA InitRefines == Init => Contract!Init
<1> SUFFICES ASSUME Init PROVE Contract!Init
  OBVIOUS
<1>1. phaseBar \in [Msgs -> {"none", "queued"}]
  <2>1. \A m \in Msgs : RowPhase(rows[m]) \in {"none", "queued"}
    BY InitRows, PhaseOf
  <2> QED BY <2>1 DEF phaseBar
<1>2. armedBar = [m \in Msgs |-> FALSE]
  <2>1. \A a \in Agents : agent[a].pc # "claimed"
    BY DEF Init, Idle
  <2> QED BY <2>1 DEF armedBar
<1>3. accepted \in [Msgs -> {0, 1}]
  BY DEF Init
<1>4. \A m \in Msgs : phaseBar[m] = "none" => accepted[m] = 0
  <2> SUFFICES ASSUME NEW m \in Msgs, phaseBar[m] = "none" PROVE accepted[m] = 0
    OBVIOUS
  <2>1. m \notin Legacy
    BY InitRows, PhaseOf, BarValues
  <2> QED BY <2>1, InitRows DEF Init
<1> QED BY <1>1, <1>2, <1>3, <1>4 DEF Contract!Init

-----------------------------------------------------------------------------
(***************************************************************************)
(* How a step moves the three components of the mapping.                   *)
(***************************************************************************)
Armed(m) == \E a \in Agents : agent[a].pc = "claimed" /\ agent[a].msg = m

\* One message changes its phase.
LEMMA PhaseMoves ==
  ASSUME NEW m \in Msgs, NEW v, RowPhase(rows'[m]) = v,
         \A k \in Msgs \ {m} : RowPhase(rows'[k]) = RowPhase(rows[k])
  PROVE  phaseBar' = [phaseBar EXCEPT ![m] = v]
BY DEF phaseBar

\* No message changes its phase.
LEMMA PhaseStays ==
  ASSUME \A k \in Msgs : RowPhase(rows'[k]) = RowPhase(rows[k])
  PROVE  phaseBar' = phaseBar
BY DEF phaseBar

\* A claim arms its message.
LEMMA ArmedSet ==
  ASSUME NEW m \in Msgs, Armed(m)',
         \A k \in Msgs \ {m} : Armed(k)' <=> Armed(k)
  PROVE  armedBar' = [armedBar EXCEPT ![m] = TRUE]
BY DEF armedBar, Armed

\* The use or the end of a claim disarms its message.
LEMMA ArmedCleared ==
  ASSUME NEW m \in Msgs, ~Armed(m)',
         \A k \in Msgs \ {m} : Armed(k)' <=> Armed(k)
  PROVE  armedBar' = [armedBar EXCEPT ![m] = FALSE]
BY DEF armedBar, Armed

\* No message is armed or disarmed.
LEMMA ArmedStays ==
  ASSUME \A k \in Msgs : Armed(k)' <=> Armed(k)
  PROVE  armedBar' = armedBar
BY DEF armedBar, Armed

\* armedBar says which messages are armed.
LEMMA ArmedValue ==
  ASSUME NEW m \in Msgs
  PROVE  armedBar[m] <=> Armed(m)
BY DEF armedBar, Armed

\* A process that leaves "claimed" disarms exactly its own message.
LEMMA LeavesClaimed ==
  ASSUME TypeOK, DeliveryInv, NEW a \in Agents, agent[a].pc = "claimed",
         agent'[a].pc # "claimed", \A b \in Agents \ {a} : agent'[b] = agent[b],
         NEW m, m = agent[a].msg
  PROVE  /\ m \in Msgs /\ Armed(m)
         /\ armedBar' = [armedBar EXCEPT ![m] = FALSE]
<1>1. agent[a] # Idle /\ m \in Msgs
  BY BusyAgent
<1>2. \A b \in Agents \ {a} : agent[b].pc = "claimed" => agent[b].msg # m
  BY <1>1 DEF DeliveryInv, ExclusiveClaim, Idle
<1>3. Armed(m) /\ ~Armed(m)'
  BY <1>2 DEF Armed
<1>4. \A k \in Msgs \ {m} : Armed(k)' <=> Armed(k)
  BY DEF Armed
<1> QED BY <1>1, <1>3, <1>4, ArmedCleared

\* A process that neither is nor gets "claimed" changes nothing.
LEMMA OffClaimed ==
  ASSUME NEW a \in Agents, agent[a].pc # "claimed", agent'[a].pc # "claimed",
         \A b \in Agents \ {a} : agent'[b] = agent[b]
  PROVE  armedBar' = armedBar
BY ArmedStays DEF Armed

\* Steps that change only columns the contract does not see.
LEMMA SameDeliveryUnseen ==
  ASSUME Kept, TypeOK, \A k \in Msgs : SameDelivery(rows[k], rows'[k]),
         agent' = agent, accepted' = accepted
  PROVE  UNCHANGED Contract!contractVars
<1>1. \A k \in Msgs : rows[k] \in Row /\ rows'[k] \in Row
  BY DEF Kept, TypeOK
<1>2. \A k \in Msgs : RowPhase(rows'[k]) = RowPhase(rows[k])
  BY <1>1, PhaseDepends DEF Kept, SameIdentity, SameDelivery
<1>3. phaseBar' = phaseBar
  BY <1>2, PhaseStays
<1>4. armedBar' = armedBar
  BY ArmedStays DEF Armed
<1> QED BY <1>3, <1>4 DEF Contract!contractVars

\* An insert is invisible until its commit.
LEMMA EnqueueUnseen ==
  ASSUME TypeOK, NEW w \in Writers, NEW m \in Msgs, EnqueueOutbox(w, m)
  PROVE  UNCHANGED Contract!contractVars
<1>1. /\ rows[m].place = "absent" /\ rows'[m].place = "open"
      /\ \A k \in Msgs \ {m} : rows'[k] = rows[k]
      /\ agent' = agent /\ accepted' = accepted
  BY DEF EnqueueOutbox, NewRow, TypeOK
<1>2. \A k \in Msgs : RowPhase(rows'[k]) = RowPhase(rows[k])
  BY <1>1, PhaseOf
<1>3. armedBar' = armedBar
  BY <1>1, ArmedStays DEF Armed
<1> QED BY <1>1, <1>2, <1>3, PhaseStays DEF Contract!contractVars

\* A rollback removes what the contract never saw.
LEMMA RollbackUnseen ==
  ASSUME TypeOK, PlacementInv, NEW w \in Writers, Rollback(w)
  PROVE  UNCHANGED Contract!contractVars
<1>1. /\ \A m \in txn[w] : rows'[m].place = "absent" /\ rows[m].place = "open"
      /\ \A m \in Msgs \ txn[w] : rows'[m] = rows[m]
      /\ agent' = agent /\ accepted' = accepted
  BY DEF Rollback, TypeOK, PlacementInv, AbsentRow
<1>2. \A k \in Msgs : RowPhase(rows'[k]) = RowPhase(rows[k])
  BY <1>1, PhaseOf
<1>3. armedBar' = armedBar
  BY <1>1, ArmedStays DEF Armed
<1> QED BY <1>1, <1>2, <1>3, PhaseStays DEF Contract!contractVars

\* A commit queues the messages of its transaction.
LEMMA CommitQueues ==
  ASSUME TypeOK, PlacementInv, DeliveryInv, NEW w \in Writers, Commit(w)
  PROVE  Contract!Queue(txn[w])
<1>1. /\ \A m \in Msgs : SameDelivery(rows[m], rows'[m])
      /\ \A m \in txn[w] : rows'[m].place = "table" /\ rows[m].place = "open"
      /\ \A m \in Msgs \ txn[w] : rows'[m] = rows[m]
      /\ txn[w] \subseteq Msgs
  BY CommitEffect DEF TypeOK, PlacementInv
<1>2. agent' = agent /\ accepted' = accepted
  BY DEF Commit
<1>3. \A m \in txn[w] : RowPhase(rows[m]) = "none" /\ RowPhase(rows'[m]) = "queued"
  BY <1>1, PhaseOf DEF SameDelivery, DeliveryInv, RowInv, GoodRow
<1>4. armedBar' = armedBar
  BY <1>2, ArmedStays DEF Armed
<1>5. phaseBar' = [m \in Msgs |-> IF m \in txn[w] THEN "queued" ELSE phaseBar[m]]
  BY <1>1, <1>3 DEF phaseBar
<1>6. \A m \in txn[w] : phaseBar[m] = "none"
  BY <1>1, <1>3 DEF phaseBar
<1> QED BY <1>2, <1>4, <1>5, <1>6 DEF Contract!Queue

\* A claim is an attempt.
LEMMA ClaimAttempts ==
  ASSUME TypeOK, DeliveryInv, NEW a \in Agents, NEW m \in Msgs, NEW o \in Owners,
         NEW rid \in RecIds, ClaimRow(a, m, o, rid),
         rows[m].place = "table", rows[m].state = "NONE", Unsettled(m)
  PROVE  Contract!Attempt(m)
<1>1. /\ Kept
      /\ \A k \in Msgs \ {m} : rows'[k] = rows[k]
      /\ rows'[m].state = "PUBLISHING"
      /\ rows'[m].published = rows[m].published
      /\ rows'[m].dead = rows[m].dead
      /\ agent'[a].pc = "claimed" /\ agent'[a].msg = m
      /\ \A b \in Agents \ {a} : agent'[b] = agent[b]
      /\ agent[a] = Idle /\ accepted' = accepted
  BY ClaimEffect
<1>2. rows'[m].place = "table"
  BY <1>1 DEF Kept, SameIdentity
<1>3. RowPhase(rows[m]) = "queued" /\ RowPhase(rows'[m]) = "attempted"
  BY <1>1, <1>2, PhaseOf DEF Unsettled
<1>4. phaseBar[m] = "queued" /\ phaseBar' = [phaseBar EXCEPT ![m] = "attempted"]
  BY <1>1, <1>3, PhaseMoves, BarValues
<1>5. armedBar' = [armedBar EXCEPT ![m] = TRUE]
  <2>1. agent[a].pc # "claimed"
    BY <1>1 DEF Idle
  <2> QED BY <1>1, <2>1, ArmedSet DEF Armed
<1> QED BY <1>1, <1>4, <1>5 DEF Contract!Attempt

\* The transport call delivers or gives up.
LEMMA PublishDelivers ==
  ASSUME TypeOK, DeliveryInv, NEW a \in Agents, Publish(a)
  PROVE  \E m \in Msgs : Contract!Deliver(m) \/ Contract!GiveUp(m)
<1> DEFINE m == agent[a].msg
<1>1. agent[a].pc = "claimed" /\ rows' = rows
  BY DEF Publish
<1>2. agent'[a].pc # "claimed" /\ \A b \in Agents \ {a} : agent'[b] = agent[b]
  BY <1>1, GotoEffect DEF Publish
<1>3. m \in Msgs /\ Armed(m) /\ armedBar' = [armedBar EXCEPT ![m] = FALSE]
  BY <1>1, <1>2, LeavesClaimed
<1>4. armedBar[m]
  BY <1>3, ArmedValue
<1>5. phaseBar' = phaseBar
  BY <1>1, PhaseStays
<1>6. CASE accepted' = [accepted EXCEPT ![m] = @ + 1]
  BY <1>3, <1>4, <1>5, <1>6 DEF Contract!Deliver
<1>7. CASE accepted' = accepted
  BY <1>3, <1>4, <1>5, <1>7 DEF Contract!GiveUp
<1> QED BY <1>6, <1>7 DEF Publish

\* A rejected payload and a crash before the call give up.
LEMMA RejectGivesUp ==
  ASSUME TypeOK, DeliveryInv, NEW a \in Agents, RejectPayload(a) \/ Crash(a)
  PROVE  (\E m \in Msgs : Contract!GiveUp(m)) \/ UNCHANGED Contract!contractVars
<1> DEFINE m == agent[a].msg
<1>1. rows' = rows /\ accepted' = accepted
  BY DEF RejectPayload, Crash
<1>2. agent'[a].pc # "claimed" /\ \A b \in Agents \ {a} : agent'[b] = agent[b]
  BY GotoEffect, ReleaseEffect DEF RejectPayload, Crash, Idle
<1>3. phaseBar' = phaseBar
  BY <1>1, PhaseStays
<1>4. CASE agent[a].pc = "claimed"
  <2>1. m \in Msgs /\ Armed(m) /\ armedBar' = [armedBar EXCEPT ![m] = FALSE]
    BY <1>2, <1>4, LeavesClaimed
  <2>2. armedBar[m]
    BY <2>1, ArmedValue
  <2> QED BY <1>1, <1>3, <2>1, <2>2 DEF Contract!GiveUp
<1>5. CASE agent[a].pc # "claimed"
  BY <1>1, <1>2, <1>3, <1>5, OffClaimed DEF Contract!contractVars
<1> QED BY <1>4, <1>5

\* A process past the call leaves its message unarmed.
LEMMA PastTheCall ==
  ASSUME TypeOK, DeliveryInv, NEW a \in Agents, agent[a].pc \in {"acking", "marking"},
         NEW m, m = agent[a].msg
  PROVE  m \in Msgs /\ ~armedBar[m]
<1>1. agent[a] # Idle /\ m \in Msgs
  BY BusyAgent
<1>2. ~Armed(m)
  BY <1>1 DEF DeliveryInv, ExclusiveClaim, Armed, Idle
<1> QED BY <1>1, <1>2, ArmedValue

\* An applied acknowledgement confirms.
LEMMA AckConfirms ==
  ASSUME TypeOK, DeliveryInv, NEW a \in Agents, Acknowledge(a)
  PROVE  (\E m \in Msgs : Contract!Confirm(m)) \/ UNCHANGED Contract!contractVars
<1> DEFINE m == agent[a].msg
<1>1. agent[a].pc = "acking" /\ accepted' = accepted
  BY DEF Acknowledge
<1>2. agent'[a].pc # "claimed" /\ \A b \in Agents \ {a} : agent'[b] = agent[b]
  BY <1>1, GotoEffect, ReleaseEffect DEF Acknowledge, Idle
<1>3. armedBar' = armedBar
  BY <1>1, <1>2, OffClaimed
<1>4. m \in Msgs /\ ~armedBar[m]
  BY <1>1, PastTheCall
<1>5. CASE rows' = rows
  BY <1>1, <1>3, <1>5, PhaseStays DEF Contract!contractVars
<1>6. CASE rows' # rows
  <2>1. /\ Kept /\ HoldsClaim(a)
        /\ \A k \in Msgs \ {m} : rows'[k] = rows[k]
        /\ rows'[m].published
    BY <1>6, AckEffect
  <2>2. rows[m].place = "table" /\ rows'[m].place = "table"
    BY <1>4, <2>1 DEF HoldsClaim, Kept, SameIdentity
  <2>3. RowPhase(rows[m]) = "attempted" /\ RowPhase(rows'[m]) = "confirmed"
    BY <2>1, <2>2, PhaseOf DEF HoldsClaim
  <2>4. phaseBar[m] = "attempted" /\ phaseBar' = [phaseBar EXCEPT ![m] = "confirmed"]
    BY <1>4, <2>1, <2>3, PhaseMoves, BarValues
  <2>5. accepted[m] >= 1
    BY <1>1, BusyAgent DEF DeliveryInv, AgentInv, GoodClaim
  <2> QED BY <1>1, <1>3, <1>4, <2>4, <2>5 DEF Contract!Confirm
<1> QED BY <1>5, <1>6

\* An applied marker raises doubt.
LEMMA MarkDoubts ==
  ASSUME TypeOK, DeliveryInv, NEW a \in Agents, MarkOutcomeUnknown(a)
  PROVE  (\E m \in Msgs : Contract!Doubt(m)) \/ UNCHANGED Contract!contractVars
<1> DEFINE m == agent[a].msg
<1>1. agent[a].pc = "marking" /\ accepted' = accepted
  BY DEF MarkOutcomeUnknown
<1>2. agent'[a].pc # "claimed" /\ \A b \in Agents \ {a} : agent'[b] = agent[b]
  BY ReleaseEffect DEF MarkOutcomeUnknown, Idle
<1>3. armedBar' = armedBar
  BY <1>1, <1>2, OffClaimed
<1>4. m \in Msgs /\ ~armedBar[m]
  BY <1>1, PastTheCall
<1>5. CASE rows' = rows
  BY <1>1, <1>3, <1>5, PhaseStays DEF Contract!contractVars
<1>6. CASE rows' # rows
  <2>1. /\ Kept /\ HoldsClaim(a)
        /\ \A k \in Msgs \ {m} : rows'[k] = rows[k]
        /\ rows'[m].state = "PUBLISH_OUTCOME_UNKNOWN"
        /\ rows'[m].published = rows[m].published
        /\ rows'[m].dead = rows[m].dead
    BY <1>6, MarkEffect
  <2>2. rows[m].place = "table" /\ rows'[m].place = "table"
    BY <1>4, <2>1 DEF HoldsClaim, Kept, SameIdentity
  <2>3. RowPhase(rows[m]) = "attempted" /\ RowPhase(rows'[m]) = "doubtful"
    BY <2>1, <2>2, PhaseOf DEF HoldsClaim
  <2>4. phaseBar[m] = "attempted" /\ phaseBar' = [phaseBar EXCEPT ![m] = "doubtful"]
    BY <1>4, <2>1, <2>3, PhaseMoves, BarValues
  <2> QED BY <1>1, <1>3, <1>4, <2>4 DEF Contract!Doubt
<1> QED BY <1>5, <1>6

\* The operator primitives doubt, confirm on evidence, or abandon.
LEMMA OperatorRefines ==
  ASSUME TypeOK, DeliveryInv, Operator
  PROVE  \/ \E m \in Msgs : Contract!Doubt(m) \/ Contract!Confirm(m) \/ Contract!Abandon(m)
         \/ UNCHANGED Contract!contractVars
<1>0. ASSUME NEW m \in Msgs,
             rows[m].state \in {"NONE", "PUBLISH_OUTCOME_UNKNOWN"}
      PROVE  ~armedBar[m]
  <2>1. ~Armed(m)
    BY <1>0, Unclaimed DEF Armed, Idle
  <2> QED BY <2>1, ArmedValue
<1>1. ASSUME NEW m \in Msgs, NEW rid \in ToolIds, NEW e \in {"short", "long"},
             QuarantineExpiredOutboxExact(m, rid, e)
      PROVE  Contract!Doubt(m)
  <2>1. /\ rows[m].state = "NONE" /\ rows[m].place = "table" /\ Unsettled(m)
        /\ agent' = agent /\ accepted' = accepted
    BY <1>1 DEF QuarantineExpiredOutboxExact, ExactRow, InTable
  <2>2. /\ Kept
        /\ \A k \in Msgs \ {m} : rows'[k] = rows[k]
        /\ rows'[m].state = "PUBLISH_OUTCOME_UNKNOWN"
        /\ rows'[m].published = rows[m].published
        /\ rows'[m].dead = rows[m].dead
    BY <1>1, QuarantineEffect
  <2>3. rows'[m].place = "table"
    BY <2>1, <2>2 DEF Kept, SameIdentity
  <2>4. RowPhase(rows[m]) = "queued" /\ RowPhase(rows'[m]) = "doubtful"
    BY <2>1, <2>2, <2>3, PhaseOf DEF Unsettled
  <2>5. phaseBar[m] = "queued" /\ phaseBar' = [phaseBar EXCEPT ![m] = "doubtful"]
    BY <2>2, <2>4, PhaseMoves, BarValues
  <2>6. armedBar' = armedBar
    BY <2>1, ArmedStays DEF Armed
  <2> QED BY <1>0, <2>1, <2>5, <2>6 DEF Contract!Doubt
<1>2. ASSUME NEW m \in Msgs, NEW rid, NEW n \in 0..accepted[m],
             ResolveUnknownOutbox(m, rid, n)
      PROVE  Contract!Confirm(m)
  <2>1. /\ rows[m].state = "PUBLISH_OUTCOME_UNKNOWN" /\ rows[m].place = "table"
        /\ Unsettled(m) /\ agent' = agent /\ accepted' = accepted /\ n = 1
    BY <1>2 DEF ResolveUnknownOutbox, Resolvable, InTable
  <2>2. /\ Kept
        /\ \A k \in Msgs \ {m} : rows'[k] = rows[k]
        /\ rows'[m].published
    BY <1>2, ResolveEffect
  <2>3. rows'[m].place = "table"
    BY <2>1, <2>2 DEF Kept, SameIdentity
  <2>4. RowPhase(rows[m]) = "doubtful" /\ RowPhase(rows'[m]) = "confirmed"
    BY <2>1, <2>2, <2>3, PhaseOf DEF Unsettled
  <2>5. phaseBar[m] = "doubtful" /\ phaseBar' = [phaseBar EXCEPT ![m] = "confirmed"]
    BY <2>2, <2>4, PhaseMoves, BarValues
  <2>6. armedBar' = armedBar
    BY <2>1, ArmedStays DEF Armed
  <2>7. accepted[m] >= 1
    BY <1>2, <2>1, RowTypes
  <2> QED BY <1>0, <2>1, <2>5, <2>6, <2>7 DEF Contract!Confirm
<1>3. ASSUME NEW m \in Msgs, NEW limit \in AttemptLimits, FailOutbox(m, limit)
      PROVE  Contract!Abandon(m) \/ UNCHANGED Contract!contractVars
  <2>1. /\ rows[m].state = "NONE" /\ rows[m].place = "table" /\ rows[m].owner # NoOne
        /\ ~rows[m].published
        /\ agent' = agent /\ accepted' = accepted
    BY <1>3 DEF FailOutbox, InTable
  <2>2. /\ Kept
        /\ \A k \in Msgs \ {m} : rows'[k] = rows[k]
        /\ rows'[m].state = rows[m].state
        /\ rows'[m].published = rows[m].published
    BY <1>3, FailEffect
  <2>3. rows'[m].place = "table" /\ ~rows[m].dead
    BY <2>1, <2>2 DEF Kept, SameIdentity, DeliveryInv, RowInv, GoodRow
  <2>4. RowPhase(rows[m]) = "queued" /\ RowPhase(rows'[m]) \in {"queued", "abandoned"}
    BY <2>1, <2>2, <2>3, PhaseOf
  <2>5. armedBar' = armedBar
    BY <2>1, ArmedStays DEF Armed
  <2>6. CASE RowPhase(rows'[m]) = "queued"
    BY <2>1, <2>2, <2>4, <2>5, <2>6, PhaseStays DEF Contract!contractVars
  <2>7. CASE RowPhase(rows'[m]) = "abandoned"
    <3>1. phaseBar[m] = "queued" /\ phaseBar' = [phaseBar EXCEPT ![m] = "abandoned"]
      BY <2>2, <2>4, <2>7, PhaseMoves, BarValues
    <3> QED BY <2>1, <2>5, <3>1 DEF Contract!Abandon
  <2> QED BY <2>4, <2>6, <2>7
<1> QED BY <1>1, <1>2, <1>3 DEF Operator

\* Every step of the outbox is a step of the contract or unseen.
LEMMA NextRefines ==
  OutboxInv /\ [Next]_vars => [Contract!Next]_(Contract!contractVars)
<1> SUFFICES ASSUME TypeOK, PlacementInv, DeliveryInv, [Next]_vars
             PROVE  Contract!Next \/ UNCHANGED Contract!contractVars
  BY DEF OutboxInv
<1>1. ASSUME NEW w \in Writers, NEW m \in Msgs, EnqueueOutbox(w, m)
      PROVE  UNCHANGED Contract!contractVars
  BY <1>1, EnqueueUnseen
<1>2. ASSUME NEW m \in Msgs,
             \/ \E w \in Writers : BackfillFingerprint(w, m)
             \/ LeaseExpires(m)
             \/ BecomesAvailable(m)
             \/ AuditRetention(m)
      PROVE  UNCHANGED Contract!contractVars
  BY <1>2, FlagEffect, SameDeliveryUnseen
<1>3. ASSUME NEW w \in Writers, Commit(w) PROVE Contract!Next
  <2>1. Contract!Queue(txn[w]) /\ txn[w] \in SUBSET Msgs
    BY <1>3, CommitQueues DEF TypeOK
  <2> QED BY <2>1 DEF Contract!Next
<1>4. ASSUME NEW w \in Writers, Rollback(w) PROVE UNCHANGED Contract!contractVars
  BY <1>4, RollbackUnseen
<1>5. ASSUME NEW a \in Workers, NEW m \in Msgs, ClaimOutbox(a, m)
      PROVE  Contract!Next
  <2>1. a \in Agents /\ a \in Owners /\ DispatchId(nonce) \in RecIds
    BY DispatchIdType DEF TypeOK, Agents, Owners
  <2>2. Contract!Attempt(m)
    BY <1>5, <2>1, ClaimAttempts DEF ClaimOutbox, InTable
  <2> QED BY <2>2 DEF Contract!Next
<1>6. ASSUME NEW a \in Tools, NEW m \in Msgs, NEW rid \in ToolIds,
             ClaimReadyOutboxExact(a, m, rid) \/ ClaimExpiredOutboxExact(a, m, rid)
      PROVE  Contract!Next
  <2>1. a \in Agents /\ rid \in Owners /\ rid \in RecIds
    BY DEF RecIds, Agents, Owners
  <2>2. /\ ClaimRow(a, m, rid, rid) /\ rows[m].place = "table"
        /\ rows[m].state = "NONE" /\ Unsettled(m)
    BY <1>6 DEF ClaimReadyOutboxExact, ClaimExpiredOutboxExact, ExactClaimable,
                ExactRow, InTable
  <2>3. Contract!Attempt(m)
    BY <2>1, <2>2, ClaimAttempts
  <2> QED BY <2>3 DEF Contract!Next
<1>7. ASSUME NEW a \in Agents, Publish(a) PROVE Contract!Next
  BY <1>7, PublishDelivers DEF Contract!Next
<1>8. ASSUME NEW a \in Agents, RejectPayload(a) \/ Crash(a)
      PROVE  Contract!Next \/ UNCHANGED Contract!contractVars
  BY <1>8, RejectGivesUp DEF Contract!Next
<1>9. ASSUME NEW a \in Agents, Acknowledge(a)
      PROVE  Contract!Next \/ UNCHANGED Contract!contractVars
  BY <1>9, AckConfirms DEF Contract!Next
<1>10. ASSUME NEW a \in Agents, MarkOutcomeUnknown(a)
       PROVE  Contract!Next \/ UNCHANGED Contract!contractVars
  BY <1>10, MarkDoubts DEF Contract!Next
<1>11. CASE Operator
  BY <1>11, OperatorRefines DEF Contract!Next
<1>12. CASE UNCHANGED vars
  BY <1>12 DEF vars, phaseBar, armedBar, Contract!contractVars
<1> QED
  BY <1>1, <1>2, <1>3, <1>4, <1>5, <1>6, <1>7, <1>8, <1>9, <1>10, <1>11, <1>12
  DEF Next, Transactions, Dispatch, ToolStep, Environment, Agents

\* The table, the dispatchers and the tools implement OutboxContract.
THEOREM OutboxImplementsContract == Spec => ImplementsContract
<1>1. Spec => Contract!Init
  BY InitRefines DEF Spec
<1> QED
  BY <1>1, NextRefines, OutboxInvariant, PTL DEF Spec, ImplementsContract, Contract!Spec
=============================================================================
