# Formal model of kairos-persistence

TLA+ modules, TLC configurations and TLAPS proofs for the durable state of the
Kairos trading services: the repositories under `src/kairos_persistence/` and
the PostgreSQL schema under `src/kairos_persistence/migrations/`.

The package is a library of asynchronous Python repositories over PostgreSQL.
Several processes and replicas use it at once, so what has to be right is not a
single call but the order in which calls of different processes take effect,
and what is left when a process, a connection or the transport fails between
two of them. That is what the modules describe.

## 1. Inventory

### Message path

| Component | State | Operations | Hard part |
|---|---|---|---|
| Transactional outbox, `repository.py`, `runtime.py` | `message_outbox` (attempts, reconciliation state and id, lease, settled flags), `event_audit` | `enqueue_outbox` inside a caller's transaction, `claim_outbox`, transport publish, `mark_published`, `mark_outbox_unknown`, `fail_outbox` | replicas race for one producer's head row; ids are drawn before commit; the process may die on either side of the publish; database answers get lost |
| Offline tools, `offline_outbox_drain.py`, `offline_outbox_reconciler.py`, `redis_acceptance_evidence.py` | the same table, by exact identity | exact claim, acknowledge, quarantine, resolution from Redis evidence | run beside live dispatchers, with operator-chosen ids that may be reused |
| Idempotent inbox and subscription, `repository.py`, `runtime.py` | `message_inbox` per consumer and message id | `message_transaction`, claim/complete/fail, transport ACK | redelivery to another replica, handler failure in a savepoint, commit before ACK, stale owners after a lease ends, reused ids |

### Entry authority

| Component | State | Operations | Hard part |
|---|---|---|---|
| Operator entry latch, `operator_control.py` | latch row, audited commands, admissions, dispatch claims | `apply_command`, `snapshot`, `bind_decision`, `check_entry`, `final_dispatch_guard` | KILL against an order in flight, stale fences, lost connections |
| Canary sessions, `canary_session.py` | read-only runs and receipts, sessions, attempts, claims | begin/append/certify, `arm_session`, `refresh`, `stop`, `bind_entry`, `final_dispatch`, `reserve_attempt` | stop against a dispatch, slots in order and without refund, evidence that effects invalidate later |
| Manual arms, `canary_arm.py` | one arm per review | `arm`, `consume` | expiry against consumption, replays |
| Effect journal, `execution_journal.py` | effects with a hash chain | `prepare`, `confirm`, `reconcile`, `fail`, `recovery_lock` | recovery of an effect whose request is still on its way |
| Trade lifecycle, `trade_lifecycle.py` | trades, journal, public facts | `create*`, `transition*`, `append_execution_event`, reconciliation marks | replays after later transitions, racing exits, facts without gaps |
| Recovery barrier and equity, `trade_lifecycle.py` | recovery epoch, equity per day | `begin_/complete_recovery`, `record_equity` | superseded recoveries, late snapshots |
| Mutation budget, `mutation_budget.py` | reservations in a sliding window | `reserve` | the reserve for compensation at the limit, two deployments with different limits |
| Nested guards and pool | connections of a process, advisory locks | account, trade, operator and canary guard around one another | everyone waiting for everyone |

The services call these in a fixed order: risk takes `snapshot`, decides, and
calls `bind_decision`; execution journals the effect with `prepare`, takes the
account and trade locks, then `final_dispatch_guard`, then the canary's
`final_dispatch`, and sends. Each guard keeps a pooled connection.

### Budgets, news, schema

| Component | State | Operations | Hard part |
|---|---|---|---|
| `source_state.py`, `usage_budget.py`, `campaign_adoption.py` | cursors, reservations, campaign budgets | `advance_cursor`, `reserve_/commit_/release_usage`, `register_campaign` | sums that others change, aliases of a provider, the month's end |
| `news_processing.py` | claims of news events | `claim_batch`, `complete_batch` | overlapping batches, a COMMIT without an answer |
| `database.py`, `offline_writer.py` | `schema_migrations`, migration lock, producer leases | `migrate`, writer `start`, `append`, `close` | releases and profiles that start at once, locks that end with a connection |

### Research and simulation

| Component | State | Operations | Hard part |
|---|---|---|---|
| Simulator tape, `simulation_repository.py` | tape, closed bars, book frames | record, seal, replay reads, verification | streams that restart, positions read before a crash |
| Simulator journal, `simulation_repository.py` | sessions, decisions, trades, commands, receipts, results | create, append, prepare, complete, result, session receipt | two controllers, a COMMIT that outlives its controller |
| Research campaigns, `research_campaign.py` | plan, claims, receipts, denominator | capture, freeze, evaluate, start, finish, review, pair, cost, outcome, seal | database clock against contract milliseconds, processes taken for dead, late costs |

The hazards of these components, each with the line where it bites and the
property that covers it, are listed in `PROJECT.json`.

## 2. Modules

| Module | Contents |
|---|---|
| `Outbox` | table, application transactions, dispatchers, offline tools, operator |
| `OutboxContract`, `OutboxImplements` | what the outbox promises, without tables or processes; the refinement mapping |
| `OutboxProofs` | invariance proofs and the proof of the refinement |
| `Inbox`, `InboxProofs` | inbox row, subscription loop, standalone users; proofs |
| `OperatorControl`, `OperatorProofs` | latch, admissions, final dispatch guard; proofs |
| `TradeLifecycle` | trade row, journal, facts, their outbox rows |
| `AccountRecovery`, `AccountEquity` | recovery epochs under `account_lock`; the equity upsert |
| `ExecutionJournal` | effects, executors, recoverers and the venue |
| `CanarySession`, `ReadonlyEvidence` | sessions, arms, attempts and `final_dispatch`; the evidence sessions are armed on |
| `MutationBudget` | `reserve` of one account |
| `EntryGate` | nested guards over a bounded connection pool |
| `SourceState`, `NewsProcessing` | usage budgets and cursors; claims of news events |
| `SchemaGuard` | migrations, offline writers, live producers |
| `SimulationTape`, `SimulationJournal` | recording and replay of a tape; trades of a session |
| `ResearchCampaign` | one causal campaign |
| `MCOutbox`, `MCInbox`, `MCOperatorControl`, `MCResearchCampaign` | constants for one module |
| `Ledgers`, `VenueEffects`, `Coordination`, `Research` | several of these modules, each with its own constants, side by side; their properties |
| `LedgerProofs`, `EffectProofs`, `CoordinationProofs`, `ResearchProofs` | proofs of those properties |
| `SetLemmas` | lemmas on finite sets, extremes and sums that the proofs share |
| `MCLedgers`, `MCEffects`, `MCCoordination`, `MCResearch` | constants for one of the four |

Conventions. A database transaction is one step when nothing of it can be seen
before its commit and it waits for nothing in the middle; otherwise it is split
where the code waits, and what is uncommitted stays in the process. A call that
is refused and changes nothing is a stuttering step. A lost answer is a commit
after which the caller goes on as if it had failed. A hash stands for what it
covers. Definitions whose comment starts "Faulty variant" are plausible
mistakes, used only to see that a property notices them.

`Ledgers`, `VenueEffects`, `Coordination` and `Research` put several
components side by side. These share no table and no lock, so their product
would only multiply states: `part` is chosen in the initial state and says which
component moves. A property of such a module is that of one component in every
state (or of the part it is about, when the others' rows have no meaning for
it). The constants of each component are constants of the module, so that a
theorem about it holds for all of them; where one component is checked for
several configurations (canary plans, trades, simulated sessions, campaigns), a function from
part names to configurations is the constant (`Plans`, `Focus`, `Sims`,
`Campaigns`). Where components do interact, the shared
state is in one module: the outbox rows of a trade in `TradeLifecycle`, effects
in `CanarySession` and `ReadonlyEvidence`, the locks of four repositories in
`EntryGate`, migration lock and producer lease in `SchemaGuard`.

### Outbox

`rows` is `message_outbox`; `txn` holds the uncommitted rows of an application
connection; `agent` is what a dispatcher or tool remembers of its claim;
`accepted` counts the copies the Redis stream took; `before` records, for each
message, what its transaction could see when it was enqueued.

`EnqueueOutbox`, `BackfillFingerprint`, `Commit` and `Rollback` are
`DurableMessageBus.publish` and other users of `enqueue_outbox`. `ClaimOutbox` is
the claim query: current state, no earlier attempt, head of its producer, row
lock not taken. `Publish`, `RejectPayload`, `Acknowledge`,
`MarkOutcomeUnknown` and `Crash` are the dispatcher's loop body with its error
paths. `ClaimReadyOutboxExact`, `ClaimExpiredOutboxExact`,
`QuarantineExpiredOutboxExact` and `ResolveUnknownOutbox` are the operator's
tools, `FailOutbox` the remaining repository call. Leases run out, rows become
available and the retention policy drops audit rows at any time.

Left out: topic and payload bytes (a digest is present, missing or wrong), the
wording of errors (an error is none, short, or too long to be extended), the
backoff formula (a row is available or not). A restarted dispatcher uses a new
worker id in the code and the same name in the model; every claim has a fresh
reconciliation id, and that is what the outcome statements compare.

### Inbox

`inbox` has one row per consumer and message id; `proc` is what each process is
doing; `effects` counts handler transactions whose writes stayed; `wins` counts
completions that reported success. `ClaimMessage` to `TransportAck` are
`message_transaction` and `_subscribe`. An exception inside the savepoint is
`FailDelivery`; an exception in the consumer's own loop body reaches the
generator as `GeneratorExit` and is `Abort`, as are cancellation and process
death. `DirectClaim`, `CompleteMessage` and `FailMessage` are the same calls
without a surrounding transaction, which name no owner.

### OperatorControl

`latch` and `audit` are the latch row and the command table; `console` is a
command an operator wrote against the version he saw, and may submit late or
twice; `guard` and `lock` are the dispatchers inside `_final_dispatch_guard` and
the session advisory lock. `ApplyCommand` and `BindDecision` hold the same lock
for one transaction, so each is one step that needs it free. The guard is split
where the code waits: try-lock, claim and commit, second look at the clock, the
caller's send, and the way out. `LoseConnection` frees the lock and leaves the
caller where it is, because nothing in the guard looks at the connection while
the caller runs. PostgreSQL refuses a try-lock while another statement waits for
the lock (`LockFree`); that is an assumption about the database and is marked
external. Role and privilege checks and scope digests are the same for every
call of a deployment and are left out.

### TradeLifecycle, AccountRecovery, AccountEquity

Every call of the repository takes the trade's transaction lock first, so it is
one step. `TransitionWithExecutionEvent` advances row and journal and adds a
fact with the next sequence number, in the outbox too; `ReplayTransition` is the
repeat of a request, which the code recognises by fact key and by the merged
values of the journal entry and answers without a write. `applied` is the
history that `StoryIsExact` compares with. Prices, lineage and hashes are left
out; fills keep their quantity, because `MayTransition` compares it.

`AccountRecovery` gives each executor the steps lock, begin, reconcile, complete,
release, with lost connections (the lock is free, the executor goes on), crashes
and lost answers. `AccountEquity` compares the upsert with the summary of the
set of snapshots that arrived.

### ExecutionJournal, MutationBudget

The venue is a set of orders; a request may land after its sender died, but
within `CallBound` of its preparation. The code relies on that bound being
shorter than the recovery delay; `JournalIsTrue` fails without it. Recoverers and executors write the same row
without a common lock. `MutationBudget` separates the count of the window
(`Admit`) from the stamp of the row (`Store`), because the code reads the clock
twice.

### CanarySession, ReadonlyEvidence

A review stands for its arm, attempt, decision, trade and effect. `Refresh` is
the whole procedure: expiry of arms, closing of attempts by reason, draining,
completion. `final_dispatch` is split into lock, claim, entering, send and leave;
`refresh` takes no dispatch lock. `ReadonlyEvidence` has samples with receipt
and observation time, effects with begin and commit time, the certification and
its recheck at `arm_session`.

### EntryGate

A task has a path of guards. `Ask`, `Connect` and `Lock` take a connection and
the lock; `GiveUp` is the timeout of a lock statement (`command_timeout`, or five
seconds in the operator guard); `Expire` the `asyncio.timeout(max_hold_s)` of the
operator and canary guards; a wait for the pool itself has no timeout.

### SourceState, NewsProcessing, SchemaGuard

`reserve_usage` is split into `Ask` (month computed, lock requested), `Check`
(sums read under the lock) and `Store`; commit and release fall anywhere
between. `claim_batch` inserts key by key and waits for another transaction that
holds a key. `migrate` applies its scripts one by one inside one transaction;
the offline writer's start has its three refusals, and its locks end with its
connection.

### SimulationTape, SimulationJournal, ResearchCampaign

A tape accepts any bar or frame at any position; what the guards refuse is no
step. A controller reads, computes and submits; `late` is a transaction whose
COMMIT outlives its controller. In `ResearchCampaign` each operation is one
transaction under the campaign's lock, time runs in half milliseconds so that
rounding by the database shows, and `mine` are the admissions a process has seen
and not yet used for its call. Which transitions a trade event may make is decided
by the contract `SimulationTradeEventV2` of kairos_core, an external library
(`Moves`); the repository compares only the prior state, so that a trade which has
ended stays as it is because of that contract. Costs are recorded per arm and
attempt id; since no check compares two attempt ids and the seal adds them up, the
model keeps one per arm.

## 3. What TLC checks

| Run | Instance | Shows |
|---|---|---|
| `outbox_recovery` | 2 rows of an older release, one of them corrupt, and a new one, 2 tools with one id, 2 producers, 1 dispatcher | what is published was accepted; what was sent can be acknowledged or resolved, with two exceptions (below); the contract |
| `outbox_live` | 3 messages, one of them old, 2 writers, 2 dispatchers | at most once; no causal overtaking; every row is settled or stands behind one that needs an operator |
| `outbox_retry` | 2 messages, 1 dispatcher | expected violation, below |
| `inbox` | 2 replicas, 1 standalone user, 3 envelopes | effects once, ACK after completion, redelivery ends in an ACK or an identity conflict |
| `operator_faults` | 1 decision, 2 dispatchers, 1 console, 3 versions, lost connections | one send; every send traces to an ARM |
| `operator_race` | the same with 2 versions and connections that last | KILL fences sends; a waiting command is answered |
| `operator_kill` | 1 console, 2 versions, lost connections | expected violation, below |
| `ledgers` | one trade with 14 requests, two trades of one symbol, 4 equity snapshots of 2 days, 3 reservations of 2 services, 3 callers with overlapping batches | `StoryIsExact`, `OneExit`, `OneOpenTrade`, `RowIsSummary`, `BudgetsHold`, `ClaimedOnce` |
| `effects` | 5 effects under 2 budgets; 3 executor tasks and 2 recoverers on one key; a session of 2 slots, and 2 sessions with lost connections; a window of 4 with 5 kinds of observation in 2 metrics | `WindowBound`, `OnlyCompensationsCrowdOut`, `OneOrderPerEffect`, `JournalIsTrue`, `OneLiveEntry`, `SessionIsAccounted`, `StopFencesSends`, `ArmedOnEvidence` |
| `coordination` | 2 entries, recovery, an exit and a KILL over pools of 5; 2 executors with 3 faults; 2 profiles, 2 writers, 4 histories; one window of a campaign | `BarrierHolds`, `SchemaIsGuarded`, `NobodyIsStuck`, `CampaignIsSealed` |
| `research` | a tape of 4 frames in 2 symbols; 2 controllers on one command, 1 controller on two; one window in five instances (review, proposal, the arm without calls, two arms, costs) | `TapeIsSound`, `JournalVerifies`, `NoHindsight`, `CountIsEarned`, `SpendIsBounded` |
| `campaign_start` | one window with a review arm | expected violation, below |

Why these bounds. Claims of one producer interact through its head row, so
three messages give a head, a row behind it and one committed late by the other
writer: an id may be drawn first and become visible last, and two of the messages
may be of one transaction. Three samples fit into the window, so that one of them
may be wide in one metric and another in the other without either quantile being
wide. Two dispatchers, tools, executors, recoverers or controllers show every
pairwise race. `MaxId` leaves one id that a rolled-back transaction wastes.
Three envelopes are a message, its redelivery as a second entry, and the id with
another payload. Three versions allow ARM, KILL and ARM again; `MaxTime` lets a
lease end before, at and after the deadline of the session. A trade needs five
versions for entry, fill, protection, exit and end; two fact keys allow one to
be repeated after the other. Budgets of 3 and 4 with costs of 1 and 2 reach the
limit exactly and by one. The mutation window of 2 in 3 ticks drops a row while
others stay. Two canary slots show the second one taken while the first is in
doubt; two sessions show a review that outlives its session. A pool of five is
one more than the two entries can hold outside a bounded guard. A window whose
cutoff and pairing are a millisecond apart leaves half milliseconds before,
between and after them; the campaigns about costs and about two arms end at the
cutoff: costs are reserved and reported at any time, and sealing waits for
outcomes, not for the clock, so that time after it adds nothing to either.
Where the number of inputs is finite the system comes to
rest, so deadlock is not checked.

Symmetry is used for identities that the constants do not tell apart, and only
in runs without liveness.

`SentIsResolvable` says what an operator may rely on after a crash or a lost
answer. A dispatcher that sent a message knew its digest, so no backfill can take
the row out of its reach: the backfill of a claimed row without a digest leaves it
`PUBLISHING`, but such a row is never sent. Once the outcome is in doubt, the row
passes every check of `resolve_unknown_outbox_from_redis_evidence`; whether the
probe then finds exactly one copy is not part of it. There are two exceptions, and
both are the code's: the resolution asks for the audit row, which retention removes
after 365 days, and a quarantine reason may be so long that the record of the
resolution no longer fits into 4000 bytes. Only a lease of an older release can be
quarantined, so the second one concerns old rows alone.

`NobodyIsStuck` depends on the size of the pool. Account and trade guard have no
bound on what is done inside them and the wait for a connection has no timeout:
with `pool_max_size` no larger than twice the number of accounts that enter at
the same time in one process, all of them can wait for the pool for ever. The
default of 10 is enough for four accounts. An offline writer reads the versions
on a second connection while the first holds the migration lock: with a pool of
one its start waits for itself (`SchemaGuard` is checked with two).

### Fairness

- Outbox: a dispatcher keeps polling and finishes its loop body, leases run out
  and backoff ends. No fairness for operators or crashes. The code gives this as
  long as the dispatcher task lives; an exception from `claim_outbox` itself ends
  the task for good.
- Inbox: the transport redelivers until the ACK (strong fairness, other
  envelopes may be picked first), loops proceed, leases run out, faults stop at
  some time, standalone users do not claim for ever.
- Operator: a guard is left, because the hold is bounded by `asyncio.timeout`
  and a lock that cannot be released costs its connection; the lock manager
  serves a waiting statement when the lock is free. No fairness for dispatchers
  entering the guard.
- `coordination`: the caller inside a guard goes on or leaves; a lock statement
  is granted or times out; timers fire; the pool serves its queue in order.
  Executors keep running, and PostgreSQL queues lock requests, so `account_lock`
  is granted to who keeps asking (strong fairness). Time passes, and some process
  claims due windows, records outcomes and seals: that is the campaign's loop,
  whichever process runs it. No fairness for captures, calls or completions.

### Disagreements with the documentation

- `outbox_retry`. `src/README.md` says that a row whose dispatcher died after
  Redis accepted the message is published again. The claim query takes only rows
  without an attempt, so such a row is never dispatched again and holds up its
  producer until an operator resolves it. The code is the safer of the two: it
  never sends twice.
- `operator_kill`. `src/README.md` says that KILL waits for a guarded dispatch
  and that entries are refused after it commits. The guard is an advisory lock
  of one connection. When PostgreSQL ends that session the lock is free at once,
  KILL commits, and the caller, who is still inside the guard, sends afterwards.
  Each lost connection lets through at most the one order its caller had
  claimed: `OneSend` holds in `operator_faults` with the same losses.
- `campaign_start`. `src/README.md` says that a surviving START is unknown unless
  independently completed. `start_attempt` does not look at the arm's outcome,
  so an arm that another process counted as never called may still get a START
  and a provider call; the sealed denominator then counts it as never called.

Observed while modelling, with no statement of the repository to compare with: a
completion of a simulated command whose COMMIT arrives after its controller's
successor has read the depth overwrites the snapshot of that depth; without an
evaluation an outcome a fraction of a millisecond after the cutoff still counts;
the arms of one window may be counted from different inputs when a bundle is
saved between them; a simulation session that has its receipt still accepts
trades and events; two different decisions on one review keep a canary attempt
open for good.

## 4. What is proved

The proofs hold for every value of the constants that satisfies the named
assumptions (`OutboxConstants`, `InboxConstants`, `OperatorConstants`,
`BudgetConstants`, `LedgerConstants`, `EffectConstants`,
`CoordinationConstants`, `ResearchConstants`): functions have their domains,
special values lie outside the sets, reserves are smaller than capacities, the
recovery delay is longer than a call to the venue, and what is summed over (the
keys of usage reservations, the windows of a campaign, the tasks of a process) is
finite.

**Sums.** `SetLemmas` proves what the sums of the models are: `SumFunctionOnSet` of
the community modules is a `CHOOSE` of a recursive function, so `SumIsSolution`
to `SumUnfolds` first show that there is one such function and only one, and
`SumAdd`, `SumRemove`, `SumGrows`, `SumUnion`, `SumFilter`, `SumRaise` and
`SumOfParts` (the sizes of disjoint parts of a finite set add up to at most its
size) are what the other proofs cite. Where an induction is needed it is carried out by a least
counterexample (`LeastNatural`, `SubsetInduction` over sets of subsets), since the
provers cannot instantiate the library's induction theorems.

**Outbox.** `OutboxInv` is inductive: `TypeOK`; `PlacementInv` (an uncommitted
row has one writer, and causal predecessors have smaller ids and are visible no
later); `DeliveryInv` (how the columns of a row depend on each other, what a
claimant may rely on, exclusive claims, copies accounted for by attempts); and
`OrderInv`. At-most-once is not inductive alone: a claimant about to publish
must know that the row still carries its attempt and that this attempt has put
no copy on the stream (`GoodClaim`), and nobody else may hold the row. Causal
order needs `PlacementInv`, because ids are drawn before the commit. From it:
`TypeCorrect`, `AtMostOnce`, `PublishedIsDelivered`, `ClaimsAreExclusive`,
`NoCausalOvertaking`, `AttemptsAreFinal`. `SentStaysResolvable` needs a second
inductive invariant on top of it, `EvidenceInv`: a row is audited until retention
comes, only a quarantine of an old lease leaves a long reason in doubt, a row with
a copy on the stream has its digest and an intact payload (`GoodEvidence`); a
claimant's digest is the row's once it has sent, a tool's from the start, and a
dispatcher's row carries its name (`GoodKnowledge`).
`OutboxImplementsContract` proves that every step of table, dispatchers and
tools is a step of `OutboxContract` or leaves its variables alone.

**Inbox.** `InboxInv`: types, row locks exclude each other, what a busy process
may rely on in each phase, completions account for effects, acknowledged
envelopes are completed. From it: `EffectsAtMostOnce`, `AckAfterCompletion`,
`SingleWinner`, `CompletionIsFinal`. The argument is that a handling transaction
holds the lock of a row that is not completed, so no second transaction can
leave effects, and standalone completions compete by the status they update.

**Operator latch.** `OperatorInv`: types; the lock is held by exactly the
dispatcher whose connection is up (`LockInv`); a claim is made once and one
dispatcher acts on it (`ClaimInv`); while connections last, a dispatcher that
may send has the lock and the latch has not moved (`FenceInv`); admissions name
audited ARMs (`LineageInv`). From it: `OperatorTypeCorrect`, `EntryAtMostOnce`
(lost connections included), `EntryTracesToArm`, and `KillFencesEntries` under
the premise `~Disconnects`, which `operator_kill` shows cannot be dropped.

**Mutation budget.** `BudgetInv` is `TypeOK`, `WindowBound` and `RoomInv`. The
bound alone is not inductive: between the count and the insert time passes and
the row carries a later stamp, so an admitted task must know that the window as
it is now still has room for its row (`RoomInv`); it has, because the task holds
the scope's lock and a window only loses rows as time goes on. From it:
`BudgetTypes`, `BudgetBound`, and `CompensationsHaveRoom`: a compensation is
refused only when other compensations have used the reserve.

**Effect journal.** `JournalInv`. That at most one order of an effect exists
says nothing of a task that is about to send, so the invariant is about tasks
*in play*: about to send, with a request under way, or with an order at the venue
(`OneInPlay`). That a RECONCILED row is true for good needs that nothing of the
effect can land any more: a recoverer works on an effect that is due
(`AnswerIsCurrent`, `RecoveryComesLater`), and what is due was prepared longer
ago than a call takes, so the answer the venue gave is still its state when it is
written. From it: `OneOrder`, `JournalTruth`.

**Canary sessions.** `CanaryInv` of a plan: one session is open and one attempt
pending (`SessionsInOrder`, `OnePending`); whoever is past the claim has it
alone, for a consumed attempt whose effect is prepared (`ClaimIsHeld`); a sent
review was claimed and closes only with trade and effect settled
(`SentIsClaimed`); the dispatch lock and the bound on the time inside
(`LockIsHeld`); and the slots (`SlotsFilled`). The proof shows why
`refresh_attempts` may close an expired or rejected attempt without the dispatch
lock: a claimed review has an approval and a prepared effect, and those are
exactly what its conditions look at. From it: `LiveEntryIsOne`,
`SessionAccounts`, and `StopIsFence` for plans without lost connections.

**Read-only evidence.** `EvidenceInv`: samples lie at least a period less the
slack apart, so a repeated observation can only be the last one (`SamplesApart`);
effects commit after they begin. The time a sample
stands for ends before the next sample of its symbol (`WeightFits`) and lies within
observed instants (`WeightIsObserved`), so the weights that
`verify_readonly_evidence` adds up are sizes of disjoint intervals and their sum is at most
the number of instants observed. From it: `EvidenceIsSound`, the whole of
`ArmedOnEvidence`.

**Trades.** `StoryInv`: rows and journals have their types, journals start with
the creation and the row is their head, facts are numbered without a gap and
name the entry that made them, and what a request was answered is still what the
journal says. `ExitInv` adds how exits, blocks and fills follow each other in a
journal. From them: `StoryExact`, `ExitIsOne`, `OpenTradeIsOne`.

**News and equity.** `NewsInv`: a caller inserts its keys in order, the keys it
has passed are taken, and what it claimed is nobody else's. The absence of a
cycle follows from the order: of any set of waiting callers the one that waits
for the greatest key waits for nobody in the set. From it:
`EventsAreClaimedOnce`. `EquityInv` keeps, for each day, witnesses of the
first, the last and the highest snapshot; `RowIsTheSummary` follows for every
order of arrival.

**Usage budgets.** `SourceInv`: the budgets as sums over all keys, and what a task
knows between its check and its row (`TasksFit`): its key has no row, and the sums
as they are now leave room for its cost. The budgets alone are not inductive, since
`Store` does not look at them again. The room stays because the provider's lock
keeps other reservations and the adoption away, and a commit or a release only
lowers a sum (`SumsShrink`). A month is part of the campaign's total, so a check
against the total covers the month. From it: `BudgetsAreKept`, also for requests
that wait across a month's end or asked before the campaign was adopted.
`LedgerTypes` collects the types of the four ledgers.

**Recovery and schema.** `RecoveryInv` adds to the property that an executor past
its survey holds a reconciled epoch and one still at the venue an unreconciled one,
and that only epochs that were drawn are reconciled;
`SchemaInv` adds what a migration still has to do and which connection guards
what. From them: `RecoveryBarrier`, `SchemaGuarded`.

**Nested guards.** `GateInv`: the place of a task fits the depth of its path
(`GatePlaces`); a task waits in one queue, once (`GateQueues`); the connections in
use, a sum over tasks, stay within the pool (`GateLoads`), because `Connect` is the
only step that raises a load and looks at it; a guard's lock is held by one task
(`GateLocks`). From it: `GuardsAreExclusive`, for every set of tasks, paths, pools
and bounds, and, with the types of recovery, schema and campaigns,
`CoordinationTypes`. That nobody stays stuck is liveness and needs the pool size.

**Tapes.** What `verify_tape` compares between neighbours has to be known of all
pairs: `TapeInv` says that bars are as many minutes apart as places, that every
row carries the chain up to it, that neighbours in the stream of a symbol are in
order, and that without a barrier the frames of a symbol are one stream. From it:
`TapeSound`.

**Simulated sessions.** `SimInv` of a session: each row sums its journal up; what a
controller computed, and what a late COMMIT will write, has no event that leaves a
terminal state and names no command but its own or a completed one (`SimCall`), so
that whenever it is applied the journal is extended by whole completions or not at
all; a trade with a result no longer moves; the heads of a session receipt stay
prefixes. The depth snapshot is not part of it: it is what a late completion may
overwrite. From it: `SessionsVerify`.

**Campaigns.** `CampaignInv` of a campaign: rows are stored once, never change and
carry times up to the clock (`CampaignRows`); bundles and pairs hold what was
recorded in time; an arm has one completion; an outcome is what its rows say, and a
window that is missed stays without a START because the clock is past its pairing;
a call is made once by the process that saw its START. For the costs each arm of a
window has a pot: what it committed, else what is reserved, else what it asked for
and was not refused. After the seal no pot grows, so their sum never exceeds what
the denominator counted as committed and outstanding (`Costs`). From it: `CausalHindsight`, `CampaignCounts`,
`CampaignSpends`; `ResearchTypes` are the types of all three.

**Proved and not checked by a run of its own.** Exclusive claims, final attempts,
the single winner of an inbox row, final completions, and the types of outbox,
inbox and latch; that
guards exclude each other and no waiting task is missing from its queue.

**Only model-checked.** All liveness (`EventuallySettledOrEscalated`,
`EventuallyAcked`, `CommandsAreAnswered`, `NobodyIsStuck`, `CampaignIsSealed`):
fairness and `ENABLED` are outside the prover. Every invariant and every action
property that a passing run checks is stated by a theorem.

## 5. Not modelled

- `research_evidence.py`, `research_observation_schedule.py` and
  `research_decision_samples.py` append immutable evidence, each row in one
  transaction with preconditions on rows that never change; its content is
  checked and not its order.
- `simulator_proposals.py` and `simulator_proposal_consumer.py`: proposals
  inserted once behind the durable bus; the delivery is `Inbox`.
- `causal_campaign.py` and `campaign_inputs.py` read closed bars and other inputs
  and compute; they change nothing.
- In `research_campaign.py` the family of operations without the causal
  scheduler (`record_evaluation` and `record_verified_sample` of the older
  protocol) and the read-only lookups.
- `runtime_health.py` upserts one status row that nothing here reads back to
  decide anything; `config.py` and `database_target.py` validate settings;
  `cockpit_api.py`, `cockpit_snapshot.py` and `metrics_exporter.py` read and
  format.
- Inside modelled components: payload formats, digests, role checks, the
  wording of errors, and prices.

## 6. Plan

1. An entry authority as an abstract specification (at most one send per
   decision between an ARM and the next KILL or stop), with the operator and the
   canary guard shown to implement it.
2. The older campaign family, evidence and schedules, and the time arithmetic of
   `causal_campaign.py` as operators checked against a reference definition.
