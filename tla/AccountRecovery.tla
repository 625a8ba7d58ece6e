--------------------------- MODULE AccountRecovery ---------------------------
(***************************************************************************)
(* The recovery barrier of an account in trade_lifecycle.py: a starting    *)
(* executor raises the barrier with begin_recovery, which draws a new      *)
(* epoch, reconciles with the venue, and lowers it with complete_recovery, *)
(* which names the epoch it was given.  Executors do this under            *)
(* account_lock, a session lock that PostgreSQL frees when the connection  *)
(* is lost while the executor goes on.  Executors crash and restart, and   *)
(* an answer may be lost after the statement took effect.                  *)
(***************************************************************************)
EXTENDS Naturals

CONSTANTS
  Executors,  \* executor processes of the account
  MaxFaults,  \* bound on crashes, lost answers and lost connections
  NoOne       \* the lock is free

RecoveryConstants ==
  /\ MaxFaults \in Nat
  /\ NoOne \notin Executors

VARIABLES
  barrier,     \* the row of execution_recovery_state; epoch 0 when there is none
  executor,    \* where each executor is and the epoch it was given
  lock,        \* the executor whose connection holds account_lock
  reconciled,  \* history: epochs whose executor finished with the venue
  faults       \* faults so far

vars == <<barrier, executor, lock, reconciled, faults>>

\* Epochs need no bound: an executor begins once per start and once per refused
\* completion, and each of these after the first needs a fault.
Epochs == Nat

\* One row per account, one executor at most behind its lock.
TypeOK ==
  /\ barrier \in [blocked : BOOLEAN, epoch : Epochs]
  /\ executor \in [Executors -> [at : {"start", "locked"}, epoch : {0}] \cup
                                [at : {"begun", "surveyed", "running"},
                                 epoch : 1..barrier.epoch]]
  /\ lock \in Executors \cup {NoOne}
  /\ reconciled \subseteq Epochs
  /\ faults \in 0..MaxFaults

Started == [at |-> "start", epoch |-> 0]

Init ==
  /\ barrier = [blocked |-> TRUE, epoch |-> 0]
  /\ executor = [e \in Executors |-> Started]
  /\ lock = NoOne
  /\ reconciled = {}
  /\ faults = 0

Free(e) == IF lock = e THEN NoOne ELSE lock

-----------------------------------------------------------------------------
AccountLock(e) ==
  /\ executor[e].at = "start" /\ lock = NoOne
  /\ lock' = e
  /\ executor' = [executor EXCEPT ![e].at = "locked"]
  /\ UNCHANGED <<barrier, reconciled, faults>>

Raised == [blocked |-> TRUE, epoch |-> barrier.epoch + 1]

\* begin_recovery: the upsert that blocks entries and draws the epoch.
BeginRecovery(e) ==
  /\ executor[e].at = "locked"
  /\ barrier' = Raised
  /\ executor' = [executor EXCEPT ![e] = [at |-> "begun", epoch |-> Raised.epoch]]
  /\ UNCHANGED <<lock, reconciled, faults>>

\* The executor compares its trades and effects with the venue.
Reconcile(e) ==
  /\ executor[e].at = "begun"
  /\ executor' = [executor EXCEPT ![e].at = "surveyed"]
  /\ reconciled' = reconciled \cup {executor[e].epoch}
  /\ UNCHANGED <<barrier, lock, faults>>

\* Faulty variant: the completion names no epoch.
MayCompleteAny(e) == executor[e].at = "surveyed"

MayComplete(e) == executor[e].at = "surveyed" /\ executor[e].epoch = barrier.epoch

\* complete_recovery, for the epoch that is still the newest.  The lock goes
\* back to the pool.
CompleteRecovery(e) ==
  /\ MayComplete(e)
  /\ barrier' = [barrier EXCEPT !.blocked = FALSE]
  /\ executor' = [executor EXCEPT ![e].at = "running"]
  /\ lock' = Free(e)
  /\ UNCHANGED <<reconciled, faults>>

\* complete_recovery raises for an older epoch; the executor starts over.
CompletionRefused(e) ==
  /\ executor[e].at = "surveyed" /\ executor[e].epoch # barrier.epoch
  /\ executor' = [executor EXCEPT ![e] = Started]
  /\ lock' = Free(e)
  /\ UNCHANGED <<barrier, reconciled, faults>>

-----------------------------------------------------------------------------
Fault == faults < MaxFaults /\ faults' = faults + 1

\* The process ends, wherever it is, and its connections with it.
Crash(e) ==
  /\ Fault
  /\ executor[e].at # "start"
  /\ executor' = [executor EXCEPT ![e] = Started]
  /\ lock' = Free(e)
  /\ UNCHANGED <<barrier, reconciled>>

\* The connection of the lock is lost and the executor does not notice.
LoseLock(e) ==
  /\ Fault
  /\ lock = e
  /\ lock' = NoOne
  /\ UNCHANGED <<barrier, executor, reconciled>>

\* A statement takes effect, its answer is lost, and the caller repeats it.
BeginAnswerLost(e) ==
  /\ Fault
  /\ executor[e].at = "locked"
  /\ barrier' = Raised
  /\ UNCHANGED <<executor, lock, reconciled>>

CompleteAnswerLost(e) ==
  /\ Fault
  /\ MayComplete(e)
  /\ barrier' = [barrier EXCEPT !.blocked = FALSE]
  /\ UNCHANGED <<executor, lock, reconciled>>

Step(e) ==
  \/ AccountLock(e) \/ BeginRecovery(e) \/ Reconcile(e)
  \/ CompleteRecovery(e) \/ CompletionRefused(e)

Next ==
  \E e \in Executors :
    Step(e) \/ Crash(e) \/ LoseLock(e) \/ BeginAnswerLost(e) \/ CompleteAnswerLost(e)

Spec == Init /\ [][Next]_vars

-----------------------------------------------------------------------------
\* Entries are admitted only if the executor that raised the barrier last also
\* finished with the venue: the late completion of an executor that was
\* overtaken by a restart never lifts its successor's barrier.
BarrierOfNewestEpoch == ~barrier.blocked => barrier.epoch \in reconciled

\* While an executor reconciles under the newest epoch nothing is admitted.
BlockedWhileReconciling ==
  \A e \in Executors :
    executor[e].at = "begun" /\ executor[e].epoch = barrier.epoch => barrier.blocked

\* Two executors never hold one epoch, and an epoch is drawn once.
EpochsAreExclusive ==
  \A e, f \in Executors :
    executor[e].epoch > 0 /\ executor[e].epoch = executor[f].epoch => e = f

\* What an entry relies on when require_entry_allowed lets it through: the last
\* executor that began recovery finished it, alone, with nothing left to reconcile.
BarrierHolds == BarrierOfNewestEpoch /\ BlockedWhileReconciling /\ EpochsAreExclusive

\* Faults that end leave an account that admits entries again, with every
\* executor past its recovery: nobody waits for a lock or an epoch for ever.
EventuallyAdmitted ==
  <>[](~barrier.blocked /\ \A e \in Executors : executor[e].at = "running")
=============================================================================
