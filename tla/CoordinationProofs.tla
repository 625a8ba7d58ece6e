-------------------------- MODULE CoordinationProofs --------------------------
(***************************************************************************)
(* What holds of the recovery barrier, the schema guard, the nested guards *)
(* with their pools and the campaign's rows, for every set of executors,   *)
(* services, writers, scripts, tasks and windows.  A part is proved with   *)
(* an invariant of its own rows; a step of another part leaves them alone. *)
(***************************************************************************)
EXTENDS Coordination, SetLemmas

-----------------------------------------------------------------------------
(***************************************************************************)
(* AccountRecovery.  account_lock is no premise of the argument: the       *)
(* epochs alone carry it, and an executor that lost its lock without       *)
(* noticing is one of the cases.                                           *)
(***************************************************************************)
\* An executor past its survey holds an epoch that is reconciled.
SurveyIsKept ==
  \A e \in Executors : executor[e].at \in {"surveyed", "running"} => executor[e].epoch \in reconciled

\* Only an epoch that was drawn is reconciled, and not while its one executor
\* still is at the venue.
ReconciledWasDrawn == reconciled \subseteq 1..barrier.epoch

BegunIsOpen ==
  \A e \in Executors : executor[e].at = "begun" => executor[e].epoch \notin reconciled

\* The inductive invariant: the barrier and what an epoch stands for.
RecoveryInv ==
  /\ Recovery!TypeOK /\ Recovery!BarrierHolds
  /\ SurveyIsKept /\ ReconciledWasDrawn /\ BegunIsOpen

\* Whatever an executor does or suffers.
ExecutorStep(e) ==
  \/ Recovery!Step(e) \/ Recovery!Crash(e) \/ Recovery!LoseLock(e)
  \/ Recovery!BeginAnswerLost(e) \/ Recovery!CompleteAnswerLost(e)

\* The state of a new account, blocked and without an epoch, satisfies it.
LEMMA RecoveryInit == Recovery!Init => RecoveryInv
  BY CoordinationConstants
     DEF Recovery!RecoveryConstants, Recovery!Init, RecoveryInv, Recovery!TypeOK,
         Recovery!Epochs, Recovery!Started, Recovery!BarrierHolds,
         Recovery!BarrierOfNewestEpoch, Recovery!BlockedWhileReconciling,
         Recovery!EpochsAreExclusive, SurveyIsKept, ReconciledWasDrawn, BegunIsOpen

\* A row, an executor and the lock keep their types whatever an executor does.
LEMMA RecoveryTypeStep ==
  ASSUME RecoveryInv, NEW e \in Executors, ExecutorStep(e)
  PROVE  Recovery!TypeOK'
<1>. USE CoordinationConstants
     DEF RecoveryInv, Recovery!RecoveryConstants, Recovery!TypeOK, Recovery!Epochs,
         Recovery!Started, Recovery!Free
<1>1. CASE Recovery!AccountLock(e)
  BY <1>1 DEF Recovery!AccountLock
<1>2. CASE Recovery!BeginRecovery(e)
  BY <1>2 DEF Recovery!BeginRecovery, Recovery!Raised
<1>3. CASE Recovery!Reconcile(e)
  BY <1>3 DEF Recovery!Reconcile
<1>4. CASE Recovery!CompleteRecovery(e)
  <2>1. barrier' \in [blocked : BOOLEAN, epoch : Nat] /\ barrier'.epoch = barrier.epoch
    BY <1>4 DEF Recovery!CompleteRecovery
  <2>. QED BY <1>4, <2>1 DEF Recovery!CompleteRecovery, Recovery!MayComplete
<1>5. CASE Recovery!CompletionRefused(e)
  BY <1>5 DEF Recovery!CompletionRefused
<1>6. CASE Recovery!Crash(e)
  BY <1>6 DEF Recovery!Crash, Recovery!Fault
<1>7. CASE Recovery!LoseLock(e)
  BY <1>7 DEF Recovery!LoseLock, Recovery!Fault
<1>8. CASE Recovery!BeginAnswerLost(e)
  BY <1>8 DEF Recovery!BeginAnswerLost, Recovery!Fault, Recovery!Raised
<1>9. CASE Recovery!CompleteAnswerLost(e)
  <2>1. barrier' \in [blocked : BOOLEAN, epoch : Nat] /\ barrier'.epoch = barrier.epoch
    BY <1>9 DEF Recovery!CompleteAnswerLost
  <2>. QED BY <1>9, <2>1 DEF Recovery!CompleteAnswerLost, Recovery!Fault
<1>. QED BY <1>1, <1>2, <1>3, <1>4, <1>5, <1>6, <1>7, <1>8, <1>9
         DEF ExecutorStep, Recovery!Step

\* The barrier and the epochs survive every step of every executor.
LEMMA RecoveryBarrierStep ==
  ASSUME RecoveryInv, NEW e \in Executors, ExecutorStep(e)
  PROVE  Recovery!BarrierHolds' /\ SurveyIsKept' /\ ReconciledWasDrawn' /\ BegunIsOpen'
<1>. USE DEF RecoveryInv, Recovery!TypeOK, Recovery!Epochs, Recovery!Started,
             Recovery!BarrierHolds, Recovery!BarrierOfNewestEpoch,
             Recovery!BlockedWhileReconciling, Recovery!EpochsAreExclusive, SurveyIsKept,
             ReconciledWasDrawn, BegunIsOpen
<1>1. CASE Recovery!AccountLock(e)
  BY <1>1 DEF Recovery!AccountLock
<1>2. CASE Recovery!BeginRecovery(e)
  BY <1>2 DEF Recovery!BeginRecovery, Recovery!Raised
<1>3. CASE Recovery!Reconcile(e)
  BY <1>3 DEF Recovery!Reconcile
<1>4. CASE Recovery!CompleteRecovery(e)
  BY <1>4 DEF Recovery!CompleteRecovery, Recovery!MayComplete
<1>5. CASE Recovery!CompletionRefused(e)
  BY <1>5 DEF Recovery!CompletionRefused
<1>6. CASE Recovery!Crash(e)
  BY <1>6 DEF Recovery!Crash
<1>7. CASE Recovery!LoseLock(e)
  BY <1>7 DEF Recovery!LoseLock
<1>8. CASE Recovery!BeginAnswerLost(e)
  BY <1>8 DEF Recovery!BeginAnswerLost, Recovery!Raised
<1>9. CASE Recovery!CompleteAnswerLost(e)
  BY <1>9 DEF Recovery!CompleteAnswerLost, Recovery!MayComplete
<1>. QED BY <1>1, <1>2, <1>3, <1>4, <1>5, <1>6, <1>7, <1>8, <1>9
         DEF ExecutorStep, Recovery!Step

\* The invariant is inductive, whichever part moves.
LEMMA RecoveryStep == RecoveryInv /\ [Next]_vars => RecoveryInv'
<1>. SUFFICES ASSUME RecoveryInv, [Next]_vars PROVE RecoveryInv'
  OBVIOUS
<1>1. ASSUME NEW e \in Executors, ExecutorStep(e) PROVE RecoveryInv'
  BY <1>1, RecoveryTypeStep, RecoveryBarrierStep DEF RecoveryInv
<1>2. CASE UNCHANGED recoveryVars
  BY <1>2 DEF recoveryVars, RecoveryInv, Recovery!TypeOK, Recovery!BarrierHolds,
              Recovery!BarrierOfNewestEpoch, Recovery!BlockedWhileReconciling,
              Recovery!EpochsAreExclusive, SurveyIsKept, ReconciledWasDrawn, BegunIsOpen
<1>. QED BY <1>1, <1>2 DEF Next, GateNext, RecoveryNext, SchemaNext, CampaignNext,
                           Recovery!Next, ExecutorStep, vars

\* begin_recovery and complete_recovery: for every set of executors and any
\* number of faults, entries are admitted only if the executor that raised the
\* barrier last finished with the venue, nobody reconciles under an open
\* barrier, and no two executors hold one epoch.
THEOREM RecoveryBarrier == Spec => []BarrierHolds
<1>1. RecoveryInv => BarrierHolds
  BY DEF RecoveryInv, BarrierHolds
<1>2. Init => RecoveryInv
  BY RecoveryInit DEF Init
<1>. QED BY RecoveryStep, <1>1, <1>2, PTL DEF Spec

-----------------------------------------------------------------------------
(***************************************************************************)
(* SchemaGuard.  One lock makes migrations and offline writers exclude     *)
(* each other; the proof is that whoever still acts under it still has it. *)
(***************************************************************************)
\* A migrating transaction only has scripts of its own manifest.
WorkIsPlanned == \A p \in Services : service[p] = "applying" => work \subseteq Manifest[p]

\* A live connection of a writer has the guard, and behind it the schema stays
\* what the writer read and the lease stays the writer's.
ConnectionGuards ==
  \A w \in Writers : writer[w].conn =>
    /\ guard = w
    /\ writer[w].at \in {"checked", "started"} => applied = Expected[w]
    /\ writer[w].at = "started" => lease[ProducerOf[w]] = w

\* The inductive invariant.
SchemaInv ==
  /\ Schema!TypeOK /\ WorkIsPlanned /\ ConnectionGuards
  /\ Schema!SchemaIsGuarded

\* A database with one of the histories and no process satisfies it.
LEMMA SchemaInit == Schema!Init => SchemaInv
  BY CoordinationConstants
     DEF Schema!SchemaConstants, Schema!Init, SchemaInv, Schema!TypeOK, Schema!Stopped,
         Schema!WriterStates, WorkIsPlanned, ConnectionGuards, Schema!SchemaIsGuarded,
         Schema!HistoryIsAManifest, Schema!AppendsAreExclusive, Schema!NothingStaysLocked

\* Names of writers, services and producers stand for different processes.
LEMMA Apart ==
  /\ \A w \in Writers : w \notin Services /\ w \notin Producers /\ w # None
  /\ \A p \in Services \cup Producers : p # None
  BY CoordinationConstants DEF Schema!SchemaConstants

\* migrate, up to the COMMIT that shows a whole manifest.
LEMMA MigrateStep ==
  ASSUME SchemaInv, NEW p \in Services,
         \/ Schema!Ask(p) \/ Schema!TakeGuard(p) \/ Schema!Refuse(p) \/ Schema!Finish(p)
         \/ Schema!Restart(p) \/ \E n \in Migrations : Schema!Apply(p, n)
  PROVE  SchemaInv'
<1>. USE CoordinationConstants
     DEF Schema!SchemaConstants, SchemaInv, Schema!TypeOK, Schema!WriterStates, WorkIsPlanned,
         ConnectionGuards, Schema!SchemaIsGuarded, Schema!HistoryIsAManifest,
         Schema!AppendsAreExclusive, Schema!NothingStaysLocked
<1>1. CASE Schema!Ask(p)
  BY <1>1 DEF Schema!Ask
<1>2. CASE Schema!TakeGuard(p)
  BY <1>2 DEF Schema!TakeGuard, Schema!Compatible
<1>3. CASE Schema!Refuse(p)
  BY <1>3 DEF Schema!Refuse
<1>4. CASE Schema!Finish(p)
  <2>1. guard = p /\ work = Manifest[p]
    <3>1. guard = p /\ Manifest[p] \subseteq work /\ work \subseteq Manifest[p]
      BY <1>4 DEF Schema!Finish
    <3>. QED BY <3>1, Zenon
  <2>2. \A w \in Writers : ~writer[w].conn
    BY <2>1, Apart
  <2>3. Schema!TypeOK'
    BY <1>4, <2>1 DEF Schema!Finish
  <2>4. WorkIsPlanned' /\ ConnectionGuards'
    BY <1>4, <2>1, <2>2 DEF Schema!Finish
  <2>5. Schema!HistoryIsAManifest'
    BY <1>4, <2>1 DEF Schema!Finish
  <2>6. Schema!AppendsAreExclusive' /\ Schema!NothingStaysLocked'
    BY <1>4, <2>1 DEF Schema!Finish
  <2>. QED BY <2>3, <2>4, <2>5, <2>6
<1>5. CASE Schema!Restart(p)
  <2>1. Schema!TypeOK'
    BY <1>5 DEF Schema!Restart
  <2>2. ASSUME NEW q \in Services, service'[q] = "applying" PROVE work' \subseteq Manifest[q]
    <3>1. service[q] = "applying" /\ guard = q /\ q # p
      BY <1>5, <2>2 DEF Schema!Restart
    <3>. QED BY <1>5, <3>1 DEF Schema!Restart
  <2>3. ASSUME NEW w \in Writers, writer'[w].conn PROVE guard' = guard
    BY <1>5, <2>3, Apart DEF Schema!Restart
  <2>4. ConnectionGuards'
    BY <1>5, <2>3 DEF Schema!Restart
  <2>5. Schema!SchemaIsGuarded'
    BY <1>5 DEF Schema!Restart
  <2>. QED BY <2>1, <2>2, <2>4, <2>5 DEF SchemaInv, WorkIsPlanned
<1>6. ASSUME NEW n \in Migrations, Schema!Apply(p, n) PROVE SchemaInv'
  BY <1>6 DEF Schema!Apply
<1>. QED BY <1>1, <1>2, <1>3, <1>4, <1>5, <1>6

\* The offline writer, from its try-lock to the end of its connection.
LEMMA WriterStep ==
  ASSUME SchemaInv, NEW w \in Writers,
         \/ Schema!TryGuard(w) \/ Schema!ReadVersions(w) \/ Schema!TryLease(w)
         \/ Schema!FailStart(w) \/ Schema!Append(w) \/ Schema!Close(w)
         \/ Schema!LoseConnection(w)
  PROVE  SchemaInv'
<1>. USE CoordinationConstants
     DEF Schema!SchemaConstants, SchemaInv, Schema!TypeOK, Schema!WriterStates, WorkIsPlanned,
         ConnectionGuards, Schema!SchemaIsGuarded, Schema!HistoryIsAManifest,
         Schema!AppendsAreExclusive, Schema!NothingStaysLocked
<1>1. CASE Schema!TryGuard(w)
  BY <1>1 DEF Schema!TryGuard
<1>2. CASE Schema!ReadVersions(w)
  BY <1>2 DEF Schema!ReadVersions
<1>3. CASE Schema!TryLease(w)
  BY <1>3 DEF Schema!TryLease
<1>4. CASE Schema!Release(w)
  BY <1>4 DEF Schema!Release, Schema!WithoutLease, Schema!WithoutGuard, Schema!Stopped
<1>5. CASE Schema!Append(w)
  <2>1. applied = Expected[w] /\ lease[ProducerOf[w]] # ProducerOf[w]
    BY <1>5, Apart DEF Schema!Append, Schema!Usable
  <2>2. appends' = appends \cup {[by |-> w, schema |-> Expected[w], live |-> FALSE]}
    BY <1>5, <2>1 DEF Schema!Append
  <2>3. Schema!TypeOK'
    <3>1. [by |-> w, schema |-> Expected[w], live |-> FALSE]
            \in [by : Writers, schema : SUBSET Migrations, live : BOOLEAN]
      OBVIOUS
    <3>2. appends' \subseteq [by : Writers, schema : SUBSET Migrations, live : BOOLEAN]
      BY <2>2, <3>1, Zenon DEF SchemaInv, Schema!TypeOK
    <3>. QED BY <1>5, <3>2 DEF Schema!Append
  <2>4. WorkIsPlanned' /\ ConnectionGuards' /\ Schema!HistoryIsAManifest'
        /\ Schema!NothingStaysLocked'
    BY <1>5 DEF Schema!Append
  <2>5. Schema!AppendsAreExclusive'
    BY <2>2 DEF SchemaInv, Schema!AppendsAreExclusive
  <2>. QED BY <2>3, <2>4, <2>5
<1>6. CASE Schema!LoseConnection(w)
  <2>. USE DEF Schema!LoseConnection, Schema!WithoutLease, Schema!WithoutGuard
  <2>1. /\ writer' \in [Writers -> Schema!WriterStates]
        /\ \A v \in Writers : /\ writer'[v].at = writer[v].at
                               /\ v # w => writer'[v].conn = writer[v].conn
        /\ ~writer'[w].conn
    <3>. DEFINE lost == [writer[w] EXCEPT !.conn = FALSE]
    <3>1. writer[w] \in [at : {"stopped", "guarded", "checked", "started"}, conn : BOOLEAN]
      OBVIOUS
    <3>2. lost \in [at : {"stopped", "guarded", "checked", "started"}, conn : BOOLEAN]
      BY ONLY <3>1
    <3>3. lost.at = writer[w].at /\ lost.conn = FALSE
      BY ONLY <3>1
    <3>4. writer' = [writer EXCEPT ![w] = lost]
      BY <1>6
    <3>. HIDE DEF lost
    <3>. QED BY <3>2, <3>3, <3>4
  <2>2. /\ lease' \in [Producers -> Writers \cup Producers \cup {None}]
        /\ guard' \in Services \cup Writers \cup {None}
        /\ guard' # w /\ \A p \in Producers : lease'[p] # w
        /\ \A v \in Writers \cup Services : v # w => (guard' = v <=> guard = v)
        /\ \A v \in Writers, p \in Producers : v # w => (lease'[p] = v <=> lease[p] = v)
    BY <1>6, Apart
  <2>3. Schema!TypeOK'
    BY <1>6, <2>1, <2>2, Apart
  <2>4. WorkIsPlanned' /\ ConnectionGuards'
    BY <1>6, <2>1, <2>2
  <2>5. Schema!SchemaIsGuarded'
    BY <1>6, <2>1, <2>2
  <2>. QED BY <2>3, <2>4, <2>5
<1>. QED BY <1>1, <1>2, <1>3, <1>4, <1>5, <1>6 DEF Schema!FailStart, Schema!Close

\* A live producer takes and returns its lease.
LEMMA ProducerStep ==
  ASSUME SchemaInv, NEW p \in Producers, Schema!GoLive(p) \/ Schema!GoDown(p)
  PROVE  SchemaInv'
<1>. USE CoordinationConstants
     DEF Schema!SchemaConstants, SchemaInv, Schema!TypeOK, Schema!WriterStates, WorkIsPlanned,
         ConnectionGuards, Schema!SchemaIsGuarded, Schema!HistoryIsAManifest,
         Schema!AppendsAreExclusive, Schema!NothingStaysLocked
<1>1. CASE Schema!GoLive(p)
  BY <1>1 DEF Schema!GoLive
<1>2. CASE Schema!GoDown(p)
  BY <1>2 DEF Schema!GoDown
<1>. QED BY <1>1, <1>2

\* The invariant is inductive, whichever part moves.
LEMMA SchemaStep == SchemaInv /\ [Next]_vars => SchemaInv'
<1>. SUFFICES ASSUME SchemaInv, [Next]_vars PROVE SchemaInv'
  OBVIOUS
<1>1. CASE Schema!Next
  BY <1>1, MigrateStep, WriterStep, ProducerStep DEF Schema!Next
<1>2. CASE UNCHANGED schemaVars
  BY <1>2 DEF schemaVars, SchemaInv, Schema!TypeOK, WorkIsPlanned, ConnectionGuards,
              Schema!SchemaIsGuarded, Schema!HistoryIsAManifest, Schema!AppendsAreExclusive,
              Schema!NothingStaysLocked
<1>. QED BY <1>1, <1>2 DEF Next, GateNext, RecoveryNext, SchemaNext, CampaignNext, vars

\* Database.migrate and OfflineDurableWriter: for every set of releases, writers
\* and producers schema_migrations holds a history it started with or a whole
\* manifest, every offline append is made on the reviewed schema while no
\* producer of the service is live, and a writer that is not running holds no lock.
THEOREM SchemaGuarded == Spec => []SchemaIsGuarded
<1>1. SchemaInv => SchemaIsGuarded
  BY DEF SchemaInv, SchemaIsGuarded
<1>2. Init => SchemaInv
  BY SchemaInit DEF Init
<1>. QED BY SchemaStep, <1>1, <1>2, PTL DEF Spec

-----------------------------------------------------------------------------
(***************************************************************************)
(* EntryGate.  Whoever waits for a connection stands in the queue of its   *)
(* pool once, so a connection is handed to one waiter and counted once;    *)
(* no other step of a task takes one.                                      *)
(***************************************************************************)
\* What the assumption on the constants says of tasks, paths and pools.
LEMMA GateFacts ==
  /\ IsFiniteSet(Tasks) /\ Home \in [Tasks -> Procs] /\ GatePool \in Nat
  /\ \A t \in Tasks : Len(Path[t]) \in Nat
<1>1. Gate!IsFiniteSet(Tasks) /\ Home \in [Tasks -> Procs] /\ GatePool \in Nat
  BY CoordinationConstants DEF Gate!GateConstants
<1>2. \A t \in Tasks : Len(Path[t]) \in Nat
  BY CoordinationConstants DEF Gate!GateConstants
<1>3. IsFiniteSet(Tasks)
  BY <1>1, Zenon DEF Gate!IsFiniteSet, IsFiniteSet
<1>. QED BY <1>1, <1>2, <1>3

\* Places and depths go together.
GatePlaces(d, a) ==
  /\ d \in [Tasks -> Nat] /\ a \in [Tasks -> {"idle", "pool", "lock", "body", "leaving"}]
  /\ \A t \in Tasks :
       /\ d[t] <= Len(Path[t]) /\ (a[t] = "idle" => d[t] = 0)
       /\ (a[t] \in {"body", "leaving"} => d[t] >= 1)
       /\ (a[t] \in {"pool", "lock"} => d[t] < Len(Path[t]))

\* A queue holds the tasks of its process that wait for a connection, each once.
Waits(a, q, p) ==
  /\ q \in Seq({t \in Tasks : Home[t] = p /\ a[t] = "pool"})
  /\ \A i, j \in 1..Len(q) : q[i] = q[j] => i = j
  /\ \A t \in Tasks : Home[t] = p /\ a[t] = "pool" => \E i \in 1..Len(q) : q[i] = t

GateQueues(a, q) == DOMAIN q = Procs /\ \A p \in Procs : Waits(a, q[p], p)

\* The connections of a pool that are out.
Taken(d, a) == [t \in Tasks |-> d[t] + (IF a[t] = "lock" THEN 1 ELSE 0)]
Load(d, a, p) == SumFunctionOnSet(Taken(d, a), {t \in Tasks : Home[t] = p})

GateLoads(d, a) == \A p \in Procs : Load(d, a, p) <= GatePool

\* The lock of a guard has one holder.
GateLocks(d) ==
  \A t, u \in Tasks : \A i \in 1..d[t], j \in 1..d[u] : Path[t][i] = Path[u][j] => t = u /\ i = j

\* The inductive invariant of the guards.
GateInv == GatePlaces(depth, at) /\ GateQueues(at, queue) /\ GateLoads(depth, at) /\ GateLocks(depth)

\* The tasks of a process are finitely many, and each has a natural number of connections.
LEMMA TakenTypes ==
  ASSUME NEW d, NEW a, GatePlaces(d, a), NEW p \in Procs
  PROVE  /\ IsFiniteSet({t \in Tasks : Home[t] = p})
         /\ \A t \in Tasks : Taken(d, a)[t] \in Nat
         /\ Load(d, a, p) \in Nat
<1>1. {t \in Tasks : Home[t] = p} \in SUBSET Tasks
  OBVIOUS
<1>2. IsFiniteSet({t \in Tasks : Home[t] = p})
  BY <1>1, GateFacts, FS_Subset
<1>3. \A t \in Tasks : Taken(d, a)[t] \in Nat
  BY DEF GatePlaces, Taken
<1>4. \A t \in {t \in Tasks : Home[t] = p} : Taken(d, a)[t] \in Nat
  BY <1>3
<1>5. Load(d, a, p) \in Nat
  BY <1>2, <1>4, SumNatural DEF Load
<1>. QED BY <1>2, <1>3, <1>5

\* Used is that sum, before and after a step.
LEMMA UsedIsLoad ==
  ASSUME NEW p
  PROVE  Gate!Used(p) = Load(depth, at, p) /\ Gate!Used(p)' = Load(depth', at', p)
<1>1. ASSUME NEW f, NEW S PROVE Gate!SumFunctionOnSet(f, S) = SumFunctionOnSet(f, S)
  <2>1. Gate!SumFunctionOnSet(f, S) = (CHOOSE g : SumEq(f, S, g))[S]
    BY Zenon DEF Gate!SumFunctionOnSet, Gate!FoldFunctionOnSet, Gate!MapThenFoldSet, SumEq, Pick
  <2>. QED BY <2>1, SumIsSolution, Zenon
<1>2. Gate!Used(p) = Gate!SumFunctionOnSet(Taken(depth, at), {t \in Tasks : Home[t] = p})
  BY DEF Gate!Used, Gate!Connections, Taken
<1>3. Gate!Used(p)' = Gate!SumFunctionOnSet(Taken(depth', at'), {t \in Tasks : Home[t] = p})
  BY DEF Gate!Used, Gate!Connections, Taken
<1>. QED BY <1>1, <1>2, <1>3, Zenon DEF Load

\* A step after which no task has more connections than before keeps the bound.
LEMMA LoadsShrink ==
  ASSUME NEW d, NEW a, NEW e, NEW b, GatePlaces(d, a), GatePlaces(e, b), GateLoads(d, a),
         \A t \in Tasks : Taken(e, b)[t] <= Taken(d, a)[t]
  PROVE  GateLoads(e, b)
<1>. SUFFICES ASSUME NEW p \in Procs PROVE Load(e, b, p) <= GatePool
  BY DEF GateLoads
<1>. DEFINE S == {t \in Tasks : Home[t] = p}
            f == Taken(e, b)
            g == Taken(d, a)
<1>1. IsFiniteSet(S) /\ \A t \in S : f[t] \in Nat /\ g[t] \in Nat /\ f[t] <= g[t]
  BY TakenTypes
<1>2. SumFunctionOnSet(f, S) <= SumFunctionOnSet(g, S)
  <2>. HIDE DEF S, f, g
  <2>. QED BY <1>1, SumGrows
<1>3. Load(e, b, p) <= Load(d, a, p)
  BY <1>2 DEF Load
<1>4. Load(e, b, p) \in Nat /\ Load(d, a, p) \in Nat /\ Load(d, a, p) <= GatePool
  BY TakenTypes DEF GateLoads
<1>. QED BY <1>3, <1>4, GateFacts

\* Nobody inside, nobody waiting.
LEMMA GateInit == Gate!Init => GateInv
<1>. SUFFICES ASSUME Gate!Init PROVE GateInv
  OBVIOUS
<1>. USE GateFacts DEF Gate!Init
<1>1. GatePlaces(depth, at)
  BY DEF GatePlaces
<1>2. GateQueues(at, queue)
  BY DEF GateQueues, Waits
<1>3. GateLoads(depth, at)
  <2>. SUFFICES ASSUME NEW p \in Procs PROVE Load(depth, at, p) <= GatePool
    BY DEF GateLoads
  <2>. DEFINE S == {t \in Tasks : Home[t] = p}
  <2>1. IsFiniteSet(S) /\ \A t \in S : Taken(depth, at)[t] = 0
    BY <1>1, TakenTypes DEF Taken
  <2>2. SumFunctionOnSet(Taken(depth, at), S) = 0
    <3>. HIDE DEF S
    <3>. QED BY <2>1, SumZero
  <2>. QED BY <2>2 DEF Load
<1>4. GateLocks(depth)
  BY DEF GateLocks
<1>. QED BY <1>1, <1>2, <1>3, <1>4 DEF GateInv

\* Where the first of the wanted elements stands.
LEMMA FirstPlace ==
  ASSUME NEW S, NEW q \in Seq(S), NEW e, \E i \in 1..Len(q) : q[i] = e
  PROVE  \E k \in 1..Len(q) : q[k] = e /\ Gate!RemoveFirst(q, e) = SubSeq(q, 1, k - 1) \o SubSeq(q, k + 1, Len(q))
<1>. DEFINE I == {i \in 1..Len(q) : q[i] = e}
            k == Gate!SelectInSeq(q, LAMBDA v : v = e)
<1>1. I \in SUBSET Nat /\ I # {}
  OBVIOUS
<1>2. k = Gate!Min(I)
  BY <1>1, Zenon DEF Gate!SelectInSeq
<1>3. \E n \in I : \A m \in I : n <= m
  <2>. HIDE DEF I
  <2>. QED BY <1>1, LeastNatural
<1>4. Gate!Min(I) \in I
  BY <1>3, Zenon DEF Gate!Min
<1>5. Gate!RemoveFirst(q, e) = SubSeq(q, 1, k - 1) \o SubSeq(q, k + 1, Len(q))
  BY Zenon DEF Gate!RemoveFirst, Gate!RemoveAt
<1>. HIDE DEF k
<1>. QED BY <1>2, <1>4, <1>5

\* Two sequences one after the other.
LEMMA Joined ==
  ASSUME NEW S, NEW a \in Seq(S), NEW b \in Seq(S)
  PROVE  a \o b \in Seq(S) /\ Len(a \o b) = Len(a) + Len(b)
  OBVIOUS

\* Without the waiter that gave up, a queue has the others, each once.
Others(S, q, e, r) ==
  /\ r \in Seq(S \ {e})
  /\ \A i, j \in 1..Len(r) : r[i] = r[j] => i = j
  /\ \A x \in S \ {e} : (\E i \in 1..Len(q) : q[i] = x) => \E i \in 1..Len(r) : r[i] = x

\* Removing the waiter that gave up leaves the others in their queue.
LEMMA QueueWithout ==
  ASSUME NEW S, NEW q \in Seq(S), NEW e, \A i, j \in 1..Len(q) : q[i] = q[j] => i = j
  PROVE  Others(S, q, e, Gate!RemoveFirst(q, e))
<1>. DEFINE r == Gate!RemoveFirst(q, e)
<1>1. CASE ~\E i \in 1..Len(q) : q[i] = e
  <2>1. r = q
    BY <1>1, Zenon DEF Gate!RemoveFirst
  <2>2. q \in Seq(S \ {e})
    BY <1>1
  <2>. QED BY <2>1, <2>2 DEF Others
<1>2. CASE \E i \in 1..Len(q) : q[i] = e
  <2>1. PICK k \in 1..Len(q) : q[k] = e /\ r = SubSeq(q, 1, k - 1) \o SubSeq(q, k + 1, Len(q))
    BY <1>2, FirstPlace
  <2>. HIDE DEF r
  <2>2. /\ SubSeq(q, 1, k - 1) \in Seq(S) /\ Len(SubSeq(q, 1, k - 1)) = k - 1
        /\ \A i \in 1..(k - 1) : SubSeq(q, 1, k - 1)[i] = q[i]
    OBVIOUS
  <2>3. /\ SubSeq(q, k + 1, Len(q)) \in Seq(S) /\ Len(SubSeq(q, k + 1, Len(q))) = Len(q) - k
        /\ \A i \in 1..(Len(q) - k) : SubSeq(q, k + 1, Len(q))[i] = q[k + i]
    OBVIOUS
  <2>. DEFINE a == SubSeq(q, 1, k - 1)
              b == SubSeq(q, k + 1, Len(q))
  <2>a. r = a \o b /\ a \in Seq(S) /\ b \in Seq(S) /\ Len(a) = k - 1 /\ Len(b) = Len(q) - k
    BY <2>1, <2>2, <2>3
  <2>b. (\A i \in 1..(k - 1) : a[i] = q[i]) /\ \A i \in 1..(Len(q) - k) : b[i] = q[k + i]
    BY <2>2, <2>3
  <2>. HIDE DEF a, b
  <2>4. r \in Seq(S) /\ Len(r) = Len(q) - 1
    <3>1. a \o b \in Seq(S) /\ Len(a \o b) = Len(a) + Len(b)
      <4>1. a \in Seq(S) /\ b \in Seq(S)
        BY <2>a
      <4>. QED BY <4>1, Joined, Zenon
    <3>2. Len(q) \in Nat /\ (k - 1) + (Len(q) - k) = Len(q) - 1
      OBVIOUS
    <3>. QED BY <2>a, <3>1, <3>2
  <2>5. \A i \in 1..Len(r) : r[i] = IF i < k THEN q[i] ELSE q[i + 1]
    <3>. SUFFICES ASSUME NEW i \in 1..Len(r) PROVE r[i] = IF i < k THEN q[i] ELSE q[i + 1]
      OBVIOUS
    <3>1. CASE i < k
      <4>1. i \in 1..Len(a)
        BY <2>a, <3>1
      <4>2. r[i] = a[i]
        BY <2>a, <4>1
      <4>. QED BY <2>a, <2>b, <3>1, <4>1, <4>2
    <3>2. CASE ~(i < k)
      <4>1. i \in Len(a) + 1 .. Len(a) + Len(b) /\ i - Len(a) \in 1..(Len(q) - k) /\ k + (i - Len(a)) = i + 1
        BY <2>4, <2>a, <3>2
      <4>2. r[i] = b[i - Len(a)]
        BY <2>a, <4>1
      <4>. QED BY <2>b, <3>2, <4>1, <4>2
    <3>. QED BY <3>1, <3>2
  <2>6. \A i \in 1..Len(r) : r[i] \in S \ {e}
    <3>1. \A i \in 1..Len(q) : q[i] \in S /\ (q[i] = e => i = k)
      BY <2>1
    <3>. QED BY <2>4, <2>5, <3>1
  <2>7. r \in Seq(S \ {e})
    BY <2>4, <2>6
  <2>8. \A i, j \in 1..Len(r) : r[i] = r[j] => i = j
    <3>. SUFFICES ASSUME NEW i \in 1..Len(r), NEW j \in 1..Len(r), r[i] = r[j] PROVE i = j
      OBVIOUS
    <3>. DEFINE m == IF i < k THEN i ELSE i + 1
                n == IF j < k THEN j ELSE j + 1
    <3>1. m \in 1..Len(q) /\ n \in 1..Len(q)
      BY <2>4
    <3>2. q[m] = q[n]
      BY <2>5
    <3>3. m = n
      <4>. HIDE DEF m, n
      <4>. QED BY <3>1, <3>2
    <3>. QED BY <3>3
  <2>9. ASSUME NEW x \in S \ {e}, NEW i \in 1..Len(q), q[i] = x PROVE \E j \in 1..Len(r) : r[j] = x
    <3>1. i # k
      BY <2>1, <2>9
    <3>2. CASE i < k
      <4>1. i \in 1..Len(r) /\ r[i] = x
        BY <2>4, <2>5, <2>9, <3>2
      <4>. QED BY <4>1
    <3>3. CASE i > k
      <4>1. i - 1 \in 1..Len(r) /\ ~(i - 1 < k) /\ (i - 1) + 1 = i
        BY <2>4, <3>3
      <4>2. r[i - 1] = x
        BY <2>5, <2>9, <4>1
      <4>. QED BY <4>1, <4>2
    <3>. QED BY <3>1, <3>2, <3>3
  <2>. QED BY <2>7, <2>8, <2>9 DEF r, Others
<1>. QED BY <1>1, <1>2

\* Queues stay what they are while the same tasks wait.
LEMMA QueuesStay ==
  ASSUME NEW a, NEW b, NEW q, GateQueues(a, q), \A t \in Tasks : a[t] = "pool" <=> b[t] = "pool"
  PROVE  GateQueues(b, q)
<1>. SUFFICES ASSUME NEW p \in Procs PROVE Waits(b, q[p], p)
  BY DEF GateQueues
<1>1. Waits(a, q[p], p)
  BY DEF GateQueues
<1>2. {t \in Tasks : Home[t] = p /\ a[t] = "pool"} = {t \in Tasks : Home[t] = p /\ b[t] = "pool"}
  OBVIOUS
<1>. QED BY <1>1, <1>2, Zenon DEF Waits

\* Whoever leaves guards takes no lock.
LEMMA LocksStay ==
  ASSUME NEW d \in [Tasks -> Nat], NEW e \in [Tasks -> Nat], GateLocks(d), \A t \in Tasks : e[t] <= d[t]
  PROVE  GateLocks(e)
<1>. SUFFICES ASSUME NEW t \in Tasks, NEW u \in Tasks, NEW i \in 1..e[t], NEW j \in 1..e[u], Path[t][i] = Path[u][j]
              PROVE  t = u /\ i = j
  BY DEF GateLocks
<1>1. i \in 1..d[t] /\ j \in 1..d[u]
  OBVIOUS
<1>. QED BY <1>1 DEF GateLocks

\* A task moves on without the pool: it takes its lock, gives up, leaves or unlocks.
LEMMA GateInside ==
  ASSUME GateInv, NEW t \in Tasks, Gate!Lock(t) \/ Gate!GiveUp(t) \/ Gate!Leave(t) \/ Gate!Release(t)
  PROVE  GateInv'
<1>0. /\ GatePlaces(depth, at) /\ GateQueues(at, queue) /\ GateLoads(depth, at) /\ GateLocks(depth)
      /\ depth \in [Tasks -> Nat] /\ at \in [Tasks -> {"idle", "pool", "lock", "body", "leaving"}]
      /\ depth[t] \in Nat /\ Len(Path[t]) \in Nat
  BY GateFacts DEF GateInv, GatePlaces
<1>1. ASSUME NEW n \in Nat, NEW x \in {"idle", "body", "leaving"}, at[t] # "pool",
             depth' = [depth EXCEPT ![t] = n], at' = [at EXCEPT ![t] = x], queue' = queue,
             n <= Len(Path[t]), x = "idle" => n = 0, x \in {"body", "leaving"} => n >= 1,
             n <= depth[t] + (IF at[t] = "lock" THEN 1 ELSE 0), GateLocks(depth')
      PROVE  GateInv'
  <2>1. GatePlaces(depth', at')
    BY <1>0, <1>1 DEF GatePlaces
  <2>2. \A u \in Tasks : at[u] = "pool" <=> at'[u] = "pool"
    BY <1>0, <1>1
  <2>3. GateQueues(at', queue')
    <3>1. GateQueues(at', queue)
      BY <1>0, <2>2, QueuesStay
    <3>. QED BY <1>1, <3>1, Zenon
  <2>4. \A u \in Tasks : Taken(depth', at')[u] <= Taken(depth, at)[u]
    <3>. SUFFICES ASSUME NEW u \in Tasks PROVE Taken(depth', at')[u] <= Taken(depth, at)[u]
      OBVIOUS
    <3>1. depth[u] \in Nat
      BY <1>0
    <3>2. CASE u = t
      BY <1>0, <1>1, <3>2 DEF Taken
    <3>3. CASE u # t
      BY <1>0, <1>1, <3>1, <3>3 DEF Taken
    <3>. QED BY <3>2, <3>3
  <2>5. GateLoads(depth', at')
    BY <1>0, <2>1, <2>4, LoadsShrink
  <2>. QED BY <1>1, <2>1, <2>3, <2>5 DEF GateInv
<1>2. CASE Gate!Lock(t)
  <2>1. /\ at[t] = "lock" /\ ~Gate!Locked(Path[t][depth[t] + 1])
        /\ depth' = [depth EXCEPT ![t] = depth[t] + 1] /\ at' = [at EXCEPT ![t] = "body"] /\ queue' = queue
    BY <1>2 DEF Gate!Lock, Gate!To
  <2>2. depth[t] < Len(Path[t]) /\ depth[t] + 1 \in Nat /\ depth[t] + 1 <= Len(Path[t])
    BY <1>0, <2>1 DEF GatePlaces
  <2>3. \A u \in Tasks : \A i \in 1..depth[u] : Path[u][i] # Path[t][depth[t] + 1]
    BY <2>1 DEF Gate!Locked
  <2>4. GateLocks(depth')
    <3>. SUFFICES ASSUME NEW u \in Tasks, NEW v \in Tasks, NEW i \in 1..depth'[u], NEW j \in 1..depth'[v],
                         Path[u][i] = Path[v][j]
                  PROVE  u = v /\ i = j
      BY DEF GateLocks
    <3>1. depth[u] \in Nat /\ depth[v] \in Nat
      BY <1>0
    <3>2. i \in 1..depth[u] \/ (u = t /\ i = depth[t] + 1)
      BY <1>0, <2>1, <3>1
    <3>3. j \in 1..depth[v] \/ (v = t /\ j = depth[t] + 1)
      BY <1>0, <2>1, <3>1
    <3>4. CASE i \in 1..depth[u] /\ j \in 1..depth[v]
      BY <1>0, <3>4 DEF GateLocks
    <3>. QED BY <2>3, <3>2, <3>3, <3>4
  <2>5. depth[t] + 1 >= 1 /\ depth[t] + 1 <= depth[t] + (IF at[t] = "lock" THEN 1 ELSE 0)
    BY <1>0, <2>1
  <2>. DEFINE n == depth[t] + 1
  <2>6. n \in Nat /\ n <= Len(Path[t]) /\ n >= 1 /\ n <= depth[t] + (IF at[t] = "lock" THEN 1 ELSE 0)
        /\ depth' = [depth EXCEPT ![t] = n]
    BY <2>1, <2>2, <2>5
  <2>. HIDE DEF n
  <2>. QED BY <1>1, <2>1, <2>4, <2>6
<1>3. CASE Gate!GiveUp(t)
  <2>1. /\ at[t] = "lock" /\ depth' = depth /\ queue' = queue
        /\ at' = [at EXCEPT ![t] = Gate!Unwinding(t)]
    BY <1>3 DEF Gate!GiveUp, Gate!To
  <2>2. depth' = [depth EXCEPT ![t] = depth[t]] /\ GateLocks(depth')
    BY <1>0, <2>1
  <2>3. /\ Gate!Unwinding(t) \in {"idle", "body", "leaving"} /\ (Gate!Unwinding(t) = "idle" => depth[t] = 0)
        /\ (Gate!Unwinding(t) \in {"body", "leaving"} => depth[t] >= 1)
    BY <1>0 DEF Gate!Unwinding
  <2>4. depth[t] <= Len(Path[t]) /\ depth[t] <= depth[t] + (IF at[t] = "lock" THEN 1 ELSE 0)
    BY <1>0, <2>1 DEF GatePlaces
  <2>. QED BY <1>0, <1>1, <2>1, <2>2, <2>3, <2>4
<1>4. CASE Gate!Leave(t)
  <2>1. /\ at[t] = "body" /\ depth' = depth /\ queue' = queue /\ at' = [at EXCEPT ![t] = "leaving"]
    BY <1>4 DEF Gate!Leave, Gate!To
  <2>2. depth' = [depth EXCEPT ![t] = depth[t]] /\ GateLocks(depth')
    BY <1>0, <2>1
  <2>3. depth[t] >= 1 /\ depth[t] <= Len(Path[t]) /\ depth[t] <= depth[t] + (IF at[t] = "lock" THEN 1 ELSE 0)
    BY <1>0, <2>1 DEF GatePlaces
  <2>. QED BY <1>0, <1>1, <2>1, <2>2, <2>3
<1>5. CASE Gate!Release(t)
  <2>. DEFINE x == IF depth[t] = 1 THEN "idle" ELSE "leaving"
  <2>1. /\ at[t] = "leaving" /\ queue' = queue
        /\ depth' = [depth EXCEPT ![t] = depth[t] - 1] /\ at' = [at EXCEPT ![t] = x]
    BY <1>5 DEF Gate!Release, Gate!To
  <2>2. depth[t] >= 1 /\ depth[t] <= Len(Path[t])
    BY <1>0, <2>1 DEF GatePlaces
  <2>3. /\ depth[t] - 1 \in Nat /\ depth[t] - 1 <= Len(Path[t])
        /\ depth[t] - 1 <= depth[t] + (IF at[t] = "lock" THEN 1 ELSE 0)
        /\ x \in {"idle", "body", "leaving"} /\ (x = "idle" => depth[t] - 1 = 0)
        /\ (x \in {"body", "leaving"} => depth[t] - 1 >= 1)
    BY <1>0, <2>2
  <2>4. depth' \in [Tasks -> Nat] /\ \A u \in Tasks : depth'[u] <= depth[u]
    BY <1>0, <2>1, <2>3
  <2>5. GateLocks(depth')
    BY <1>0, <2>4, LocksStay
  <2>. HIDE DEF x
  <2>. QED BY <1>0, <1>1, <2>1, <2>3, <2>5
<1>. QED BY <1>2, <1>3, <1>4, <1>5

\* A queue of a process that the step is not about.
LEMMA OtherQueue ==
  ASSUME NEW a, NEW b, NEW q, NEW p, Waits(a, q, p), NEW t \in Tasks, Home[t] # p,
         \A u \in Tasks \ {t} : b[u] = a[u]
  PROVE  Waits(b, q, p)
<1>1. {u \in Tasks : Home[u] = p /\ a[u] = "pool"} = {u \in Tasks : Home[u] = p /\ b[u] = "pool"}
  OBVIOUS
<1>2. \A u \in Tasks : Home[u] = p /\ b[u] = "pool" => a[u] = "pool"
  OBVIOUS
<1>. QED BY <1>1, <1>2, Zenon DEF Waits

\* A task that asks for a connection stands at the end of its queue, and only there.
LEMMA AskStep ==
  ASSUME GateInv, NEW t \in Tasks, Gate!Ask(t)
  PROVE  GateInv'
<1>. DEFINE h == Home[t]
            q == queue[h]
<1>0. /\ GatePlaces(depth, at) /\ GateQueues(at, queue) /\ GateLoads(depth, at) /\ GateLocks(depth)
      /\ depth \in [Tasks -> Nat] /\ at \in [Tasks -> {"idle", "pool", "lock", "body", "leaving"}]
      /\ DOMAIN queue = Procs /\ h \in Procs /\ Waits(at, q, h)
  BY GateFacts DEF GateInv, GatePlaces, GateQueues
<1>1. /\ at[t] \in {"idle", "body"} /\ depth[t] < Len(Path[t]) /\ depth' = depth
      /\ at' = [at EXCEPT ![t] = "pool"] /\ queue' = [queue EXCEPT ![h] = Append(q, t)]
  BY DEF Gate!Ask, Gate!To
<1>2. GatePlaces(depth', at')
  BY <1>0, <1>1 DEF GatePlaces
<1>3. \A u \in Tasks : Taken(depth', at')[u] <= Taken(depth, at)[u]
  BY <1>0, <1>1 DEF Taken
<1>4. GateLoads(depth', at') /\ GateLocks(depth')
  BY <1>0, <1>1, <1>2, <1>3, LoadsShrink
<1>. DEFINE W == {u \in Tasks : Home[u] = h /\ at[u] = "pool"}
            V == {u \in Tasks : Home[u] = h /\ at'[u] = "pool"}
<1>5. /\ q \in Seq(W) /\ (\A i, j \in 1..Len(q) : q[i] = q[j] => i = j)
      /\ (\A u \in W : \E i \in 1..Len(q) : q[i] = u)
  BY <1>0 DEF Waits
<1>6. t \in V /\ t \notin W /\ V = W \cup {t}
  BY <1>0, <1>1
<1>7. Waits(at', Append(q, t), h)
  <2>. HIDE DEF q, W, V, h
  <2>1. q \in Seq(V)
    BY <1>5, <1>6
  <2>2. Append(q, t) \in Seq(V) /\ Len(Append(q, t)) = Len(q) + 1 /\ Len(q) \in Nat
    BY <1>6, <2>1
  <2>3. \A i \in 1..(Len(q) + 1) : Append(q, t)[i] = IF i <= Len(q) THEN q[i] ELSE t
    BY <2>1
  <2>4. \A i \in 1..Len(q) : q[i] \in W
    BY <1>5
  <2>5. \A i, j \in 1..(Len(q) + 1) : Append(q, t)[i] = Append(q, t)[j] => i = j
    <3>. SUFFICES ASSUME NEW i \in 1..(Len(q) + 1), NEW j \in 1..(Len(q) + 1), Append(q, t)[i] = Append(q, t)[j]
                  PROVE  i = j
      OBVIOUS
    <3>1. CASE i <= Len(q) /\ j <= Len(q)
      <4>1. i \in 1..Len(q) /\ j \in 1..Len(q) /\ q[i] = q[j]
        BY <2>2, <2>3, <3>1
      <4>. QED BY <1>5, <4>1
    <3>2. CASE i <= Len(q) /\ j = Len(q) + 1
      BY <1>6, <2>2, <2>3, <2>4, <3>2
    <3>3. CASE i = Len(q) + 1 /\ j <= Len(q)
      BY <1>6, <2>2, <2>3, <2>4, <3>3
    <3>. QED BY <2>2, <3>1, <3>2, <3>3
  <2>6. ASSUME NEW u \in V PROVE \E i \in 1..(Len(q) + 1) : Append(q, t)[i] = u
    <3>1. CASE u = t
      <4>1. Len(q) + 1 \in 1..(Len(q) + 1) /\ Append(q, t)[Len(q) + 1] = t
        BY <2>2, <2>3
      <4>. QED BY <3>1, <4>1
    <3>2. CASE u # t
      <4>1. PICK i \in 1..Len(q) : q[i] = u
        BY <1>5, <1>6, <3>2
      <4>2. i \in 1..(Len(q) + 1) /\ i <= Len(q)
        BY <2>2
      <4>. QED BY <2>3, <4>1, <4>2
    <3>. QED BY <3>1, <3>2
  <2>. QED BY <2>2, <2>5, <2>6 DEF Waits, V
<1>8. GateQueues(at', queue')
  <2>. SUFFICES ASSUME NEW p \in Procs PROVE Waits(at', queue'[p], p)
    BY <1>0, <1>1 DEF GateQueues
  <2>1. CASE p = h
    BY <1>0, <1>1, <1>7, <2>1
  <2>2. CASE p # h
    <3>1. queue'[p] = queue[p] /\ Waits(at, queue[p], p)
      BY <1>0, <1>1, <2>2 DEF GateQueues
    <3>2. \A u \in Tasks \ {t} : at'[u] = at[u]
      BY <1>0, <1>1
    <3>3. Waits(at', queue[p], p)
      BY <2>2, <3>1, <3>2, OtherQueue
    <3>. QED BY <3>1, <3>3
  <2>. QED BY <2>1, <2>2
<1>. QED BY <1>2, <1>4, <1>8 DEF GateInv

\* The hold of a guard ends while the task waits in a queue, for a lock or in its body.
LEMMA ExpireStep ==
  ASSUME GateInv, NEW t \in Tasks, Gate!Expire(t)
  PROVE  GateInv'
<1>. DEFINE h == Home[t]
            q == queue[h]
            r == Gate!RemoveFirst(q, t)
<1>0. /\ GatePlaces(depth, at) /\ GateQueues(at, queue) /\ GateLoads(depth, at) /\ GateLocks(depth)
      /\ depth \in [Tasks -> Nat] /\ at \in [Tasks -> {"idle", "pool", "lock", "body", "leaving"}]
      /\ DOMAIN queue = Procs /\ h \in Procs /\ Waits(at, q, h)
  BY GateFacts DEF GateInv, GatePlaces, GateQueues
<1>1. /\ at[t] \in {"pool", "lock", "body"} /\ depth' = depth
      /\ at' = [at EXCEPT ![t] = "leaving"] /\ queue' = [queue EXCEPT ![h] = r]
  BY DEF Gate!Expire, Gate!To
<1>. HIDE DEF r
<1>2. depth[t] >= 1
  <2>1. \E i \in 1..depth[t] : TRUE
    BY DEF Gate!Expire, Gate!Bounded
  <2>2. depth[t] \in Nat
    BY <1>0
  <2>. QED BY <2>1, <2>2
<1>3. GatePlaces(depth', at')
  BY <1>0, <1>1, <1>2 DEF GatePlaces
<1>4. \A u \in Tasks : Taken(depth', at')[u] <= Taken(depth, at)[u]
  BY <1>0, <1>1 DEF Taken
<1>5. GateLoads(depth', at') /\ GateLocks(depth')
  BY <1>0, <1>1, <1>3, <1>4, LoadsShrink
<1>. DEFINE W == {u \in Tasks : Home[u] = h /\ at[u] = "pool"}
            V == {u \in Tasks : Home[u] = h /\ at'[u] = "pool"}
<1>6. /\ q \in Seq(W) /\ (\A i, j \in 1..Len(q) : q[i] = q[j] => i = j)
      /\ (\A u \in W : \E i \in 1..Len(q) : q[i] = u)
  BY <1>0 DEF Waits
<1>7. V = W \ {t}
  BY <1>0, <1>1
<1>8. Waits(at', r, h)
  <2>. HIDE DEF q, W, V, h
  <2>1. /\ r \in Seq(W \ {t}) /\ (\A i, j \in 1..Len(r) : r[i] = r[j] => i = j)
        /\ \A u \in W \ {t} : (\E i \in 1..Len(q) : q[i] = u) => \E i \in 1..Len(r) : r[i] = u
    <3>1. Others(W, q, t, r)
      BY <1>6, QueueWithout, Zenon DEF r
    <3>. QED BY <3>1 DEF Others
  <2>. QED BY <1>6, <1>7, <2>1 DEF Waits, V
<1>9. GateQueues(at', queue')
  <2>. SUFFICES ASSUME NEW p \in Procs PROVE Waits(at', queue'[p], p)
    BY <1>0, <1>1 DEF GateQueues
  <2>1. CASE p = h
    BY <1>0, <1>1, <1>8, <2>1
  <2>2. CASE p # h
    <3>1. queue'[p] = queue[p] /\ Waits(at, queue[p], p)
      BY <1>0, <1>1, <2>2 DEF GateQueues
    <3>2. \A u \in Tasks \ {t} : at'[u] = at[u]
      BY <1>0, <1>1
    <3>3. Waits(at', queue[p], p)
      BY <2>2, <3>1, <3>2, OtherQueue
    <3>. QED BY <3>1, <3>3
  <2>. QED BY <2>1, <2>2
<1>. QED BY <1>3, <1>5, <1>9 DEF GateInv

\* One more connection of one task.
LEMMA LoadOneMore ==
  ASSUME NEW S, IsFiniteSet(S), NEW f, NEW g, NEW e \in S, \A x \in S : f[x] \in Nat /\ g[x] \in Nat,
         \A x \in S \ {e} : g[x] = f[x], g[e] = f[e] + 1
  PROVE  SumFunctionOnSet(g, S) = SumFunctionOnSet(f, S) + 1
<1>. DEFINE R == S \ {e}
<1>1. IsFiniteSet(R)
  BY FS_Subset
<1>2. SumFunctionOnSet(f, S) = f[e] + SumFunctionOnSet(f, R) /\ SumFunctionOnSet(g, S) = g[e] + SumFunctionOnSet(g, R)
  BY SumRemove
<1>3. \A x \in R : f[x] \in Nat /\ g[x] = f[x]
  OBVIOUS
<1>. HIDE DEF R
<1>4. SumFunctionOnSet(f, R) = SumFunctionOnSet(g, R) /\ SumFunctionOnSet(f, R) \in Nat
  BY <1>1, <1>3, SumSame, SumNatural
<1>5. PICK u \in Nat : u = SumFunctionOnSet(f, R)
  BY <1>4
<1>6. PICK v \in Nat : v = f[e]
  OBVIOUS
<1>7. SumFunctionOnSet(f, S) = v + u /\ SumFunctionOnSet(g, S) = (v + 1) + u
  BY <1>2, <1>4, <1>5, <1>6
<1>. QED BY <1>7

\* The pool hands a connection to the first in its queue, if it has one left.
LEMMA ConnectStep ==
  ASSUME GateInv, NEW p \in Procs, Gate!Connect(p)
  PROVE  GateInv'
<1>. DEFINE q == queue[p]
            e == Head(q)
            W == {u \in Tasks : Home[u] = p /\ at[u] = "pool"}
            V == {u \in Tasks : Home[u] = p /\ at'[u] = "pool"}
<1>0. /\ GatePlaces(depth, at) /\ GateQueues(at, queue) /\ GateLoads(depth, at) /\ GateLocks(depth)
      /\ depth \in [Tasks -> Nat] /\ at \in [Tasks -> {"idle", "pool", "lock", "body", "leaving"}]
      /\ DOMAIN queue = Procs
  BY DEF GateInv, GatePlaces, GateQueues
<1>1. /\ q # <<>> /\ Gate!Used(p) < GatePool /\ depth' = depth
      /\ at' = [at EXCEPT ![e] = "lock"] /\ queue' = [queue EXCEPT ![p] = Tail(q)]
  BY DEF Gate!Connect, Gate!To
<1>2. /\ q \in Seq(W) /\ (\A i, j \in 1..Len(q) : q[i] = q[j] => i = j)
      /\ (\A u \in W : \E i \in 1..Len(q) : q[i] = u)
  BY <1>0 DEF GateQueues, Waits
<1>3. /\ Len(q) \in Nat /\ Len(q) >= 1 /\ e = q[1] /\ e \in W
      /\ Tail(q) \in Seq(W) /\ Len(Tail(q)) = Len(q) - 1
      /\ \A i \in 1..(Len(q) - 1) : Tail(q)[i] = q[i + 1]
  <2>. HIDE DEF q, W
  <2>. QED BY <1>1, <1>2
<1>4. e \in Tasks /\ Home[e] = p /\ at[e] = "pool"
  BY <1>3
<1>5. V = W \ {e}
  <2>. HIDE DEF e
  <2>. QED BY <1>0, <1>1, <1>4
<1>6. Waits(at', Tail(q), p)
  <2>. DEFINE r == Tail(q)
  <2>. HIDE DEF q, W, V, e, r
  <2>0. r \in Seq(W) /\ Len(r) = Len(q) - 1 /\ \A i \in 1..(Len(q) - 1) : r[i] = q[i + 1]
    BY <1>3 DEF r
  <2>1. \A i \in 1..Len(r) : r[i] \in W \ {e}
    <3>. SUFFICES ASSUME NEW i \in 1..Len(r) PROVE r[i] \in W \ {e}
      OBVIOUS
    <3>1. r[i] \in W /\ i + 1 \in 1..Len(q) /\ 1 \in 1..Len(q) /\ i + 1 # 1 /\ r[i] = q[i + 1]
      BY <1>3, <2>0
    <3>2. r[i] # q[1]
      BY <1>2, <3>1
    <3>. QED BY <1>3, <3>1, <3>2
  <2>2. r \in Seq(W \ {e})
    BY <2>0, <2>1
  <2>3. \A i, j \in 1..Len(r) : r[i] = r[j] => i = j
    <3>. SUFFICES ASSUME NEW i \in 1..Len(r), NEW j \in 1..Len(r), r[i] = r[j] PROVE i = j
      OBVIOUS
    <3>1. i + 1 \in 1..Len(q) /\ j + 1 \in 1..Len(q) /\ q[i + 1] = q[j + 1]
      BY <1>3, <2>0
    <3>2. i + 1 = j + 1
      BY <1>2, <3>1
    <3>. QED BY <3>2
  <2>4. ASSUME NEW u \in W \ {e} PROVE \E i \in 1..Len(r) : r[i] = u
    <3>1. PICK i \in 1..Len(q) : q[i] = u
      BY <1>2
    <3>2. i # 1 /\ i \in Nat
      BY <1>3, <2>4, <3>1
    <3>3. i - 1 \in 1..Len(r) /\ i - 1 \in 1..(Len(q) - 1) /\ (i - 1) + 1 = i
      BY <1>3, <2>0, <3>1, <3>2
    <3>4. r[i - 1] = u
      BY <2>0, <3>1, <3>3
    <3>. QED BY <3>3, <3>4
  <2>. QED BY <1>5, <2>2, <2>3, <2>4 DEF Waits, V, r
<1>. HIDE DEF e
<1>7. GateQueues(at', queue')
  <2>. SUFFICES ASSUME NEW x \in Procs PROVE Waits(at', queue'[x], x)
    BY <1>0, <1>1 DEF GateQueues
  <2>1. CASE x = p
    BY <1>0, <1>1, <1>6, <2>1
  <2>2. CASE x # p
    <3>1. queue'[x] = queue[x] /\ Waits(at, queue[x], x) /\ Home[e] # x
      BY <1>0, <1>1, <1>4, <2>2 DEF GateQueues
    <3>2. \A u \in Tasks \ {e} : at'[u] = at[u]
      BY <1>0, <1>1
    <3>3. Waits(at', queue[x], x)
      BY <1>4, <3>1, <3>2, OtherQueue
    <3>. QED BY <3>1, <3>3
  <2>. QED BY <2>1, <2>2
<1>8. GatePlaces(depth', at')
  BY <1>0, <1>1, <1>4 DEF GatePlaces
<1>9. GateLoads(depth', at')
  <2>. SUFFICES ASSUME NEW x \in Procs PROVE Load(depth', at', x) <= GatePool
    BY DEF GateLoads
  <2>. DEFINE S == {t \in Tasks : Home[t] = x}
              f == Taken(depth, at)
              g == Taken(depth', at')
  <2>1. /\ IsFiniteSet(S) /\ (\A t \in S : f[t] \in Nat /\ g[t] \in Nat)
        /\ Load(depth, at, x) \in Nat /\ Load(depth, at, x) <= GatePool
        /\ Load(depth, at, x) = SumFunctionOnSet(f, S) /\ Load(depth', at', x) = SumFunctionOnSet(g, S)
    BY <1>0, <1>8, TakenTypes DEF GateLoads, Load
  <2>2. (\A t \in Tasks \ {e} : g[t] = f[t]) /\ g[e] = f[e] + 1
    BY <1>0, <1>1, <1>4 DEF Taken
  <2>3. CASE x = p
    <3>1. e \in S /\ \A t \in S \ {e} : g[t] = f[t]
      BY <1>4, <2>2, <2>3
    <3>2. SumFunctionOnSet(g, S) = SumFunctionOnSet(f, S) + 1
      <4>. HIDE DEF S, f, g
      <4>. QED BY <2>1, <2>2, <3>1, LoadOneMore
    <3>3. Load(depth, at, x) < GatePool
      BY <1>1, <2>3, UsedIsLoad
    <3>4. Load(depth', at', x) = Load(depth, at, x) + 1
      BY <2>1, <3>2
    <3>. QED BY <2>1, <3>3, <3>4, GateFacts
  <2>4. CASE x # p
    <3>1. \A t \in S : g[t] = f[t]
      BY <1>4, <2>2, <2>4
    <3>2. SumFunctionOnSet(g, S) = SumFunctionOnSet(f, S)
      <4>. HIDE DEF S, f, g
      <4>. QED BY <2>1, <3>1, SumSame
    <3>. QED BY <2>1, <3>2
  <2>. QED BY <2>3, <2>4
<1>. QED BY <1>0, <1>1, <1>7, <1>8, <1>9 DEF GateInv

\* A process dies: its tasks are gone from guards, locks and the queue.
LEMMA GateCrashStep ==
  ASSUME GateInv, NEW p \in Procs, Gate!Crash(p)
  PROVE  GateInv'
<1>. DEFINE dead == {t \in Tasks : Home[t] = p}
<1>0. /\ GatePlaces(depth, at) /\ GateQueues(at, queue) /\ GateLoads(depth, at) /\ GateLocks(depth)
      /\ depth \in [Tasks -> Nat] /\ at \in [Tasks -> {"idle", "pool", "lock", "body", "leaving"}]
      /\ DOMAIN queue = Procs
  BY DEF GateInv, GatePlaces, GateQueues
<1>1. /\ depth' = [t \in Tasks |-> IF t \in dead THEN 0 ELSE depth[t]]
      /\ at' = [t \in Tasks |-> IF t \in dead THEN "idle" ELSE at[t]]
      /\ queue' = [queue EXCEPT ![p] = <<>>]
  BY DEF Gate!Crash
<1>2. GatePlaces(depth', at')
  BY <1>0, <1>1, GateFacts DEF GatePlaces
<1>3. \A u \in Tasks : Taken(depth', at')[u] <= Taken(depth, at)[u]
  BY <1>0, <1>1 DEF Taken
<1>4. \A u \in Tasks : depth'[u] <= depth[u]
  BY <1>0, <1>1
<1>5. GateLoads(depth', at') /\ GateLocks(depth')
  BY <1>0, <1>2, <1>3, <1>4, LoadsShrink, LocksStay DEF GatePlaces
<1>6. GateQueues(at', queue')
  <2>. SUFFICES ASSUME NEW x \in Procs PROVE Waits(at', queue'[x], x)
    BY <1>0, <1>1 DEF GateQueues
  <2>1. CASE x = p
    <3>1. queue'[x] = <<>> /\ \A t \in Tasks : Home[t] = x => at'[t] # "pool"
      BY <1>0, <1>1, <2>1
    <3>. QED BY <3>1 DEF Waits
  <2>2. CASE x # p
    <3>1. queue'[x] = queue[x] /\ Waits(at, queue[x], x)
      BY <1>0, <1>1, <2>2 DEF GateQueues
    <3>2. {u \in Tasks : Home[u] = x /\ at[u] = "pool"} = {u \in Tasks : Home[u] = x /\ at'[u] = "pool"}
      BY <1>1, <2>2
    <3>3. \A u \in Tasks : Home[u] = x /\ at'[u] = "pool" => at[u] = "pool"
      BY <1>1, <2>2
    <3>. QED BY <3>1, <3>2, <3>3, Zenon DEF Waits
  <2>. QED BY <2>1, <2>2
<1>. QED BY <1>2, <1>5, <1>6 DEF GateInv

\* The invariant is inductive, whichever part moves.
LEMMA GateStep == GateInv /\ [Next]_vars => GateInv'
<1>. SUFFICES ASSUME GateInv, [Next]_vars PROVE GateInv'
  OBVIOUS
<1>1. CASE Gate!Next
  BY <1>1, GateInside, AskStep, ExpireStep, ConnectStep, GateCrashStep DEF Gate!Next
<1>2. CASE UNCHANGED gateVars
  BY <1>2 DEF gateVars, GateInv
<1>. QED BY <1>1, <1>2 DEF Next, GateNext, RecoveryNext, SchemaNext, CampaignNext, vars

\* Two tasks are never inside the same guard, and none takes its own lock twice: the
\* nested guards exclude, whatever times out, expires or dies in between.
GuardsExclude ==
  \A t, u \in Tasks : \A i \in 1..depth[t], j \in 1..depth[u] : Path[t][i] = Path[u][j] => t = u /\ i = j

\* Whoever waits for a connection stands in the queue of its pool, once, so that no
\* waiter is forgotten and none is served twice.
WaitersAreQueued ==
  \A t \in Tasks : at[t] = "pool" =>
    \E i \in 1..Len(queue[Home[t]]) :
      /\ queue[Home[t]][i] = t
      /\ \A j \in 1..Len(queue[Home[t]]) : queue[Home[t]][j] = t => j = i

\* The invariant of the guards holds in every behaviour.
THEOREM GateInvariant == Spec => []GateInv
<1>1. Init => GateInv
  BY GateInit DEF Init
<1>. QED BY GateStep, <1>1, PTL DEF Spec

\* For every set of tasks, paths and pools, with locks given up, holds that expire and
\* processes that die: guards exclude, and a pool forgets no waiter.
THEOREM GuardsAreExclusive == Spec => [](GuardsExclude /\ WaitersAreQueued)
<1>1. ASSUME GateInv PROVE GuardsExclude
  BY <1>1 DEF GateInv, GateLocks, GuardsExclude
<1>2. ASSUME GateInv PROVE WaitersAreQueued
  <2>. SUFFICES ASSUME NEW t \in Tasks, at[t] = "pool"
                PROVE  \E i \in 1..Len(queue[Home[t]]) :
                         /\ queue[Home[t]][i] = t
                         /\ \A j \in 1..Len(queue[Home[t]]) : queue[Home[t]][j] = t => j = i
    BY DEF WaitersAreQueued
  <2>1. Waits(at, queue[Home[t]], Home[t])
    BY <1>2, GateFacts DEF GateInv, GateQueues
  <2>. QED BY <2>1 DEF Waits
<1>. QED BY <1>1, <1>2, GateInvariant, PTL

\* The types of the guards, the bound of the pools included, follow from GateInv.
LEMMA GateTypes == GateInv => Gate!TypeOK
<1>. SUFFICES ASSUME GateInv PROVE Gate!TypeOK
  OBVIOUS
<1>1. /\ depth \in [Tasks -> Nat] /\ (\A t \in Tasks : depth[t] <= Len(Path[t]))
      /\ at \in [Tasks -> {"idle", "pool", "lock", "body", "leaving"}]
      /\ \A t \in Tasks : at[t] = "idle" => depth[t] = 0
  BY DEF GateInv, GatePlaces
<1>2. ASSUME NEW p \in Procs
      PROVE  Gate!Used(p) <= GatePool /\ queue[p] \in Seq({t \in Tasks : Home[t] = p /\ at[t] = "pool"})
  <2>1. Load(depth, at, p) <= GatePool /\ Waits(at, queue[p], p)
    BY DEF GateInv, GateLoads, GateQueues
  <2>2. Gate!Used(p) = Load(depth, at, p)
    BY UsedIsLoad
  <2>. QED BY <2>1, <2>2 DEF Waits
<1>. QED BY <1>1, <1>2 DEF Gate!TypeOK

-----------------------------------------------------------------------------
(***************************************************************************)
(* ResearchCampaign.  A window's rows appear behind its claim: attempts,   *)
(* costs and outcomes look for it, and completions find a START.           *)
(***************************************************************************)
\* What the assumption on the constants says of arms and kinds of rows.
LEMMA CampaignFacts ==
  /\ MaxTick \in Nat /\ Sources \cap Campaign!Kinds = {}
  /\ Campaign!Called \subseteq Arms
  BY CoordinationConstants DEF Campaign!CampaignConstants, Campaign!Called

\* A row that is stored for a claimed window, or as an input.
LEMMA StoredTypes ==
  ASSUME Campaign!TypeOK, NEW w \in Windows, NEW a \in Arms \cup {"all"}, NEW k, NEW payload, NEW later \in 0..1,
         Campaign!Store(w, a, k, payload, later), k \notin Sources => w \in claim,
         UNCHANGED <<plan, claim, seal, calls>>, mine' \subseteq Windows \X Campaign!Called
  PROVE  Campaign!TypeOK'
<1>. DEFINE s == <<w, a, k>>
<1>0. /\ now \in 0..MaxTick /\ plan \in BOOLEAN /\ claim \subseteq Windows
      /\ \A x \in DOMAIN rows : /\ x[1] \in Windows /\ x[2] \in Arms \cup {"all"}
                                /\ (x[3] \notin Sources => x[1] \in claim)
      /\ Campaign!Cardinality(seal) <= 1 /\ calls \in [Windows \X Campaign!Called -> 0..2]
  BY DEF Campaign!TypeOK
<1>1. DOMAIN rows' = DOMAIN rows \cup {s} /\ now' = now + later /\ now + later <= MaxTick
  BY DEF Campaign!Store
<1>2. now' \in 0..MaxTick
  BY <1>0, <1>1, CampaignFacts
<1>3. s[1] = w /\ s[2] = a /\ s[3] = k
  OBVIOUS
<1>. HIDE DEF s
<1>4. \A x \in DOMAIN rows' : /\ x[1] \in Windows /\ x[2] \in Arms \cup {"all"}
                              /\ (x[3] \notin Sources => x[1] \in claim')
  BY <1>0, <1>1, <1>3
<1>. QED BY <1>0, <1>2, <1>4 DEF Campaign!TypeOK

\* A row that is no input belongs to a claimed window.
LEMMA HasClaim ==
  ASSUME Campaign!TypeOK, NEW w, NEW a, NEW k \in Campaign!Kinds, Campaign!Has(w, a, k)
  PROVE  w \in claim
<1>1. <<w, a, k>> \in DOMAIN rows /\ k \notin Sources
  BY CampaignFacts DEF Campaign!Has
<1>. QED BY <1>1 DEF Campaign!TypeOK

\* The operations that store a row.
StoresRow ==
  \E w \in Windows :
    \/ \E s \in Sources, fresh \in BOOLEAN : Campaign!CaptureSource(w, s, fresh)
    \/ Campaign!FreezeBundle(w)
    \/ \E a \in Arms : Campaign!RecordOutcome(w, a)
    \/ \E later \in 0..1 :
         \/ \E intent \in BOOLEAN : Campaign!RecordEvaluation(w, intent, later)
         \/ "llm-proposal-research" \in Arms /\ Campaign!RecordCausalPair(w, later)
         \/ /\ "strategy-review" \in Arms
            /\ \E s \in Campaign!Actions, obs \in 0..Campaign!Clock(MaxTick) : Campaign!RecordReview(w, s, obs, later)
         \/ \E a \in Campaign!Called, s \in {"COMPLETED", "FAILED", "UNRESOLVED"}, obs \in 0..Campaign!Clock(MaxTick) :
              Campaign!FinishAttempt(w, a, s, obs, later)
    \/ \E a \in Campaign!Called :
         \/ \E start \in 0..Campaign!Clock(MaxTick) : Campaign!StartAttempt(w, a, start)
         \/ \E stage \in Campaign!Stages, n \in Amounts : Campaign!RecordCost(w, a, stage, n)

\* Each of them finds the claim of its window.
LEMMA StoreTypes ==
  ASSUME Campaign!TypeOK, StoresRow
  PROVE  Campaign!TypeOK'
<1>. USE CampaignFacts
<1>0. PICK w \in Windows :
    \/ \E s \in Sources, fresh \in BOOLEAN : Campaign!CaptureSource(w, s, fresh)
    \/ Campaign!FreezeBundle(w)
    \/ \E a \in Arms : Campaign!RecordOutcome(w, a)
    \/ \E later \in 0..1 :
         \/ \E intent \in BOOLEAN : Campaign!RecordEvaluation(w, intent, later)
         \/ "llm-proposal-research" \in Arms /\ Campaign!RecordCausalPair(w, later)
         \/ /\ "strategy-review" \in Arms
            /\ \E s \in Campaign!Actions, obs \in 0..Campaign!Clock(MaxTick) : Campaign!RecordReview(w, s, obs, later)
         \/ \E a \in Campaign!Called, s \in {"COMPLETED", "FAILED", "UNRESOLVED"}, obs \in 0..Campaign!Clock(MaxTick) :
              Campaign!FinishAttempt(w, a, s, obs, later)
    \/ \E a \in Campaign!Called :
         \/ \E start \in 0..Campaign!Clock(MaxTick) : Campaign!StartAttempt(w, a, start)
         \/ \E stage \in Campaign!Stages, n \in Amounts : Campaign!RecordCost(w, a, stage, n)
  BY Zenon DEF StoresRow
<1>m. mine \subseteq Windows \X Campaign!Called
  BY DEF Campaign!TypeOK
<1>z. 0 \in 0..1
  OBVIOUS
<1>k. "start" \in Campaign!Kinds /\ "evaluation" \in Campaign!Kinds
  BY DEF Campaign!Kinds
<1>1. ASSUME NEW s \in Sources, NEW fresh \in BOOLEAN, Campaign!CaptureSource(w, s, fresh) PROVE Campaign!TypeOK'
  <2>1. /\ Campaign!Store(w, "all", s, [fresh |-> fresh, seen |-> Campaign!Clock(now), tick |-> now], 0)
        /\ UNCHANGED <<plan, claim, seal, mine, calls>>
    BY <1>1 DEF Campaign!CaptureSource
  <2>. QED BY <1>m, <1>z, <2>1, StoredTypes
<1>2. ASSUME Campaign!FreezeBundle(w) PROVE Campaign!TypeOK'
  <2>1. Campaign!Store(w, "all", "bundle", TRUE, 0) /\ w \in claim /\ UNCHANGED <<plan, claim, seal, mine, calls>>
    BY <1>2 DEF Campaign!FreezeBundle
  <2>. QED BY <1>m, <1>z, <2>1, StoredTypes
<1>3. ASSUME NEW a \in Arms, Campaign!RecordOutcome(w, a) PROVE Campaign!TypeOK'
  <2>1. /\ w \in claim /\ UNCHANGED <<plan, claim, seal, mine, calls>>
        /\ \E x : Campaign!Store(w, a, "outcome", x, 0)
    BY <1>3 DEF Campaign!RecordOutcome
  <2>. QED BY <1>m, <1>z, <2>1, StoredTypes
<1>4. ASSUME NEW later \in 0..1, NEW intent \in BOOLEAN, Campaign!RecordEvaluation(w, intent, later) PROVE Campaign!TypeOK'
  <2>1. /\ w \in claim /\ UNCHANGED <<plan, claim, seal, mine, calls>>
        /\ \E x : Campaign!Store(w, "all", "evaluation", x, later)
    BY <1>4 DEF Campaign!RecordEvaluation
  <2>. QED BY <1>m, <2>1, StoredTypes
<1>5. ASSUME NEW later \in 0..1, "llm-proposal-research" \in Arms, Campaign!RecordCausalPair(w, later) PROVE Campaign!TypeOK'
  <2>1. /\ Campaign!Has(w, "all", "evaluation") /\ UNCHANGED <<plan, claim, seal, mine, calls>>
        /\ \E x : Campaign!Store(w, "llm-proposal-research", "sample", x, later)
    BY <1>5 DEF Campaign!RecordCausalPair
  <2>2. w \in claim
    BY <1>k, <2>1, HasClaim
  <2>. QED BY <1>5, <1>m, <2>1, <2>2, StoredTypes
<1>6. ASSUME NEW later \in 0..1, "strategy-review" \in Arms, NEW s, NEW obs, Campaign!RecordReview(w, s, obs, later)
      PROVE  Campaign!TypeOK'
  <2>1. /\ Campaign!Has(w, "all", "evaluation") /\ UNCHANGED <<plan, claim, seal, mine, calls>>
        /\ \E x : Campaign!Store(w, "strategy-review", "review", x, later)
    BY <1>6 DEF Campaign!RecordReview
  <2>2. w \in claim
    BY <1>k, <2>1, HasClaim
  <2>. QED BY <1>6, <1>m, <2>1, <2>2, StoredTypes
<1>7. ASSUME NEW later \in 0..1, NEW a \in Campaign!Called, NEW s, NEW obs, Campaign!FinishAttempt(w, a, s, obs, later)
      PROVE  Campaign!TypeOK'
  <2>1. /\ Campaign!Has(w, a, "start") /\ UNCHANGED <<plan, claim, seal, mine, calls>>
        /\ \E x : Campaign!Store(w, a, "terminal", x, later)
    BY <1>7 DEF Campaign!FinishAttempt, Campaign!ResponseClock
  <2>2. w \in claim /\ a \in Arms
    BY <1>k, <2>1, HasClaim
  <2>. QED BY <1>m, <2>1, <2>2, StoredTypes
<1>8. ASSUME NEW a \in Campaign!Called, NEW start, Campaign!StartAttempt(w, a, start) PROVE Campaign!TypeOK'
  <2>1. /\ w \in claim /\ UNCHANGED <<plan, claim, seal, calls>>
        /\ Campaign!Store(w, a, "start", start, 0) /\ mine' \in {mine, mine \cup {<<w, a>>}}
    BY <1>8 DEF Campaign!StartAttempt
  <2>2. mine' \subseteq Windows \X Campaign!Called /\ a \in Arms
    BY <1>m, <2>1
  <2>. QED BY <1>z, <2>1, <2>2, StoredTypes
<1>9. ASSUME NEW a \in Campaign!Called, NEW stage, NEW n, Campaign!RecordCost(w, a, stage, n) PROVE Campaign!TypeOK'
  <2>1. /\ w \in claim /\ UNCHANGED <<plan, claim, seal, mine, calls>>
        /\ Campaign!Store(w, a, stage, n, 0) /\ a \in Arms
    BY <1>9 DEF Campaign!RecordCost
  <2>. QED BY <1>m, <1>z, <2>1, StoredTypes
<1>. QED BY <1>0, <1>1, <1>2, <1>3, <1>4, <1>5, <1>6, <1>7, <1>8, <1>9, Zenon

\* Every step keeps the types of the campaign's rows.
LEMMA CampaignStep == Campaign!TypeOK /\ [Next]_vars => Campaign!TypeOK'
<1>. SUFFICES ASSUME Campaign!TypeOK, [Next]_vars PROVE Campaign!TypeOK'
  OBVIOUS
<1>0. /\ now \in 0..MaxTick /\ plan \in BOOLEAN /\ claim \subseteq Windows /\ MaxTick \in Nat
      /\ \A x \in DOMAIN rows : /\ x[1] \in Windows /\ x[2] \in Arms \cup {"all"}
                                /\ (x[3] \notin Sources => x[1] \in claim)
      /\ Campaign!Cardinality(seal) <= 1 /\ mine \subseteq Windows \X Campaign!Called
      /\ calls \in [Windows \X Campaign!Called -> 0..2]
  BY CampaignFacts DEF Campaign!TypeOK
<1>1. ASSUME rows' = rows, now' \in 0..MaxTick, plan' \in BOOLEAN, claim' \subseteq Windows, claim \subseteq claim',
             Campaign!Cardinality(seal') <= 1, mine' \subseteq mine, calls' \in [Windows \X Campaign!Called -> 0..2]
      PROVE  Campaign!TypeOK'
  BY <1>0, <1>1 DEF Campaign!TypeOK
<1>2. CASE Campaign!Tick
  BY <1>0, <1>1, <1>2 DEF Campaign!Tick
<1>3. CASE Campaign!Register
  BY <1>0, <1>1, <1>3 DEF Campaign!Register
<1>4. CASE Campaign!ClaimNext
  <2>1. (\E w \in Windows : claim' = claim \cup {w}) /\ UNCHANGED <<now, plan, rows, seal, mine, calls>>
    BY <1>4 DEF Campaign!ClaimNext
  <2>. QED BY <1>0, <1>1, <2>1
<1>5. CASE Campaign!Crash
  BY <1>0, <1>1, <1>5 DEF Campaign!Crash
<1>6. CASE Campaign!SealDenominator
  <2>1. UNCHANGED <<now, plan, claim, rows, mine, calls>> /\ \E d : seal' = {d}
    BY <1>6 DEF Campaign!SealDenominator
  <2>2. Campaign!Cardinality(seal') <= 1
    <3>1. PICK d : seal' = {d}
      BY <2>1
    <3>2. Cardinality({d}) = 1
      BY FS_Singleton
    <3>3. Campaign!Cardinality({d}) = Cardinality({d})
      BY Zenon DEF Campaign!Cardinality, Cardinality
    <3>. QED BY <3>1, <3>2, <3>3
  <2>. QED BY <1>0, <1>1, <2>1, <2>2
<1>7. ASSUME NEW x \in mine, Campaign!Dispatch(x) PROVE Campaign!TypeOK'
  <2>1. /\ UNCHANGED <<now, plan, claim, rows, seal>> /\ mine' = mine \ {x}
        /\ calls' = [calls EXCEPT ![x] = IF @ < 2 THEN @ + 1 ELSE @]
    BY <1>7 DEF Campaign!Dispatch
  <2>2. x \in Windows \X Campaign!Called /\ calls[x] \in 0..2
    BY <1>0
  <2>3. calls' \in [Windows \X Campaign!Called -> 0..2]
    BY <1>0, <2>1, <2>2
  <2>. QED BY <1>0, <1>1, <2>1, <2>3
<1>8. CASE StoresRow
  BY <1>8, StoreTypes
<1>9. CASE UNCHANGED campaignVars
  BY <1>0, <1>1, <1>9 DEF campaignVars
<1>10. CASE Campaign!Next
  BY <1>2, <1>3, <1>4, <1>5, <1>6, <1>7, <1>8, <1>10, Zenon DEF Campaign!Next, StoresRow
<1>. QED BY <1>9, <1>10 DEF Next, GateNext, RecoveryNext, SchemaNext, CampaignNext, vars

\* A campaign starts without rows.
LEMMA CampaignInit == Campaign!Init => Campaign!TypeOK
<1>. SUFFICES ASSUME Campaign!Init PROVE Campaign!TypeOK
  OBVIOUS
<1>1. Campaign!Cardinality({}) = Cardinality({}) /\ Cardinality({}) = 0
  <2>1. Campaign!Cardinality({}) = Cardinality({})
    BY Zenon DEF Campaign!Cardinality, Cardinality
  <2>. QED BY <2>1, FS_EmptySet
<1>2. DOMAIN rows = {} /\ now \in 0..MaxTick /\ plan \in BOOLEAN
  <2>1. rows = <<>> /\ now = 0 /\ plan = FALSE
    BY DEF Campaign!Init
  <2>2. DOMAIN rows = {}
    BY <2>1
  <2>3. now \in 0..MaxTick
    BY <2>1, CampaignFacts
  <2>4. plan \in BOOLEAN
    BY <2>1, Zenon
  <2>. QED BY <2>2, <2>3, <2>4, Zenon
<1>3. calls \in [Windows \X Campaign!Called -> 0..2]
  <2>. DEFINE D == Windows \X Campaign!Called
  <2>1. calls = [x \in D |-> 0]
    BY DEF Campaign!Init
  <2>. HIDE DEF D
  <2>2. calls \in [D -> 0..2]
    BY <2>1
  <2>. QED BY <2>2 DEF D
<1>4. claim = {} /\ seal = {} /\ mine = {}
  BY DEF Campaign!Init
<1>5. Campaign!Cardinality(seal) <= 1
  BY <1>1, <1>4
<1>. QED BY <1>2, <1>3, <1>4, <1>5 DEF Campaign!TypeOK

-----------------------------------------------------------------------------
\* Guards, accounts, schema and campaign keep their types, and no pool hands out more
\* connections than it has, for every set of tasks, executors, services and windows.
THEOREM CoordinationTypes == Spec => []TypeOK
<1>1. Init => GateInv /\ RecoveryInv /\ SchemaInv /\ Campaign!TypeOK
  BY GateInit, RecoveryInit, SchemaInit, CampaignInit DEF Init
<1>2. GateInv /\ RecoveryInv /\ SchemaInv /\ Campaign!TypeOK => TypeOK
  BY GateTypes DEF RecoveryInv, SchemaInv, TypeOK
<1>. QED BY GateStep, RecoveryStep, SchemaStep, CampaignStep, <1>1, <1>2, PTL DEF Spec

=============================================================================
