----------------------------- MODULE Coordination -----------------------------
(***************************************************************************)
(* EntryGate, AccountRecovery, SchemaGuard and ResearchCampaign side by     *)
(* side: processes that wait for locks or for each other.  The parts share  *)
(* no row.  A behaviour is one of a single part, which Init chooses, and    *)
(* leaves the rows of the others as they were.                              *)
(***************************************************************************)
EXTENDS Naturals, Sequences, FiniteSets, TLC

CONSTANTS
  Procs, Tasks, Home, Path, GatePool,                      \* of EntryGate
  Executors, MaxFaults,                                    \* of AccountRecovery
  Migrations, Services, Manifest, Histories,               \* of SchemaGuard
  Writers, Expected, Producers, ProducerOf, WriterPool,
  Windows, CutOff, PairBy, Sources, Arms, Skew, Amounts, MaxTick, \* of ResearchCampaign
  None

VARIABLES part,
          depth, at, queue,
          barrier, executor, account, reconciled, faults,
          applied, guard, lease, service, work, writer, appends,
          now, plan, claim, rows, seal, mine, calls

gateVars == <<depth, at, queue>>
recoveryVars == <<barrier, executor, account, reconciled, faults>>
schemaVars == <<applied, guard, lease, service, work, writer, appends>>
campaignVars == <<now, plan, claim, rows, seal, mine, calls>>
vars == <<part, gateVars, recoveryVars, schemaVars, campaignVars>>

-----------------------------------------------------------------------------
Gate == INSTANCE EntryGate WITH PoolMax <- GatePool
Recovery == INSTANCE AccountRecovery WITH NoOne <- None, lock <- account
Schema == INSTANCE SchemaGuard WITH PoolMax <- WriterPool
Campaign == INSTANCE ResearchCampaign

ASSUME CoordinationConstants ==
  /\ Gate!GateConstants /\ Recovery!RecoveryConstants /\ Schema!SchemaConstants
  /\ Campaign!CampaignConstants

-----------------------------------------------------------------------------
Init ==
  /\ part \in {"gate", "recovery", "schema", "campaign"}
  /\ Gate!Init /\ Recovery!Init /\ Schema!Init /\ Campaign!Init
  /\ part # "schema" => applied = {}

GateNext == part = "gate" /\ Gate!Next /\ UNCHANGED <<part, recoveryVars, schemaVars, campaignVars>>
RecoveryNext == part = "recovery" /\ Recovery!Next /\ UNCHANGED <<part, gateVars, schemaVars, campaignVars>>
SchemaNext == part = "schema" /\ Schema!Next /\ UNCHANGED <<part, gateVars, recoveryVars, campaignVars>>
CampaignNext == part = "campaign" /\ Campaign!Next /\ UNCHANGED <<part, gateVars, recoveryVars, schemaVars>>

Next == GateNext \/ RecoveryNext \/ SchemaNext \/ CampaignNext

Spec == Init /\ [][Next]_vars

\* Statements end, timers fire, the event loop serves the pool's queue, executors
\* keep running, PostgreSQL grants a lock in turn, time passes, and a process claims
\* the windows that are due, accounts for what is pending and seals.  The guards with
\* part say that the parts that do not run owe nothing.
FairSpec ==
  /\ Spec
  /\ \A t \in Tasks :
       /\ WF_gateVars(at[t] = "body" /\ (Gate!Ask(t) \/ Gate!Leave(t)))
       /\ WF_gateVars(Gate!Lock(t) \/ Gate!GiveUp(t))
       /\ WF_gateVars(Gate!Expire(t)) /\ WF_gateVars(Gate!Release(t))
  /\ \A p \in Procs : WF_gateVars(Gate!Connect(p))
  /\ \A e \in Executors :
       /\ WF_recoveryVars(part = "recovery" /\ Recovery!Step(e))
       /\ SF_recoveryVars(part = "recovery" /\ Recovery!AccountLock(e))
  /\ WF_campaignVars(part = "campaign" /\ Campaign!Tick)
  /\ WF_campaignVars(Campaign!ClaimNext) /\ WF_campaignVars(Campaign!SealDenominator)
  /\ \A w \in Windows, a \in Arms : WF_campaignVars(Campaign!RecordOutcome(w, a))

-----------------------------------------------------------------------------
\* Rows, tasks, locks and queues of every part have their types.
TypeOK == Gate!TypeOK /\ Recovery!TypeOK /\ Schema!TypeOK /\ Campaign!TypeOK

\* Only the executor that raised the barrier last lifts it, after reconciling.
BarrierHolds == Recovery!BarrierHolds

\* Migrations and offline writers exclude each other and leave whole histories.
SchemaIsGuarded == Schema!SchemaIsGuarded

\* Whoever asks for a guard gets through or out again, with a bounded pool and
\* processes that die; and once faults end an account admits entries again.
NobodyIsStuck ==
  /\ Gate!EveryoneLeaves
  /\ part = "recovery" => Recovery!EventuallyAdmitted

\* A registered campaign is sealed in the end, whatever its processes left undone.
CampaignIsSealed == Campaign!CampaignIsSealed
=============================================================================
