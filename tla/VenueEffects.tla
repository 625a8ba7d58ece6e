----------------------------- MODULE VenueEffects -----------------------------
(***************************************************************************)
(* MutationBudget, ExecutionJournal, CanarySession and ReadonlyEvidence    *)
(* side by side: what stands between a decision and an order at the venue. *)
(* They share no row.  A behaviour is one of a single part, which          *)
(* PartsInit chooses, and leaves the rows of the others as they were; each *)
(* plan of canary sessions is a part of its own.                           *)
(***************************************************************************)
EXTENDS MutationBudget, Sequences, TLC

CONSTANTS
  EffectKeys, Senders, KeyOf, ContentOf, Answers, RecoveryDelay, CallBound,   \* of ExecutionJournal
  JournalTime, MaxFaults,
  Plans,                                         \* the constants of CanarySession for each part
  Symbols, Metrics, Observations, Window, Period, Slack, MinShare, Quantile, Ttl, \* of ReadonlyEvidence
  EvidenceEffects, EvidenceTime

VARIABLES part,
          effect, journal, sender, venue, flying, rec, held, faults,
          session, arm, attempt, decisions, trade, order, claimed, caller, dispatch, sent,
          run, samples, receipt, open, effects, armed

budgetVars == <<config, rows, lock, task>>
journalVars == <<effect, journal, sender, venue, flying, rec, held, faults>>
canaryVars == <<session, arm, attempt, decisions, trade, order, claimed, caller, dispatch, sent>>
evidenceVars == <<run, samples, receipt, open, effects, armed>>
partsVars == <<part, now, budgetVars, journalVars, canaryVars, evidenceVars>>

-----------------------------------------------------------------------------
Journal == INSTANCE ExecutionJournal WITH
  Effects <- EffectKeys, Recoverers <- Tasks, MaxTime <- JournalTime, task <- sender, lock <- held

Canary(p) == INSTANCE CanarySession WITH
  Sessions <- Plans[p].sessions, ReceiptOf <- Plans[p].receiptOf, Duration <- Plans[p].duration,
  MaxAttempts <- Plans[p].maxAttempts, Reviews <- Plans[p].reviews, SlotOf <- Plans[p].slotOf,
  Expiry <- Plans[p].expiry, Slots <- Plans[p].slots, MaxHold <- Plans[p].maxHold,
  Disconnects <- Plans[p].disconnects, Redecides <- Plans[p].redecides, MaxTime <- Plans[p].maxTime,
  NoOne <- None, effect <- order, task <- caller, lock <- dispatch

Evidence == INSTANCE ReadonlyEvidence WITH
  Contents <- Observations, MaxEffects <- EvidenceEffects, MaxTime <- EvidenceTime

CanaryParts == DOMAIN Plans

ASSUME EffectConstants ==
  /\ Journal!JournalConstants /\ Evidence!EvidenceConstants
  /\ CanaryParts # {} /\ \A p \in CanaryParts : Canary(p)!CanaryConstants
  /\ CanaryParts \cap {"budget", "journal", "evidence"} = {}

-----------------------------------------------------------------------------
\* A behaviour of another part starts with the empty tables of the canary too.
Planned == IF part \in CanaryParts THEN part ELSE CHOOSE p \in CanaryParts : TRUE

PartsInit ==
  /\ part \in CanaryParts \cup {"budget", "journal", "evidence"}
  /\ Init /\ Journal!Init /\ Evidence!Init
  /\ \E p \in CanaryParts : p = Planned /\ Canary(p)!Init

BudgetNext == part = "budget" /\ Next /\ UNCHANGED <<part, journalVars, canaryVars, evidenceVars>>
JournalNext == part = "journal" /\ Journal!Next /\ UNCHANGED <<part, budgetVars, canaryVars, evidenceVars>>
CanaryNext ==
  /\ \E p \in CanaryParts : part = p /\ Canary(p)!Next
  /\ UNCHANGED <<part, budgetVars, journalVars, evidenceVars>>
EvidenceNext == part = "evidence" /\ Evidence!Next /\ UNCHANGED <<part, budgetVars, journalVars, canaryVars>>

PartsNext == BudgetNext \/ JournalNext \/ CanaryNext \/ EvidenceNext

PartsSpec == PartsInit /\ [][PartsNext]_partsVars

-----------------------------------------------------------------------------
\* The rows of every part have their types, CHECK constraints included.
PartsTypeOK ==
  /\ part = "budget" => TypeOK
  /\ part = "journal" => Journal!TypeOK
  /\ \A p \in CanaryParts : part = p => Canary(p)!TypeOK
  /\ part = "evidence" => Evidence!TypeOK

\* The venue gets at most one order for an effect, however often prepare is
\* repeated and whoever uses its key.
OneOrderPerEffect == Journal!OneOrderPerEffect

\* What recovery writes about an effect is true and stays true.
JournalIsTrue == part = "journal" => Journal!JournalIsTrue

\* One canary order at most is out of control, and no review is sent twice.
OneLiveEntry == \A p \in CanaryParts : part = p => Canary(p)!OneLiveEntry

\* Slots are charged in order, and a session that ended leaves nothing open.
SessionIsAccounted == \A p \in CanaryParts : part = p => Canary(p)!SessionIsAccounted

\* While no connection is lost, stop waits for the call in progress, and no order
\* leaves after it.
StopFencesSends ==
  [][\A p \in CanaryParts : part = p /\ ~Plans[p].disconnects => Canary(p)!SendIsFenced]_partsVars

\* A session is armed on a receipt that states what the window showed.
ArmedOnEvidence == part = "evidence" => Evidence!ArmedOnEvidence
=============================================================================
