--------------------------- MODULE ReadonlyEvidence ---------------------------
(***************************************************************************)
(* Read-only evidence for canary sessions: the runs, samples and receipts  *)
(* of canary_session.py.  A recorder appends samples of the venue's books; *)
(* certify_readonly derives a receipt from the rows; arm_session verifies  *)
(* them again before it uses the receipt.  Executors prepare effects at    *)
(* the same time: an effect carries the time its transaction began and     *)
(* becomes visible when it commits.                                        *)
(*                                                                         *)
(* The hash chain makes stored rows immutable; here the sequence itself is *)
(* the chain.  An observation says which symbols were available, which     *)
(* metrics of those were over 25 bps, and whether gaps, drift, mutations   *)
(* and old books were absent.                                              *)
(***************************************************************************)
EXTENDS Integers, FiniteSets, Sequences, FiniteSetsExt, Functions

CONSTANTS
  Symbols,    \* the symbols every observation covers
  Metrics,    \* basis, spread and slippage
  Contents,   \* observations a recorder may make, without their time
  Window,     \* READONLY_DURATION_MS
  Period,     \* sample_period_ms of the run
  Slack,      \* the 2_000 ms between the clocks
  MinShare,   \* availability asked for, in percent
  Quantile,   \* the 95 of p95
  Ttl,        \* receipt_max_age_ms
  MaxEffects, \* bound on effects
  MaxTime,    \* bound on the database clock
  None        \* SQL NULL

EvidenceConstants ==
  /\ Contents \subseteq [available : SUBSET Symbols, wide : SUBSET (Symbols \X Metrics), clean : BOOLEAN]
  /\ \A c \in Contents : c.wide \subseteq c.available \X Metrics
  /\ Slack \in Nat /\ Period \in Nat /\ Period > 2 * Slack
  /\ Window \in Nat \ {0} /\ Ttl \in Nat /\ MaxTime \in Nat /\ MaxEffects \in Nat
  /\ MinShare \in 0..100 /\ Quantile \in 1..100
  /\ None \notin Nat

VARIABLES
  now,      \* clock_timestamp()
  run,      \* state of the row of paper_readonly_runs; it started at time 0
  samples,  \* rows of paper_readonly_samples in the order of seq
  receipt,  \* ended_at of the row of paper_readonly_receipts, or None
  open,     \* prepared_at of an effect whose transaction is open, or None
  effects,  \* execution_effects: when each began and when it committed
  armed     \* when the receipt armed its session, or None

vars == <<now, run, samples, receipt, open, effects, armed>>

Times == 0..MaxTime
Samples == [received : Times, observed : (0 - Slack)..(MaxTime + Slack), content : Contents]

\* Samples keep the cadence; a receipt and only a receipt seals the run.
TypeOK ==
  /\ now \in Times /\ run \in {"RECORDING", "CERTIFIED"}
  /\ samples \in Seq(Samples)
  /\ \A i \in 2..Len(samples) : samples[i].received - samples[i - 1].received >= Period - Slack
  /\ receipt \in Times \cup {None} /\ (receipt # None <=> run = "CERTIFIED")
  /\ open \in Times \cup {None} /\ armed \in Times \cup {None}
  /\ effects \subseteq [began : Times, committed : Times]

Init ==
  /\ now = 0 /\ run = "RECORDING" /\ samples = <<>> /\ receipt = None
  /\ open = None /\ effects = {} /\ armed = None

Tick ==
  /\ now < MaxTime
  /\ now' = now + 1
  /\ UNCHANGED <<run, samples, receipt, open, effects, armed>>

-----------------------------------------------------------------------------
Last == samples[Len(samples)]

\* append_observation of an observation the last sample does not hold already.
Appends(observed) ==
  /\ run = "RECORDING"
  /\ samples # <<>> => /\ Last.observed # observed
                       /\ now - Last.received >= Period - Slack
  /\ now - observed \in (0 - Slack)..Slack

AppendObservation(observed, content) ==
  /\ Appends(observed)
  /\ samples' = Append(samples, [received |-> now, observed |-> observed, content |-> content])
  /\ UNCHANGED <<now, run, receipt, open, effects, armed>>

-----------------------------------------------------------------------------
(***************************************************************************)
(* verify_readonly_evidence.                                               *)
(***************************************************************************)
NextReceived(i, ended) == IF i < Len(samples) THEN samples[i + 1].received ELSE ended

\* A sample stands for the time to the next one, a period at most.
Weight(i, ended) == Max({0, Min({Period, NextReceived(i, ended) - samples[i].received})})

SamplesWith(sym) == {i \in DOMAIN samples : sym \in samples[i].content.available}

AvailableTime(sym, ended) == SumFunctionOnSet([i \in DOMAIN samples |-> Weight(i, ended)], SamplesWith(sym))

WideSamples(sym, metric) == {i \in SamplesWith(sym) : <<sym, metric>> \in samples[i].content.wide}

\* The measurement at position ceil(n * Quantile / 100) of the metric's sorted ones.
QuantileIsWide(sym, metric) ==
  LET n == Cardinality(SamplesWith(sym))
  IN  n - Cardinality(WideSamples(sym, metric)) < (n * Quantile + 99) \div 100

Verifies(ended) ==
  /\ ended >= Window /\ samples # <<>>
  /\ \A i \in DOMAIN samples : samples[i].received <= ended /\ samples[i].content.clean
  /\ ended - Last.received <= Period /\ Last.content.available = Symbols
  /\ \A sym \in Symbols :
       /\ AvailableTime(sym, ended) * 100 >= MinShare * ended
       /\ \A metric \in Metrics : ~QuantileIsWide(sym, metric)

\* _assert_readonly_mutations: prepared_at is the start of the transaction.
NoMutations(ended) == \A e \in effects : e.began > ended

\* certify_readonly: a repeat verifies the stored receipt and changes nothing.
Certify ==
  /\ receipt = None /\ Verifies(now) /\ NoMutations(now)
  /\ receipt' = now /\ run' = "CERTIFIED"
  /\ UNCHANGED <<now, samples, open, effects, armed>>

\* Faulty variant: arming trusts the receipt's mutation check.
MayArmUnchecked == Verifies(receipt) /\ now - receipt <= Ttl

\* The receipt part of arm_session.
MayArm == Verifies(receipt) /\ NoMutations(receipt) /\ now - receipt <= Ttl

ArmSession ==
  /\ receipt # None /\ armed = None /\ MayArm
  /\ armed' = now
  /\ UNCHANGED <<now, run, samples, receipt, open, effects>>

-----------------------------------------------------------------------------
\* ExecutionJournalRepository.prepare, from its BEGIN to its COMMIT.
BeginEffect ==
  /\ open = None /\ Cardinality(effects) < MaxEffects
  /\ open' = now
  /\ UNCHANGED <<now, run, samples, receipt, effects, armed>>

CommitEffect ==
  /\ open # None
  /\ effects' = effects \cup {[began |-> open, committed |-> now]}
  /\ open' = None
  /\ UNCHANGED <<now, run, samples, receipt, armed>>

Next ==
  \/ Tick \/ Certify \/ ArmSession \/ BeginEffect \/ CommitEffect
  \/ \E observed \in (now - Slack)..(now + Slack), content \in Contents :
       AppendObservation(observed, content)

Spec == Init /\ [][Next]_vars

-----------------------------------------------------------------------------
\* What the books showed at an instant: some sample is the latest one, younger
\* than a period, and has the symbol.
Observed(sym, t) ==
  \E i \in DOMAIN samples :
    /\ samples[i].received <= t /\ t < samples[i].received + Period
    /\ \A j \in DOMAIN samples : samples[j].received <= t => j <= i
    /\ sym \in samples[i].content.available

\* A receipt means what its name says: in the whole window before it, instant by
\* instant, every symbol was observed for the share asked for, however the samples
\* were spaced.  Missing and late samples count as unavailable.
ReceiptIsCoverage ==
  receipt # None =>
    /\ receipt >= Window
    /\ \A sym \in Symbols :
         Cardinality({t \in 0..(receipt - 1) : Observed(sym, t)}) * 100 >= MinShare * receipt

\* The window ends with books of all symbols that are at most a period old, and
\* at most 100 - Quantile percent of a symbol's measurements of a metric were wide.
ReceiptEndsFresh ==
  receipt # None =>
    /\ \A sym \in Symbols :
         \E i \in DOMAIN samples : /\ samples[i].received \in (receipt - Period)..receipt
                                   /\ sym \in samples[i].content.available
                                   /\ i = Len(samples)
    /\ \A sym \in Symbols, metric \in Metrics :
         Cardinality(WideSamples(sym, metric)) * 100
           <= (100 - Quantile) * Cardinality(SamplesWith(sym))

\* A recorder that repeats an observation, at once or after others were stored,
\* never has it counted twice.
ObservedOnce ==
  \A i, j \in DOMAIN samples : samples[i].observed = samples[j].observed => i = j

\* A session is armed only if no effect that was stored by then began inside the
\* window, also when it was stored after the receipt; and within the receipt's hour.
ArmedOnCleanWindow ==
  armed # None =>
    /\ \A e \in effects : e.committed < armed => e.began > receipt
    /\ armed - receipt <= Ttl

\* The receipt says what the samples covered, a sample counts once, and arm accepts
\* it only for a window in which no effect was open.
ArmedOnEvidence ==
  ReceiptIsCoverage /\ ReceiptEndsFresh /\ ObservedOnce /\ ArmedOnCleanWindow
=============================================================================
