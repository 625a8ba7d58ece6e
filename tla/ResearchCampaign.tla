--------------------------- MODULE ResearchCampaign ---------------------------
(***************************************************************************)
(* The journal of one causal research campaign (research_campaign.py with  *)
(* the causal scheduler opted in).  Every operation is one transaction     *)
(* under the campaign's advisory lock and looks at the rows stored so far; *)
(* processes call them in any order, die, and others account for what they *)
(* left.  Time runs in half milliseconds, so that the database's rounding  *)
(* shows; an INSERT may happen a tick after the clock was read.            *)
(***************************************************************************)
EXTENDS Naturals, FiniteSets, Functions

CONSTANTS
  Windows,   \* places of the windows in the roster, 1 .. n
  CutOff,    \* market_as_of_ts_ms of a window
  PairBy,    \* paired_at_ts_ms of a window
  Sources,   \* required_sources of the plan
  Arms,      \* RESEARCH_ARMS of the protocol
  Skew,      \* maximum_clock_skew_ms
  Amounts,   \* amounts of the cost receipts
  MaxTick    \* bound on time, in half milliseconds

Stages == {"RESERVATION_REQUESTED", "RESERVATION_DENIED", "RESERVED", "COMMIT_REQUESTED", "COMMITTED"}
Kinds == Stages \cup {"bundle", "evaluation", "start", "terminal", "review", "sample", "outcome"}

CampaignConstants ==
  /\ Windows \subseteq Nat /\ IsFiniteSet(Windows)
  /\ CutOff \in [Windows -> Nat] /\ PairBy \in [Windows -> Nat]
  /\ \A w \in Windows : CutOff[w] < PairBy[w]
  /\ Arms \subseteq {"strategy-only", "strategy-review", "llm-proposal-research"} /\ Sources \cap Kinds = {}
  /\ Skew \in Nat /\ Amounts \subseteq Nat /\ MaxTick \in Nat

VARIABLES
  now,   \* actual time
  plan,  \* sim_adaptive_campaign_plans has the plan
  claim, \* sim_adaptive_window_claims: the windows claimed
  rows,  \* sim_adaptive_campaign_receipts: payloads by window, arm and kind
  seal,  \* sim_adaptive_campaign_denominators: at most one receipt
  mine,  \* starts whose admission a live process has seen and not yet used
  calls  \* provider calls made, by window and arm

vars == <<now, plan, claim, rows, seal, mine, calls>>

-----------------------------------------------------------------------------
Actions == {"ALLOW", "VETO", "DEFER"}
Called == Arms \ {"strategy-only"}

\* Faulty variant: the clock of a causal campaign rounds down.
FloorClock(t) == t \div 2

\* _recorded_at and _CLOCK round down, _causal_recorded_at and _CAUSAL_CLOCK up.
Floor(t) == t \div 2
Clock(t) == (t + 1) \div 2

Has(w, a, k) == <<w, a, k>> \in DOMAIN rows
Row(w, a, k) == rows[<<w, a, k>>]

\* _store into an empty slot, an instant later.
Store(w, a, k, payload, later) ==
  /\ ~Has(w, a, k) /\ now + later <= MaxTick
  /\ rows' = [x \in DOMAIN rows \cup {<<w, a, k>>} |-> IF x = <<w, a, k>> THEN payload ELSE rows[x]]
  /\ now' = now + later

\* simulator_guard_adaptive_campaign_insert: a sealed campaign takes no new input.
Open == plan /\ seal = {}

\* Rows belong to claimed windows and to the arms of the protocol.
TypeOK ==
  /\ now \in 0..MaxTick /\ plan \in BOOLEAN /\ claim \subseteq Windows
  /\ \A s \in DOMAIN rows : s[1] \in Windows /\ s[2] \in Arms \cup {"all"} /\ (s[3] \notin Sources => s[1] \in claim)
  /\ Cardinality(seal) <= 1 /\ mine \subseteq Windows \X Called
  /\ calls \in [Windows \X Called -> 0..2]

Init ==
  /\ now = 0 /\ plan = FALSE /\ claim = {} /\ rows = <<>> /\ seal = {} /\ mine = {}
  /\ calls = [x \in Windows \X Called |-> 0]

Tick == now < MaxTick /\ now' = now + 1 /\ UNCHANGED <<plan, claim, rows, seal, mine, calls>>

-----------------------------------------------------------------------------
\* register: over windows that are all in the future.
Register ==
  /\ ~plan /\ \A w \in Windows : CutOff[w] > Clock(now)
  /\ plan' = TRUE
  /\ UNCHANGED <<now, claim, rows, seal, mine, calls>>

\* capture_source: as of a time the policy takes or not, until the bundle is frozen.
CaptureSource(w, s, fresh) ==
  /\ Open /\ ~Has(w, "all", "bundle")
  /\ Store(w, "all", s, [fresh |-> fresh, seen |-> Clock(now), tick |-> now], 0)
  /\ UNCHANGED <<plan, claim, seal, mine, calls>>

\* Faulty variant: a window whose pairing is over is not worth a claim.
ClaimNextTimely ==
  /\ Open
  /\ LET due == {w \in Windows \ claim : CutOff[w] <= Clock(now) /\ Clock(now) < PairBy[w]}
     IN \E w \in due :
          /\ \A v \in due : CutOff[w] < CutOff[v] \/ (CutOff[w] = CutOff[v] /\ w <= v)
          /\ claim' = claim \cup {w}
  /\ UNCHANGED <<now, plan, rows, seal, mine, calls>>

\* claim_next: the first window that is due and has no claim.
ClaimNext ==
  /\ Open
  /\ LET due == {w \in Windows \ claim : CutOff[w] <= Clock(now)}
     IN \E w \in due :
          /\ \A v \in due : CutOff[w] < CutOff[v] \/ (CutOff[w] = CutOff[v] /\ w <= v)
          /\ claim' = claim \cup {w}
  /\ UNCHANGED <<now, plan, rows, seal, mine, calls>>

\* A required source, saved in time for the window and not stale.
InTime(w, s) == Has(w, "all", s) /\ Row(w, "all", s).fresh /\ Row(w, "all", s).seen <= CutOff[w]

\* freeze_bundle: once every required source of a claimed window is there.
FreezeBundle(w) ==
  /\ Open /\ w \in claim /\ \A s \in Sources : InTime(w, s)
  /\ Store(w, "all", "bundle", TRUE, 0)
  /\ UNCHANGED <<plan, claim, seal, mine, calls>>

\* record_causal_evaluation, with an intent or without.
RecordEvaluation(w, intent, later) ==
  /\ Open /\ w \in claim /\ Has(w, "all", "bundle")
  /\ Store(w, "all", "evaluation", [intent |-> intent, at |-> Clock(now), rec |-> now + later], later)
  /\ UNCHANGED <<plan, claim, seal, mine, calls>>

-----------------------------------------------------------------------------
\* The fences of record_cost between the stages of one attempt id of an arm.  No fence
\* compares two attempt ids and the seal adds them up, as it adds up arms: an arm with
\* several attempt ids is, for the costs, several arms with one each.
CostAllowed(w, a, stage, n) ==
  CASE stage = "RESERVATION_REQUESTED" -> seal = {}
    [] stage = "RESERVATION_DENIED" -> Has(w, a, "RESERVATION_REQUESTED") /\ ~Has(w, a, "RESERVED") /\ n = 0
    [] stage = "RESERVED" -> /\ Has(w, a, "RESERVATION_REQUESTED") /\ ~Has(w, a, "RESERVATION_DENIED")
                             /\ n = Row(w, a, "RESERVATION_REQUESTED")
    [] stage = "COMMIT_REQUESTED" -> Has(w, a, "RESERVED") /\ n <= Row(w, a, "RESERVED")
    [] stage = "COMMITTED" -> /\ Has(w, a, "RESERVED") /\ n <= Row(w, a, "RESERVED")
                              /\ Has(w, a, "COMMIT_REQUESTED") /\ n = Row(w, a, "COMMIT_REQUESTED")

RecordCost(w, a, stage, n) ==
  /\ plan /\ w \in claim /\ CostAllowed(w, a, stage, n)
  /\ Store(w, a, stage, n, 0)
  /\ UNCHANGED <<plan, claim, seal, mine, calls>>

Admission(w) == CutOff[w] <= Clock(now) /\ Clock(now) < PairBy[w]

Near(t) == IF t < Clock(now) THEN Clock(now) - t <= Skew ELSE t - Clock(now) <= Skew

\* start_attempt: one START per arm; the answer may not arrive.
StartAttempt(w, a, at) ==
  /\ Open /\ w \in claim /\ Has(w, "all", "bundle") /\ Admission(w) /\ Near(at) /\ at >= CutOff[w]
  /\ Store(w, a, "start", at, 0)
  /\ mine' \in {mine, mine \cup {<<w, a>>}}
  /\ UNCHANGED <<plan, claim, seal, calls>>

\* The coordinator calls the provider only after True from start_attempt.
Dispatch(x) ==
  /\ x \in mine /\ mine' = mine \ {x}
  /\ calls' = [calls EXCEPT ![x] = IF @ < 2 THEN @ + 1 ELSE @]
  /\ UNCHANGED <<now, plan, claim, rows, seal>>

Crash == mine # {} /\ mine' = {} /\ UNCHANGED <<now, plan, claim, rows, seal, calls>>

\* _response_clock, with the START the completion is for.
ResponseClock(w, a, obs) ==
  Has(w, a, "start") /\ Clock(now) >= CutOff[w] /\ obs >= Row(w, a, "start") /\ Near(obs)

\* Neither finish_attempt nor record_review follows the other.
Incomplete(w, a) == ~Has(w, a, "terminal") /\ ~Has(w, a, "review")

FinishAttempt(w, a, status, obs, later) ==
  /\ plan /\ ResponseClock(w, a, obs) /\ Incomplete(w, a)
  /\ status = "COMPLETED" => a = "llm-proposal-research"
  /\ status # "UNRESOLVED" => calls[<<w, a>>] > 0
  /\ Store(w, a, "terminal", [status |-> status, obs |-> obs, rec |-> now + later], later)
  /\ UNCHANGED <<plan, claim, seal, mine, calls>>

RecordReview(w, status, obs, later) ==
  LET a == "strategy-review"
  IN /\ plan /\ ResponseClock(w, a, obs) /\ Incomplete(w, a) /\ calls[<<w, a>>] > 0
     /\ Has(w, "all", "evaluation") /\ Row(w, "all", "evaluation").intent
     /\ Store(w, a, "review", [status |-> status, obs |-> obs, rec |-> now + later], later)
     /\ UNCHANGED <<plan, claim, seal, mine, calls>>

\* record_causal_pair: proposal and evaluation, both recorded by then, by the cutoff.
\* A terminal's obs stands for its completion's; an expired intent or proposal,
\* which only refuses more, is left out.
RecordCausalPair(w, later) ==
  LET a == "llm-proposal-research"
  IN /\ Open /\ Has(w, "all", "evaluation") /\ Has(w, a, "terminal")
     /\ LET t == Row(w, a, "terminal") e == Row(w, "all", "evaluation")
        IN /\ t.status = "COMPLETED" /\ CutOff[w] <= Row(w, a, "start")
           /\ t.obs <= Clock(now) /\ Clock(t.rec) <= Clock(now)
           /\ e.at <= Clock(now) /\ Clock(e.rec) <= Clock(now)
     /\ Clock(now) <= PairBy[w] /\ Clock(now + later) <= PairBy[w]
     /\ Store(w, a, "sample", [rec |-> now + later], later)
     /\ UNCHANGED <<plan, claim, seal, mine, calls>>

-----------------------------------------------------------------------------
(* record_outcome. *)

Decision(w, a) == IF Has(w, a, "review") THEN {Row(w, a, "review")}
                  ELSE IF Has(w, a, "terminal") THEN {Row(w, a, "terminal")} ELSE {}

\* Faulty variant: what the caller observed is taken for when it was recorded.
LateObserved(w, d) == d.obs > PairBy[w]

\* Without an evaluation the recording clock is the one that rounds down.
Late(w, d) ==
  d.obs > PairBy[w] \/ (IF Has(w, "all", "evaluation") THEN Clock(d.rec) ELSE Floor(d.rec)) > PairBy[w]

\* The one outcome of an arm with a START.
Derived(w, a) ==
  IF \E d \in Decision(w, a) : d.status # "UNRESOLVED"
  THEN LET d == CHOOSE d \in Decision(w, a) : TRUE
       IN IF Late(w, d) THEN "LATE"
          ELSE IF Has(w, a, "review") THEN d.status
          ELSE IF d.status = "FAILED" THEN "CALL_FAILED" ELSE "PROPOSAL"
  ELSE "UNKNOWN"

\* The outcomes open to an arm without a START.
WithoutCall(w, a) ==
  IF Has(w, "all", "evaluation") /\ \/ Row(w, "all", "evaluation").at > PairBy[w]
                                    \/ Clock(Row(w, "all", "evaluation").rec) > PairBy[w]
  THEN {"LATE"}
  ELSE IF Has(w, "all", "evaluation") /\ a = "strategy-only"
  THEN {IF Row(w, "all", "evaluation").intent THEN "BASELINE" ELSE "NO_INTENT"}
  ELSE IF Has(w, "all", "evaluation") /\ a = "strategy-review" /\ ~Row(w, "all", "evaluation").intent
  THEN {"NO_INTENT"}
  ELSE {"EVALUATOR_FAILED"}
       \cup {s \in {"UNKNOWN"} : Has(w, a, "RESERVATION_REQUESTED") /\ ~Has(w, a, "RESERVATION_DENIED")}
       \cup {s \in {"SOURCE_MISSING"} : ~Has(w, "all", "bundle")}
       \cup {s \in {"MISSED"} : Clock(now) >= PairBy[w]}
       \cup {s \in {"BUDGET_BLOCKED"} : Has(w, "all", "evaluation") /\ Clock(now) < PairBy[w]}

Outcomes(w, a) == IF Has(w, a, "start") THEN {Derived(w, a)} ELSE WithoutCall(w, a)

RecordOutcome(w, a) ==
  /\ Open /\ w \in claim
  /\ \E s \in Outcomes(w, a) :
       Store(w, a, "outcome", [status |-> s, bundle |-> Has(w, "all", "bundle"),
                               evaluation |-> Has(w, "all", "evaluation")], 0)
  /\ UNCHANGED <<plan, claim, seal, mine, calls>>

-----------------------------------------------------------------------------
\* Amounts of the attempts at a stage.
Amount(stage, S) == SumFunctionOnSet([x \in S |-> rows[<<x[1], x[2], stage>>]], S)
At(stage) == {x \in Windows \X Called : Has(x[1], x[2], stage)}

\* Faulty variant: a reservation without an answer counts for nothing.
OutstandingKnown == Amount("RESERVED", At("RESERVED") \ At("COMMITTED"))

\* What may still be charged: reservations held, and requests without an answer.
Outstanding ==
  Amount("RESERVED", At("RESERVED") \ At("COMMITTED"))
  + Amount("RESERVATION_REQUESTED", At("RESERVATION_REQUESTED") \ (At("RESERVED") \cup At("RESERVATION_DENIED")))

Complete == \A w \in Windows, a \in Arms : Has(w, a, "outcome")

OutcomeRows == [s \in {s \in DOMAIN rows : s[3] = "outcome"} |-> rows[s]]

SealDenominator ==
  /\ Open /\ Complete
  /\ seal' = {[outcomes |-> OutcomeRows, committed |-> Amount("COMMITTED", At("COMMITTED")),
               outstanding |-> Outstanding]}
  /\ UNCHANGED <<now, plan, claim, rows, mine, calls>>

Next ==
  \/ Tick \/ Register \/ ClaimNext \/ Crash \/ SealDenominator
  \/ \E x \in mine : Dispatch(x)
  \/ \E w \in Windows :
       \/ \E s \in Sources, fresh \in BOOLEAN : CaptureSource(w, s, fresh)
       \/ FreezeBundle(w)
       \/ \E a \in Arms : RecordOutcome(w, a)
       \/ \E later \in 0..1 :
            \/ \E intent \in BOOLEAN : RecordEvaluation(w, intent, later)
            \/ "llm-proposal-research" \in Arms /\ RecordCausalPair(w, later)
            \/ /\ "strategy-review" \in Arms
               /\ \E s \in Actions, obs \in 0..Clock(MaxTick) : RecordReview(w, s, obs, later)
            \/ \E a \in Called, s \in {"COMPLETED", "FAILED", "UNRESOLVED"}, obs \in 0..Clock(MaxTick) :
                 FinishAttempt(w, a, s, obs, later)
       \/ \E a \in Called : \/ \E at \in 0..Clock(MaxTick) : StartAttempt(w, a, at)
                            \/ \E stage \in Stages, n \in Amounts : RecordCost(w, a, stage, n)

Spec == Init /\ [][Next]_vars

-----------------------------------------------------------------------------
Cut(w) == 2 * PairBy[w]
Outcome(w, a) == Row(w, a, "outcome")
Counted == {x \in Windows \X Arms : Has(x[1], x[2], "outcome")}

\* The provider is called at most once for an arm of a window, and only behind a
\* START that stays, whoever crashes and whichever answer is lost.
OneDispatch == \A x \in Windows \X Called : calls[x] <= 1 /\ (calls[x] > 0 => Has(x[1], x[2], "start"))

\* Nothing in a frozen bundle was seen after the cutoff of its window, and a pair
\* compares what was really recorded before the cutoff for pairing.
NoHindsight ==
  \A w \in Windows :
    /\ Has(w, "all", "bundle") => \A s \in Sources : Row(w, "all", s).tick <= 2 * CutOff[w]
    /\ "llm-proposal-research" \in Arms /\ Has(w, "llm-proposal-research", "sample") =>
         /\ Row(w, "llm-proposal-research", "sample").rec <= Cut(w)
         /\ Row(w, "llm-proposal-research", "terminal").rec <= Row(w, "llm-proposal-research", "sample").rec
         /\ Row(w, "all", "evaluation").rec <= Row(w, "llm-proposal-research", "sample").rec

\* A decision counts for what one completion of the arm says, and only when that
\* was recorded before the cutoff (to the millisecond without an evaluation).
OutcomeIsEarned ==
  /\ \A w \in Windows, a \in Called : ~(Has(w, a, "terminal") /\ Has(w, a, "review"))
  /\ \A x \in Counted :
       LET w == x[1] a == x[2] o == Outcome(x[1], x[2])
       IN /\ o.status \in Actions \cup {"PROPOSAL", "CALL_FAILED"} =>
               \E d \in Decision(w, a) : /\ d.rec <= (IF o.evaluation THEN Cut(w) ELSE Cut(w) + 1)
                                         /\ o.status \in Actions => d.status = o.status
          /\ o.status = "BASELINE" => Row(w, "all", "evaluation").rec <= Cut(w)

\* A window counted as missed has no attempt: none before, and none after.
MissedIsMissed == \A x \in Counted : Outcome(x[1], x[2]).status = "MISSED" => ~Has(x[1], x[2], "start")

\* The sealed denominator has an outcome for every arm of every window, and what
\* it counted stays what the journal says.
SealStaysTrue ==
  \A d \in seal : DOMAIN d.outcomes = {<<w, a, "outcome">> : w \in Windows, a \in Arms} /\ d.outcomes = OutcomeRows

\* The denominator: an outcome is what its rows earned before the cutoff, a missed
\* window has no start, and what was sealed still follows from the rows.
CountIsEarned == OutcomeIsEarned /\ MissedIsMissed /\ SealStaysTrue

\* Whatever costs are recorded after the seal, they stay within what it committed
\* and held, answers that were still missing included.
SealedCostIsABound == \A d \in seal : Amount("COMMITTED", At("COMMITTED")) <= d.committed + d.outstanding

\* What is paid: one dispatch per arm and window, and no more after the seal than
\* the seal committed and held.
SpendIsBounded == OneDispatch /\ SealedCostIsABound

\* README: "a surviving START is unknown unless independently completed": in a sealed
\* campaign no arm with a START is counted as one that was never called.
StartIsAccounted ==
  seal # {} => \A x \in Counted : Has(x[1], x[2], "start") =>
    Outcome(x[1], x[2]).status \notin {"SOURCE_MISSING", "NO_INTENT", "BUDGET_BLOCKED", "EVALUATOR_FAILED", "MISSED"}

\* A registered campaign is sealed in the end: every window is claimed and counted
\* for every arm, whatever its processes did or left undone.
CampaignIsSealed == plan ~> seal # {}
=============================================================================
