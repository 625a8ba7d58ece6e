------------------------------- MODULE Research -------------------------------
(***************************************************************************)
(* SimulationTape, SimulationJournal and ResearchCampaign side by side:    *)
(* what is recorded, simulated and counted.  They share no row.  A         *)
(* behaviour is one of a single part, which Init chooses, and leaves the   *)
(* rows of the others as they were; each session of the simulator and each *)
(* campaign is a part of its own.                                          *)
(***************************************************************************)
EXTENDS Naturals, Sequences, TLC

CONSTANTS
  Symbols, Bars, Frames, MaxFrames, \* of SimulationTape
  Sims,                             \* the constants of SimulationJournal for each part
  Campaigns,                        \* the constants of ResearchCampaign for each part
  None

VARIABLES part,
          tape, bars, frames,
          session, sealed, decisions, admitted, trade, command, receipt, liquidity, result,
          ctl, late, crashes,
          now, plan, claim, rows, seal, mine, calls

tapeVars == <<tape, bars, frames>>
simVars == <<session, sealed, decisions, admitted, trade, command, receipt, liquidity,
             result, ctl, late, crashes>>
campaignVars == <<now, plan, claim, rows, seal, mine, calls>>
vars == <<part, tapeVars, simVars, campaignVars>>

-----------------------------------------------------------------------------
Tape == INSTANCE SimulationTape

Sim(p) == INSTANCE SimulationJournal WITH
  Trades <- Sims[p].trades, Commands <- Sims[p].commands, TradeOf <- Sims[p].tradeOf,
  Moves <- Sims[p].moves, Controllers <- Sims[p].controllers, LateCalls <- Sims[p].lateCalls,
  MaxCrashes <- Sims[p].maxCrashes

Campaign(p) == INSTANCE ResearchCampaign WITH
  Windows <- Campaigns[p].windows, CutOff <- Campaigns[p].cutOff, PairBy <- Campaigns[p].pairBy,
  Sources <- Campaigns[p].sources, Arms <- Campaigns[p].arms, Skew <- Campaigns[p].skew,
  Amounts <- Campaigns[p].amounts, MaxTick <- Campaigns[p].maxTick

SimParts == DOMAIN Sims
CampaignParts == DOMAIN Campaigns

ASSUME ResearchConstants ==
  /\ Tape!TapeConstants
  /\ SimParts # {} /\ \A p \in SimParts : Sim(p)!JournalConstants
  /\ CampaignParts # {} /\ \A p \in CampaignParts : Campaign(p)!CampaignConstants
  /\ SimParts \cap CampaignParts = {} /\ "tape" \notin SimParts \cup CampaignParts

-----------------------------------------------------------------------------
\* A behaviour of one part starts with the empty tables of the others.
Simulated == IF part \in SimParts THEN part ELSE CHOOSE p \in SimParts : TRUE
Planned == IF part \in CampaignParts THEN part ELSE CHOOSE p \in CampaignParts : TRUE

Init ==
  /\ part \in {"tape"} \cup SimParts \cup CampaignParts
  /\ Tape!Init
  /\ \E p \in SimParts : p = Simulated /\ Sim(p)!Init
  /\ \E p \in CampaignParts : p = Planned /\ Campaign(p)!Init

TapeNext == part = "tape" /\ Tape!Next /\ UNCHANGED <<part, simVars, campaignVars>>
SimNext ==
  /\ \E p \in SimParts : part = p /\ Sim(p)!Next
  /\ UNCHANGED <<part, tapeVars, campaignVars>>
CampaignNext ==
  /\ \E p \in CampaignParts : part = p /\ Campaign(p)!Next
  /\ UNCHANGED <<part, tapeVars, simVars>>

Next == TapeNext \/ SimNext \/ CampaignNext

Spec == Init /\ [][Next]_vars

-----------------------------------------------------------------------------
\* The rows of every part have their types.
TypeOK ==
  /\ Tape!TypeOK
  /\ \A p \in SimParts : part = p => Sim(p)!TypeOK
  /\ \A p \in CampaignParts : part = p => Campaign(p)!TypeOK

\* Whatever recorders offer, verify_tape accepts what is stored, and a replay of
\* a sealed tape sees one unbroken recording.
TapeIsSound == Tape!TapeIsSound

\* The journal of a simulated trade, its commands, result and session receipt
\* agree although controllers crash and commits arrive late.
JournalVerifies == \A p \in SimParts : part = p => Sim(p)!JournalVerifies

\* No bundle holds what was seen after its cutoff and no pair what was recorded
\* after the cutoff for pairing.
NoHindsight == \A p \in CampaignParts : part = p => Campaign(p)!NoHindsight

\* Every outcome that counts was earned in time, and a sealed denominator stays true.
CountIsEarned == \A p \in CampaignParts : part = p => Campaign(p)!CountIsEarned

\* A provider is called once per arm and window, and costs recorded after the
\* seal stay within what it committed and held.
SpendIsBounded == \A p \in CampaignParts : part = p => Campaign(p)!SpendIsBounded
=============================================================================
