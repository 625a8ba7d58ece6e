-------------------------- MODULE MCResearchCampaign --------------------------
(* One or two windows of a campaign, a millisecond from cutoff to pairing. *)
EXTENDS ResearchCampaign

MCCutOff == [w \in Windows |-> w]
MCPairBy == [w \in Windows |-> w + 1]
=============================================================================
