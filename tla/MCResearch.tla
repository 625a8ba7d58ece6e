------------------------------ MODULE MCResearch ------------------------------
(* Small instances of the parts of Research. *)
EXTENDS Research

CONSTANTS m1, m2 \* two controllers or two commands that differ in nothing but their name

\* Two symbols; bars that repeat a minute with other content or leave a hole;
\* frames of two streams with rising, equal and falling ids and clocks.
MCBars == {[symbol |-> "btc", open |-> o, content |-> 1] : o \in 0..2}
          \cup {[symbol |-> "btc", open |-> 1, content |-> 2]}
          \cup {[symbol |-> "eth", open |-> o, content |-> 1] : o \in {1, 2}}

Frame(s, e, u, t, c) == [symbol |-> s, epoch |-> e, update |-> u, at |-> t, continuity |-> c]
MCFrames == {Frame("btc", "e1", u, t, "ADMITTED") : u \in 1..3, t \in 0..1}
            \cup {Frame("btc", "e2", 1, 1, c) : c \in {"ADMITTED", "RECONNECT"}}
            \cup {Frame("eth", "e1", 1, 0, "ADMITTED"), Frame("eth", "e1", 2, 1, "GAP"),
                  Frame("eth", "e1", 2, 1, "ADMITTED")}

\* Entry and its failures, then the exits of an open position.
SomeMoves == {"PENDING"} \X {"ACTIVE", "NO_FILL"} \cup {<<"ACTIVE", "FLAT">>}

SimOf(commands, controllers) ==
  [trades |-> {"t1"}, commands |-> commands, tradeOf |-> [c \in commands |-> "t1"],
   moves |-> SomeMoves, controllers |-> controllers, lateCalls |-> TRUE, maxCrashes |-> 1]

\* Two controllers complete one command and one of them crashes; one controller has
\* two commands and its COMMIT may outlive it.
MCSims == [race |-> SimOf({"c1"}, {m1, m2}), replay |-> SimOf({m1, m2}, {"p1"})]

\* One window of a campaign, a millisecond from cutoff to pairing.
CampaignOf(arms, skew, amounts, ticks) ==
  [windows |-> {1}, cutOff |-> 1 :> 1, pairBy |-> 1 :> 2,
   sources |-> {"market"}, arms |-> arms, skew |-> skew, amounts |-> amounts, maxTick |-> ticks]

\* Reviews that are asked for before and after the cutoff, with skewed clocks;
\* proposals; the arm that calls nobody, alone until its evaluation is late and
\* beside another until both are sealed; costs that are reserved, committed and
\* reported late.
MCCampaigns ==
  [review |-> CampaignOf({"strategy-review"}, 1, {}, 5),
   proposal |-> CampaignOf({"llm-proposal-research"}, 0, {}, 5),
   baseline |-> CampaignOf({"strategy-only"}, 0, {}, 5),
   arms |-> CampaignOf({"strategy-review", "strategy-only"}, 0, {}, 2),
   spend |-> CampaignOf({"strategy-review"}, 0, {1, 2}, 2)]

Twins == Permutations({m1, m2})
=============================================================================
