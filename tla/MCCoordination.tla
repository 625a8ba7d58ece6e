---------------------------- MODULE MCCoordination ----------------------------
(* Small instances of the parts of Coordination. *)
EXTENDS Coordination

\* Entries of two accounts in the executor, with recovery of one account and an
\* exit of one trade, and a KILL in a process of its own.
GateTasks == {"entry1", "entry2", "recovery", "exit", "kill"}
GateHome == [t \in GateTasks |-> IF t = "kill" THEN "console" ELSE "executor"]
EntryPath(a) == <<<<"account", a>>, <<"trade", a>>, <<"operator", a>>, <<"canary", a>>>>
GatePath == [t \in GateTasks |-> CASE t = "entry1" -> EntryPath(1) [] t = "entry2" -> EntryPath(2)
                                   [] t = "recovery" -> <<<<"account", 1>>>>
                                   [] t = "exit" -> <<<<"trade", 1>>>>
                                   [] t = "kill" -> <<<<"operator", 1>>>>]

\* Scripts 16, 18 and 26, 28: two profiles, an older release, an unreviewed
\* history that holds script 17, and a writer for each of two schemas.
Manifests == [p \in {"runtime", "controlled"} |-> IF p = "runtime" THEN {16, 18} ELSE {16, 18, 26, 28}]
Reviewed == [w \in {"w1", "w2"} |-> IF w = "w1" THEN {16, 18} ELSE {16, 18, 26, 28}]
Offline == [w \in {"w1", "w2"} |-> "quant"]

\* One window of a campaign with an arm that calls a provider.
CutOffs == [w \in {1} |-> w]
PairBys == [w \in {1} |-> w + 1]
=============================================================================
