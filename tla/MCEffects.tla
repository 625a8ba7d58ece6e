------------------------------- MODULE MCEffects -------------------------------
(* Small instances of the parts of VenueEffects. *)
EXTENDS VenueEffects

CONSTANTS o1, o2, o3, k1, k2, x1, x2

\* Two deployments that disagree on the limits of the same account.
TwoConfigs == {[capacity |-> 3, window |-> 2, reserve |-> 1],
               [capacity |-> 4, window |-> 2, reserve |-> 1]}

\* Two executor tasks use a key, a third one the same key with other content.
OneKey == [s \in {"s1", "s2", "s3"} |-> "e1"]
Contents == [s \in {"s1", "s2", "s3"} |-> IF s = "s3" THEN "c2" ELSE "c1"]

\* Two reviews for the two slots of a session, decided differently when replayed.
OneSession ==
  [sessions |-> {"s1"}, receiptOf |-> [s \in {"s1"} |-> 1], duration |-> 2, maxAttempts |-> 2,
   reviews |-> {"a1", "a2"}, slotOf |-> [r \in {"a1", "a2"} |-> IF r = "a1" THEN 1 ELSE 2],
   expiry |-> [r \in {"a1", "a2"} |-> 2], slots |-> 2, maxHold |-> 1,
   disconnects |-> FALSE, redecides |-> TRUE, maxTime |-> 3]

\* Two sessions after each other, with tasks that lose their connections.
TwoSessions ==
  [sessions |-> {"s1", "s2"}, receiptOf |-> [s \in {"s1", "s2"} |-> IF s = "s1" THEN 1 ELSE 2],
   duration |-> 2, maxAttempts |-> 1,
   reviews |-> {"a1", "a2"}, slotOf |-> [r \in {"a1", "a2"} |-> 1],
   expiry |-> [r \in {"a1", "a2"} |-> IF r = "a1" THEN 2 ELSE 4], slots |-> 2, maxHold |-> 1,
   disconnects |-> TRUE, redecides |-> FALSE, maxTime |-> 5]

TwoPlans == [plan |-> OneSession, pair |-> TwoSessions]

\* Observations with books of all symbols, of one, and with a wide spread or basis.
Good == [available |-> {"btc", "eth"}, wide |-> {}, clean |-> TRUE]
Seen == {Good, [Good EXCEPT !.wide = {<<"btc", "spread">>}],
         [Good EXCEPT !.wide = {<<"btc", "basis">>}], [Good EXCEPT !.available = {"btc"}],
         [Good EXCEPT !.clean = FALSE]}

TaskSymmetry == Permutations(Tasks) \cup Permutations(Effects \ Compensations)
=============================================================================
