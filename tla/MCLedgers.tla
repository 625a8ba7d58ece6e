------------------------------- MODULE MCLedgers -------------------------------
(* Small instances of the parts of Ledgers. *)
EXTENDS Ledgers

CONSTANTS m1, m2  \* two trades, two tasks or two callers that differ in nothing but their name

\* A trade of its own, and two trades of one symbol.
Both == {m1, m2}
AllTrades == {"t0"} \cup Both
TwoParts == [race |-> {"t0"}, pair |-> Both]
SymbolOf == [t \in AllTrades |-> "BTC"]
Ordered == [t \in AllTrades |-> IF t = "t0" THEN 2 ELSE 1]
Versions == [t \in AllTrades |-> IF t = "t0" THEN 5 ELSE 3]

Slot == {"stop_client_order_id"}

Request(t, k, target, filled, firstFill, id) ==
  [trade |-> t, key |-> k, target |-> target, said |-> target, filled |-> filled,
   firstFill |-> firstFill, ids |-> [s \in Slot |-> id], body |-> "b1"]

\* One trade: entry, a first and a second fill, protection, two of the handlers
\* that race for the exit, recovery, a report with an older fill, one that fills more
\* than was ordered, another first fill, another identifier, and one with the
\* wrong state in its event.
RaceRequests ==
  {Request("t0", "k2", s, None, None, None) :
     s \in {"CANCELLED", "EXITING_STOP", "EXITING_TARGET",
            "EXITING_EMERGENCY", "FLAT", "FAILED_BLOCKED"}}
  \cup {Request("t0", "k1", "ENTRY_PENDING", None, None, None),
        Request("t0", "k1", "ENTRY_PENDING", 1, 7, None),
        Request("t0", "k1", "PROTECTING", 2, 7, "x1"),
        Request("t0", "k2", "ACTIVE", 3, None, None),
        Request("t0", "k2", "ACTIVE", 1, 8, None),
        Request("t0", "k2", "ACTIVE", None, None, "x2"),
        Request("t0", "k2", "ACTIVE", 2, None, None),
        [Request("t0", "k1", "FLAT", None, None, None) EXCEPT !.said = "ACTIVE"]}

\* Two trades of one symbol that are given the same client order id.
PairRequests ==
  UNION {{Request(t, "k1", "ENTRY_PENDING", None, None, None),
          Request(t, "k1", "PROTECTING", 1, 7, "x1"),
          Request(t, "k1", "FAILED_BLOCKED", None, None, None),
          Request(t, "k1", "FLAT", None, None, None)} : t \in Both}

AllRequests == RaceRequests \cup PairRequests
AllReports == [trade : {"t0"}, key : {"k1", "k2"}, body : {"b1"}] \cup [trade : Both, key : {"k1"}, body : {"b1"}]

\* Two services, two aliases of one provider, two receipts for one campaign.
Usages == {"k1", "k2", "k3"}
UsageService == [k \in Usages |-> IF k = "k3" THEN "macro" ELSE "text"]
UsageSource == [k \in Usages |-> IF k = "k3" THEN "xapi" ELSE "x"]
UsageCost == [k \in Usages |-> IF k = "k3" THEN 1 ELSE 2]
MonthlyBudget == [s \in {"text", "macro"} |-> IF s = "text" THEN 3 ELSE 4]
Receipts == {[budget |-> 3, historical |-> 1], [budget |-> 4, historical |-> 0]}

\* Three callers, two of them with one attempt id, and overlapping batches.
AllCallers == Both \cup {"c3"}
CallerAttempt == [c \in AllCallers |-> IF c = "c3" THEN "a2" ELSE "a1"]

Twins == Permutations(Both)
=============================================================================
