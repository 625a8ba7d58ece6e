---------------------------- MODULE AccountEquity ----------------------------
(***************************************************************************)
(* The equity of an account on a trading day: record_equity of             *)
(* trade_lifecycle.py, one upsert per snapshot.  Snapshots are taken by    *)
(* several executors, arrive in any order and may arrive twice.            *)
(***************************************************************************)
EXTENDS Integers, Sequences, FiniteSets, FiniteSetsExt

CONSTANTS
  Instants,    \* capture times, in order
  DayLength,   \* number of instants of a trading day
  Equities,    \* equity values
  MaxArrivals  \* bound on the snapshots recorded

EquityConstants ==
  /\ Instants \subseteq Nat /\ Equities \subseteq Nat \ {0}
  /\ DayLength \in Nat \ {0} /\ MaxArrivals \in Nat

VARIABLES
  rows,     \* rows of account_equity_state, by trading day
  arrivals  \* history: the snapshots in the order they were recorded

vars == <<rows, arrivals>>

TradingDay(at) == at \div DayLength
Days == {TradingDay(at) : at \in Instants}

Snapshots == [at : Instants, equity : Equities]

RowType == [start : Equities, peak : Equities, last : Equities,
            firstAt : Instants, lastAt : Instants, seq : 1..MaxArrivals]

\* The CHECK constraints of the table are part of the row's type.
TypeOK ==
  /\ DOMAIN rows \subseteq Days
  /\ \A d \in DOMAIN rows :
       /\ rows[d] \in RowType
       /\ rows[d].firstAt <= rows[d].lastAt
       /\ rows[d].peak >= rows[d].start /\ rows[d].peak >= rows[d].last
  /\ arrivals \in Seq(Snapshots)

Init == rows = <<>> /\ arrivals = <<>>

FirstRow(s) ==
  [start |-> s.equity, peak |-> s.equity, last |-> s.equity,
   firstAt |-> s.at, lastAt |-> s.at, seq |-> 1]

\* Faulty variant: the snapshot that arrives last is the latest.
UpsertedInOrder(old, s) ==
  [start |-> IF s.at < old.firstAt THEN s.equity ELSE old.start,
   peak |-> Max({old.peak, s.equity}),
   last |-> s.equity,
   firstAt |-> Min({old.firstAt, s.at}),
   lastAt |-> Max({old.lastAt, s.at}),
   seq |-> old.seq + 1]

Upserted(old, s) ==
  [start |-> IF s.at < old.firstAt THEN s.equity ELSE old.start,
   peak |-> Max({old.peak, s.equity}),
   last |-> IF s.at >= old.lastAt THEN s.equity ELSE old.last,
   firstAt |-> Min({old.firstAt, s.at}),
   lastAt |-> Max({old.lastAt, s.at}),
   seq |-> old.seq + 1]

RecordEquity(s) ==
  LET d == TradingDay(s.at)
      new == IF d \in DOMAIN rows THEN Upserted(rows[d], s) ELSE FirstRow(s)
  IN  /\ Len(arrivals) < MaxArrivals
      /\ rows' = [x \in DOMAIN rows \cup {d} |-> IF x = d THEN new ELSE rows[x]]
      /\ arrivals' = Append(arrivals, s)

Next == \E s \in Snapshots : RecordEquity(s)

Spec == Init /\ [][Next]_vars

-----------------------------------------------------------------------------
Arrived(d) == {i \in DOMAIN arrivals : TradingDay(arrivals[i].at) = d}
At(i) == arrivals[i].at

\* Whatever the order of arrival, the row of a day tells the story of the order
\* of capture: the value at the day's first instant (the first to arrive, where
\* two share it), the value at its last instant (the last to arrive), the
\* largest value, and the number of snapshots.
RowIsSummary ==
  \A d \in Days :
    /\ d \in DOMAIN rows <=> Arrived(d) # {}
    /\ d \in DOMAIN rows =>
         LET I == Arrived(d)
             early == {i \in I : \A j \in I : At(i) <= At(j)}
             late == {i \in I : \A j \in I : At(j) <= At(i)}
         IN  /\ rows[d].start = arrivals[Min(early)].equity
             /\ rows[d].last = arrivals[Max(late)].equity
             /\ rows[d].peak = Max({arrivals[i].equity : i \in I})
             /\ rows[d].firstAt = At(Min(early)) /\ rows[d].lastAt = At(Max(late))
             /\ rows[d].seq = Cardinality(I)

=============================================================================
