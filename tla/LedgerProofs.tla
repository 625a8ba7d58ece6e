----------------------------- MODULE LedgerProofs -----------------------------
(***************************************************************************)
(* What holds of trades, news claims, equity rows and usage budgets for    *)
(* every set of trades, requests, callers, batches, instants and keys.  A  *)
(* part is proved with an invariant of its own rows; a step of another     *)
(* part leaves them alone.                                                 *)
(***************************************************************************)
EXTENDS Ledgers, SetLemmas

-----------------------------------------------------------------------------
(***************************************************************************)
(* TradeLifecycle.  Whatever a call does besides, to a trade's row and     *)
(* journal it does one of three things: nothing that they record (Kept),   *)
(* the first entry (Begun), or one entry more (Advanced).                  *)
(***************************************************************************)
Kept(t) ==
  /\ journal'[t] = journal[t]
  /\ row[t].exists /\ row'[t].exists /\ row'[t].state = row[t].state
  /\ row'[t].version = row[t].version /\ row'[t].filled = row[t].filled
  /\ row'[t].firstFill = row[t].firstFill /\ row'[t].ids = row[t].ids

Begun(t) ==
  /\ ~row[t].exists /\ Trade!SymbolFree(t)
  /\ journal'[t] = <<Trade!CreatedEntry>>
  /\ row'[t].exists /\ row'[t].state = "RECEIVED" /\ row'[t].version = 0
  /\ row'[t].filled = 0 /\ row'[t].firstFill = None /\ row'[t].ids = Trade!NoIds

Advanced(t, r, k) ==
  /\ r.trade = t /\ Trade!MayTransition(r)
  /\ journal'[t] = Append(journal[t], Trade!EntryAfter(r, k))
  /\ row'[t].exists /\ row'[t].state = r.target
  /\ row'[t].version = row[t].version + 1
  /\ row'[t].filled = Trade!Effective(r, row[t]).filled
  /\ row'[t].firstFill = Trade!Effective(r, row[t]).firstFill
  /\ row'[t].ids = Trade!Effective(r, row[t]).ids

\* Before its creation a trade has nothing; from then on its journal starts with
\* the creation.
FreshIsEmpty ==
  \A t \in Trades : ~row[t].exists =>
    row[t] = Trade!NoRow /\ journal[t] = <<>> /\ facts[t] = {} /\ outbox[t] = <<>>

JournalStarts == \A t \in Trades : row[t].exists => journal[t][1] = Trade!CreatedEntry

\* What the prover needs of Append.
LEMMA AppendFacts ==
  ASSUME NEW S, NEW s \in Seq(S), NEW x \in S
  PROVE  /\ Append(s, x) \in Seq(S) /\ Len(Append(s, x)) = Len(s) + 1
         /\ Len(s) \in Nat /\ DOMAIN s = 1..Len(s) /\ DOMAIN Append(s, x) = 1..(Len(s) + 1)
         /\ \A i \in 1..Len(s) : Append(s, x)[i] = s[i]
         /\ Append(s, x)[Len(s) + 1] = x
  OBVIOUS

\* A transition that is allowed writes values of the columns' types, within the
\* ordered quantity.
LEMMA EffectiveType ==
  ASSUME Trade!TypeOK, NEW r \in Requests, Trade!MayTransition(r)
  PROVE  /\ Trade!Effective(r, row[r.trade]).filled \in Trade!Fills
         /\ Trade!Effective(r, row[r.trade]).filled \in Nat
         /\ Trade!Effective(r, row[r.trade]).firstFill \in Trade!FillTimes
         /\ Trade!Effective(r, row[r.trade]).ids \in Trade!Identifiers
         /\ r.trade \in Trades /\ r.target \in Trade!States /\ row[r.trade].filled \in Nat
<1>. DEFINE t == r.trade
<1>1. /\ t \in Trades /\ r \in Trade!RequestType
      /\ row[t] \in Trade!Rows /\ Quantity[t] \in Nat
  BY LedgerConstants DEF Trade!TradeConstants, Trade!RequestType, Trade!TypeOK
<1>2. row[t].filled \in Nat
  BY <1>1, LedgerConstants DEF Trade!TradeConstants, Trade!Rows, Trade!Fills
<1>3. Trade!Effective(r, row[t]).filled \in Nat
  BY <1>1, <1>2 DEF Trade!Effective, Trade!Given, Trade!RequestType
<1>4. Trade!Effective(r, row[t]).filled \in 0..Quantity[t]
  BY <1>1, <1>2, <1>3 DEF Trade!MayTransition
<1>5. Trade!Effective(r, row[t]).firstFill \in Trade!FillTimes
  BY <1>1 DEF Trade!Effective, Trade!Given, Trade!RequestType, Trade!Rows
<1>6. Trade!Effective(r, row[t]).ids \in Trade!Identifiers
  BY <1>1 DEF Trade!Effective, Trade!Given, Trade!RequestType, Trade!Rows, Trade!Identifiers
<1>. QED BY <1>1, <1>2, <1>3, <1>4, <1>5, <1>6 DEF Trade!Fills, Trade!RequestType

\* The row and the entry a transition writes.
LEMMA AfterType ==
  ASSUME Trade!TypeOK, NEW r \in Requests, Trade!MayTransition(r)
  PROVE  /\ Trade!RowAfter(r) \in Trade!Rows
         /\ Trade!RowAfter(r).exists
         /\ Trade!RowAfter(r).state = r.target
         /\ Trade!RowAfter(r).version = row[r.trade].version + 1
         /\ Trade!RowAfter(r).filled = Trade!Effective(r, row[r.trade]).filled
         /\ Trade!RowAfter(r).firstFill = Trade!Effective(r, row[r.trade]).firstFill
         /\ Trade!RowAfter(r).ids = Trade!Effective(r, row[r.trade]).ids
         /\ Trade!RowAfter(r).nextSeq = row[r.trade].nextSeq
         /\ \A k \in FactKeys \cup {None} : Trade!EntryAfter(r, k) \in Trade!Entries
<1>1. row[r.trade] \in Trade!Rows /\ r \in Trade!RequestType /\ row[r.trade].exists
  BY EffectiveType, LedgerConstants DEF Trade!TypeOK, Trade!TradeConstants, Trade!MayTransition
<1>. DEFINE new == Trade!Effective(r, row[r.trade])
<1>2. /\ new.filled \in Trade!Fills /\ new.firstFill \in Trade!FillTimes
      /\ new.ids \in Trade!Identifiers /\ r.target \in Trade!States /\ r.body \in Bodies
  BY EffectiveType, <1>1 DEF Trade!RequestType
<1>. HIDE DEF new
<1>3. Trade!RowAfter(r) =
        [exists |-> row[r.trade].exists, state |-> r.target, version |-> row[r.trade].version + 1,
         filled |-> new.filled, firstFill |-> new.firstFill, ids |-> new.ids,
         nextSeq |-> row[r.trade].nextSeq, reconciled |-> row[r.trade].reconciled]
  BY DEF Trade!RowAfter, new
<1>4. \A k : Trade!EntryAfter(r, k) =
        [from |-> row[r.trade].state, to |-> r.target, body |-> r.body, filled |-> new.filled,
         firstFill |-> new.firstFill, ids |-> new.ids, cause |-> k]
  BY DEF Trade!EntryAfter, new
<1>5. \A k \in FactKeys \cup {None} : Trade!EntryAfter(r, k) \in Trade!Entries
  BY <1>1, <1>2, <1>4 DEF Trade!Entries, Trade!Rows
<1>6. /\ Trade!RowAfter(r) \in Trade!Rows
      /\ Trade!RowAfter(r).exists
      /\ Trade!RowAfter(r).state = r.target
      /\ Trade!RowAfter(r).version = row[r.trade].version + 1
      /\ Trade!RowAfter(r).filled = new.filled
      /\ Trade!RowAfter(r).firstFill = new.firstFill
      /\ Trade!RowAfter(r).ids = new.ids
      /\ Trade!RowAfter(r).nextSeq = row[r.trade].nextSeq
  BY <1>1, <1>2, <1>3 DEF Trade!Rows
<1>. QED BY <1>5, <1>6 DEF new

\* The entry of a creation has the type of the others.
LEMMA CreatedType ==
  ASSUME NEW t \in Trades
  PROVE  <<Trade!CreatedEntry>> \in Seq(Trade!Entries)
<1>1. 0 \in Trade!Fills
  BY LedgerConstants DEF Trade!TradeConstants, Trade!Fills
<1>. QED BY <1>1 DEF Trade!CreatedEntry, Trade!Entries, Trade!States, Trade!FillTimes,
            Trade!Identifiers, Trade!NoIds

\* The row of a trade that is given one field or one number.
LEMMA RowFields ==
  ASSUME NEW x \in Trade!Rows
  PROVE  /\ [x EXCEPT !.exists = TRUE] \in Trade!Rows
         /\ [x EXCEPT !.reconciled = TRUE] \in Trade!Rows
         /\ x.nextSeq <= MaxSeq =>
              /\ [x EXCEPT !.nextSeq = @ + 1] \in Trade!Rows
              /\ [x EXCEPT !.exists = TRUE, !.nextSeq = @ + 1] \in Trade!Rows
<1>1. [x EXCEPT !.exists = TRUE] \in Trade!Rows
  BY DEF Trade!Rows
<1>2. [x EXCEPT !.reconciled = TRUE] \in Trade!Rows
  BY DEF Trade!Rows
<1>3. ASSUME x.nextSeq <= MaxSeq PROVE x.nextSeq + 1 \in 1..(MaxSeq + 1)
  BY <1>3, LedgerConstants DEF Trade!Rows, Trade!TradeConstants
<1>4. ASSUME x.nextSeq <= MaxSeq PROVE [x EXCEPT !.nextSeq = @ + 1] \in Trade!Rows
  BY <1>3, <1>4 DEF Trade!Rows
<1>5. ASSUME x.nextSeq <= MaxSeq
      PROVE  [x EXCEPT !.exists = TRUE, !.nextSeq = @ + 1] \in Trade!Rows
  <2>. DEFINE y == [x EXCEPT !.exists = TRUE]
  <2>1. y \in Trade!Rows /\ y.nextSeq = x.nextSeq
    BY <1>1 DEF Trade!Rows
  <2>2. [y EXCEPT !.nextSeq = x.nextSeq + 1] \in Trade!Rows
    BY <2>1, <1>3, <1>5 DEF Trade!Rows
  <2>. QED BY <2>2, <2>1
<1>. QED BY <1>1, <1>2, <1>4, <1>5

\* A fact's columns and the event that announces it.
LEMMA FactType ==
  ASSUME Trade!TypeOK, NEW t \in Trades, NEW k \in FactKeys, NEW s \in Trade!States,
         NEW b \in Bodies, NEW v \in Nat, row[t].nextSeq <= MaxSeq
  PROVE  /\ Trade!NewFact(t, k, s, b, v) \in Trade!Facts
         /\ Trade!Event(Trade!NewFact(t, k, s, b, v)) \in Trade!Events
         /\ Trade!NewFact(t, k, s, b, v).seq = row[t].nextSeq
         /\ row[t].nextSeq \in Nat \ {0}
<1>1. row[t].nextSeq \in 1..MaxSeq
  BY LedgerConstants DEF Trade!TypeOK, Trade!Rows, Trade!TradeConstants
<1>. QED BY <1>1, LedgerConstants
         DEF Trade!NewFact, Trade!Facts, Trade!Event, Trade!Events, Trade!TradeConstants

\* A new fact leaves facts and outbox well-typed.
LEMMA RecordFactType ==
  ASSUME Trade!TypeOK, NEW t \in Trades, NEW f \in Trade!Facts, Trade!Event(f) \in Trade!Events,
         Trade!RecordFact(f, t)
  PROVE  facts' \in [Trades -> SUBSET Trade!Facts] /\ outbox' \in [Trades -> Seq(Trade!Events)]
  BY DEF Trade!TypeOK, Trade!RecordFact

\* Rows, journals, facts and outboxes keep their types.
LEMMA TradeTypeStep ==
  ASSUME Trade!TypeOK, NEW t \in Trades, Trade!Call(t)
  PROVE  Trade!TypeOK'
<1>. USE DEF Trade!TypeOK
<1>1. CASE Trade!Create(t)
  BY <1>1, RowFields, CreatedType DEF Trade!Create
<1>2. CASE Trade!NextEventSequence(t)
  BY <1>2, RowFields DEF Trade!NextEventSequence
<1>3. CASE Trade!MarkReconciled(t)
  BY <1>3, RowFields DEF Trade!MarkReconciled
<1>4. ASSUME NEW k \in FactKeys, NEW b \in Bodies, Trade!CreateWithExecutionEvent(t, k, b)
      PROVE  Trade!TypeOK'
  <2>1. row' \in [Trades -> Trade!Rows] /\ journal' \in [Trades -> Seq(Trade!Entries)]
    BY <1>4, RowFields, CreatedType DEF Trade!CreateWithExecutionEvent
  <2>2. facts' \in [Trades -> SUBSET Trade!Facts] /\ outbox' \in [Trades -> Seq(Trade!Events)]
    BY <1>4, FactType, RecordFactType DEF Trade!CreateWithExecutionEvent, Trade!States
  <2>. QED BY <1>4, <2>1, <2>2 DEF Trade!CreateWithExecutionEvent
<1>5. ASSUME NEW k \in FactKeys, NEW b \in Bodies, NEW s \in Trade!States,
             NEW v \in 0..MaxVersion[t], Trade!AppendExecutionEvent(t, k, s, b, v)
      PROVE  Trade!TypeOK'
  <2>1. row' \in [Trades -> Trade!Rows]
    BY <1>5, RowFields DEF Trade!AppendExecutionEvent
  <2>2. facts' \in [Trades -> SUBSET Trade!Facts] /\ outbox' \in [Trades -> Seq(Trade!Events)]
    BY <1>5, FactType, RecordFactType DEF Trade!AppendExecutionEvent
  <2>. QED BY <1>5, <2>1, <2>2 DEF Trade!AppendExecutionEvent
<1>6. ASSUME NEW r \in Requests, Trade!Transition(r) PROVE Trade!TypeOK'
  BY <1>6, AfterType, EffectiveType DEF Trade!Transition
<1>7. ASSUME NEW r \in Requests, Trade!TransitionWithExecutionEvent(r) PROVE Trade!TypeOK'
  <2>1. Trade!MayTransition(r) /\ r.key \in FactKeys /\ r.body \in Bodies
    BY <1>7, LedgerConstants
       DEF Trade!TransitionWithExecutionEvent, Trade!TradeConstants, Trade!RequestType
  <2>2. row' \in [Trades -> Trade!Rows] /\ journal' \in [Trades -> Seq(Trade!Entries)]
    <3>1. [Trade!RowAfter(r) EXCEPT !.nextSeq = @ + 1] \in Trade!Rows
      BY <1>7, <2>1, AfterType, RowFields DEF Trade!TransitionWithExecutionEvent
    <3>2. Trade!EntryAfter(r, r.key) \in Trade!Entries
      BY <2>1, AfterType
    <3>3. row' \in [Trades -> Trade!Rows]
      BY <1>7, <3>1 DEF Trade!TransitionWithExecutionEvent
    <3>4. Append(journal[r.trade], Trade!EntryAfter(r, r.key)) \in Seq(Trade!Entries)
      BY <2>1, <3>2, EffectiveType, AppendFacts
    <3>5. journal' \in [Trades -> Seq(Trade!Entries)]
      BY <1>7, <3>4 DEF Trade!TransitionWithExecutionEvent
    <3>. QED BY <3>3, <3>5
  <2>3. row[r.trade].version + 1 \in Nat
    BY <2>1, EffectiveType DEF Trade!Rows
  <2>4. facts' \in [Trades -> SUBSET Trade!Facts] /\ outbox' \in [Trades -> Seq(Trade!Events)]
    BY <1>7, <2>1, <2>3, EffectiveType, FactType, RecordFactType
       DEF Trade!TransitionWithExecutionEvent
  <2>. QED BY <1>7, <2>2, <2>4 DEF Trade!TransitionWithExecutionEvent
<1>8. ASSUME NEW r \in Requests, Trade!ReplayTransition(r) PROVE Trade!TypeOK'
  BY <1>8 DEF Trade!ReplayTransition
<1>9. \A e \in Reports : e.key \in FactKeys /\ e.body \in Bodies
  BY LedgerConstants DEF Trade!TradeConstants
<1>. QED BY <1>1, <1>2, <1>3, <1>4, <1>5, <1>6, <1>7, <1>8, <1>9 DEF Trade!Call

\* What a call does to the facts of its trade: none, perhaps after a number was
\* drawn for nothing, or one more, about the version and the state it leaves.
Silent(t) ==
  /\ facts'[t] = facts[t] /\ outbox'[t] = outbox[t]
  /\ \/ row'[t].nextSeq = row[t].nextSeq
     \/ t \in LegacyCalls /\ row'[t].nextSeq = row[t].nextSeq + 1

Told(t, f) ==
  /\ Trade!FactOf(t, f.key) = {}
  /\ f.seq = row[t].nextSeq /\ f.version = row'[t].version /\ f.state = row'[t].state
  /\ facts'[t] = facts[t] \cup {f}
  /\ outbox'[t] = Append(outbox[t], Trade!Event(f))
  /\ row'[t].nextSeq = row[t].nextSeq + 1

OthersKept(t) ==
  \A u \in Trades \ {t} :
    row'[u] = row[u] /\ journal'[u] = journal[u] /\ facts'[u] = facts[u] /\ outbox'[u] = outbox[u]

\* The shapes of a call.
Quiet(t) ==
  /\ Kept(t) \/ Begun(t)
  /\ Silent(t) \/ \E f \in Trade!Facts : Told(t, f)
  /\ applied' = applied

Answered(r) ==
  /\ Trade!ReplayAnswered(r) /\ applied' = applied \cup {r}
  /\ UNCHANGED <<row, journal, facts, outbox>>

AdvancedAlone(t, r) == Advanced(t, r, None) /\ Silent(t) /\ applied' = applied

AdvancedWith(t, r, f) ==
  /\ Advanced(t, r, r.key) /\ Told(t, f)
  /\ f.key = r.key /\ f.body = r.body /\ r.said = r.target
  /\ applied' = applied \cup {r}

\* Every call has one of the shapes and touches one trade.
LEMMA TradeShapes ==
  ASSUME Trade!TypeOK, FreshIsEmpty, JournalStarts, Trade!RowIsJournalHead,
         NEW t \in Trades, Trade!Call(t)
  PROVE  /\ OthersKept(t)
         /\ \/ Quiet(t)
            \/ \E r \in Requests : Answered(r)
            \/ \E r \in Requests : AdvancedAlone(t, r)
            \/ \E r \in Requests, f \in Trade!Facts : AdvancedWith(t, r, f)
<1>0. row[t] \in Trade!Rows /\ row[t].nextSeq \in Nat /\ row[t].version \in Nat
  BY LedgerConstants DEF Trade!TypeOK, Trade!Rows, Trade!TradeConstants
<1>1. CASE Trade!Create(t)
  <2>1. row'[t] = [Trade!NoRow EXCEPT !.exists = TRUE] /\ row[t] = Trade!NoRow
    BY <1>1 DEF Trade!Create, Trade!CreateLocked, FreshIsEmpty, Trade!TypeOK
  <2>2. Begun(t)
    BY <1>1, <2>1 DEF Trade!Create, Trade!CreateLocked, Trade!TypeOK, Begun, Trade!NoRow
  <2>3. Silent(t)
    BY <1>1, <2>1 DEF Trade!Create, Silent, Trade!NoRow
  <2>4. OthersKept(t) /\ applied' = applied
    BY <1>1 DEF Trade!Create, OthersKept, Trade!TypeOK
  <2>. QED BY <2>2, <2>3, <2>4 DEF Quiet
<1>2. CASE Trade!NextEventSequence(t)
  <2>1. Kept(t) /\ Silent(t)
    BY <1>0, <1>2 DEF Trade!NextEventSequence, Kept, Silent, Trade!TypeOK, Trade!Rows
  <2>2. OthersKept(t) /\ applied' = applied
    BY <1>2 DEF Trade!NextEventSequence, OthersKept, Trade!TypeOK
  <2>. QED BY <2>1, <2>2 DEF Quiet
<1>3. CASE Trade!MarkReconciled(t)
  <2>1. Kept(t) /\ Silent(t)
    BY <1>0, <1>3 DEF Trade!MarkReconciled, Kept, Silent, Trade!TypeOK, Trade!Rows
  <2>2. OthersKept(t) /\ applied' = applied
    BY <1>3 DEF Trade!MarkReconciled, OthersKept, Trade!TypeOK
  <2>. QED BY <2>1, <2>2 DEF Quiet
<1>4. ASSUME NEW k \in FactKeys, NEW b \in Bodies, Trade!CreateWithExecutionEvent(t, k, b)
      PROVE  OthersKept(t) /\ Quiet(t)
  <2>. DEFINE f == Trade!NewFact(t, k, "RECEIVED", b, 0)
  <2>1. f \in Trade!Facts /\ f.key = k /\ f.seq = row[t].nextSeq /\ f.version = 0 /\ f.state = "RECEIVED"
    BY <1>4, FactType DEF Trade!CreateWithExecutionEvent, Trade!NewFact, Trade!States
  <2>2. row'[t] = [row[t] EXCEPT !.exists = TRUE, !.nextSeq = @ + 1]
    BY <1>4 DEF Trade!CreateWithExecutionEvent, Trade!TypeOK
  <2>3. /\ row'[t].exists /\ row'[t].nextSeq = row[t].nextSeq + 1 /\ row'[t].state = row[t].state
        /\ row'[t].version = row[t].version /\ row'[t].filled = row[t].filled
        /\ row'[t].firstFill = row[t].firstFill /\ row'[t].ids = row[t].ids
    BY <1>0, <2>2 DEF Trade!Rows
  <2>4. journal'[t] = <<Trade!CreatedEntry>>
    BY <1>4 DEF Trade!CreateWithExecutionEvent, Trade!TypeOK
  <2>5. ASSUME row[t].exists
        PROVE  Kept(t) /\ row'[t].version = 0 /\ row'[t].state = "RECEIVED"
    <3>1. row[t].version = 0 /\ Len(journal[t]) = 1 /\ journal[t][1] = Trade!CreatedEntry
      <4>1. row[t].version = 0
        BY <1>4, <2>5 DEF Trade!CreateWithExecutionEvent, Trade!CreateLocked
      <4>2. Len(journal[t]) = row[t].version + 1
        BY <2>5 DEF Trade!RowIsJournalHead
      <4>. QED BY <4>1, <4>2, <2>5 DEF JournalStarts
    <3>2. journal[t] \in Seq(Trade!Entries)
      BY DEF Trade!TypeOK
    <3>3. journal[t] = <<Trade!CreatedEntry>>
      BY <3>1, <3>2
    <3>4. row[t].state = "RECEIVED"
      BY <2>5, <3>1 DEF Trade!RowIsJournalHead, Trade!CreatedEntry
    <3>. QED BY <2>3, <2>4, <2>5, <3>1, <3>3, <3>4 DEF Kept
  <2>6. ASSUME ~row[t].exists
        PROVE  Begun(t) /\ row'[t].version = 0 /\ row'[t].state = "RECEIVED"
    <3>1. row[t] = Trade!NoRow /\ Trade!SymbolFree(t)
      BY <1>4, <2>6 DEF Trade!CreateWithExecutionEvent, Trade!CreateLocked, FreshIsEmpty
    <3>. QED BY <2>3, <2>4, <2>6, <3>1 DEF Begun, Trade!NoRow
  <2>7. Told(t, f)
    BY <1>4, <2>1, <2>3, <2>5, <2>6
       DEF Trade!CreateWithExecutionEvent, Trade!RecordFact, Trade!TypeOK, Told
  <2>8. OthersKept(t) /\ applied' = applied
    BY <1>4 DEF Trade!CreateWithExecutionEvent, Trade!RecordFact, OthersKept, Trade!TypeOK
  <2>. QED BY <2>1, <2>5, <2>6, <2>7, <2>8 DEF Quiet
<1>5. ASSUME NEW k \in FactKeys, NEW b \in Bodies, NEW s \in Trade!States,
             NEW v \in 0..MaxVersion[t], Trade!AppendExecutionEvent(t, k, s, b, v)
      PROVE  OthersKept(t) /\ Quiet(t)
  <2>. DEFINE f == Trade!NewFact(t, k, s, b, v)
  <2>1. /\ f \in Trade!Facts /\ f.key = k /\ f.seq = row[t].nextSeq
        /\ f.version = row[t].version /\ f.state = row[t].state
    BY <1>0, <1>5, FactType DEF Trade!AppendExecutionEvent, Trade!NewFact
  <2>2. row'[t] = [row[t] EXCEPT !.nextSeq = @ + 1] /\ journal' = journal /\ row[t].exists
    BY <1>5 DEF Trade!AppendExecutionEvent, Trade!TypeOK
  <2>3. Kept(t) /\ row'[t].nextSeq = row[t].nextSeq + 1
    BY <1>0, <2>2 DEF Trade!Rows, Kept
  <2>4. Told(t, f)
    BY <1>5, <2>1, <2>3
       DEF Trade!AppendExecutionEvent, Trade!RecordFact, Trade!TypeOK, Told, Kept
  <2>5. OthersKept(t) /\ applied' = applied
    BY <1>5 DEF Trade!AppendExecutionEvent, Trade!RecordFact, OthersKept, Trade!TypeOK
  <2>. QED BY <2>1, <2>3, <2>4, <2>5 DEF Quiet
<1>6. ASSUME NEW r \in Requests, r.trade = t, Trade!Transition(r)
      PROVE  OthersKept(t) /\ AdvancedAlone(t, r)
  <2>1. Trade!MayTransition(r) /\ row'[t] = Trade!RowAfter(r)
    BY <1>6 DEF Trade!Transition, Trade!TypeOK
  <2>2. journal'[t] = Append(journal[t], Trade!EntryAfter(r, None))
    BY <1>6 DEF Trade!Transition, Trade!TypeOK
  <2>3. Advanced(t, r, None) /\ Silent(t)
    BY <1>6, <2>1, <2>2, AfterType DEF Advanced, Silent, Trade!Transition
  <2>4. OthersKept(t) /\ applied' = applied
    BY <1>6 DEF Trade!Transition, OthersKept, Trade!TypeOK
  <2>. QED BY <2>3, <2>4 DEF AdvancedAlone
<1>7. ASSUME NEW r \in Requests, r.trade = t, Trade!TransitionWithExecutionEvent(r)
      PROVE  OthersKept(t) /\ \E f \in Trade!Facts : AdvancedWith(t, r, f)
  <2>. DEFINE f == Trade!NewFact(t, r.key, r.target, r.body, row[t].version + 1)
              new == Trade!RowAfter(r)
  <2>1. Trade!MayTransition(r) /\ row'[t] = [new EXCEPT !.nextSeq = @ + 1]
    BY <1>7 DEF Trade!TransitionWithExecutionEvent, Trade!TypeOK
  <2>2. journal'[t] = Append(journal[t], Trade!EntryAfter(r, r.key))
    BY <1>7 DEF Trade!TransitionWithExecutionEvent, Trade!TypeOK
  <2>3. new \in Trade!Rows
    BY <2>1, AfterType
  <2>4. /\ row'[t].exists = new.exists /\ row'[t].state = new.state
        /\ row'[t].version = new.version /\ row'[t].filled = new.filled
        /\ row'[t].firstFill = new.firstFill /\ row'[t].ids = new.ids
        /\ row'[t].nextSeq = new.nextSeq + 1
    <3>. HIDE DEF new
    <3>. QED BY <2>1, <2>3 DEF Trade!Rows
  <2>5. Advanced(t, r, r.key) /\ row'[t].nextSeq = row[t].nextSeq + 1
    BY <1>7, <2>1, <2>2, <2>4, AfterType DEF Advanced
  <2>6. r.key \in FactKeys /\ r.body \in Bodies /\ r.target \in Trade!States
    BY LedgerConstants DEF Trade!TradeConstants, Trade!RequestType
  <2>7. /\ f \in Trade!Facts /\ f.key = r.key /\ f.seq = row[t].nextSeq /\ f.body = r.body
        /\ f.version = row[t].version + 1 /\ f.state = r.target
    BY <1>0, <1>7, <2>6, FactType DEF Trade!TransitionWithExecutionEvent, Trade!NewFact
  <2>8. facts'[t] = facts[t] \cup {f} /\ outbox'[t] = Append(outbox[t], Trade!Event(f))
    BY <1>7 DEF Trade!TransitionWithExecutionEvent, Trade!RecordFact, Trade!TypeOK
  <2>9. Told(t, f)
    <3>. HIDE DEF f
    <3>. QED BY <1>7, <2>5, <2>7, <2>8 DEF Told, Advanced, Trade!TransitionWithExecutionEvent
  <2>10. OthersKept(t) /\ applied' = applied \cup {r} /\ r.said = r.target
    BY <1>7 DEF Trade!TransitionWithExecutionEvent, Trade!RecordFact, OthersKept, Trade!TypeOK
  <2>. HIDE DEF f
  <2>. QED BY <2>5, <2>7, <2>9, <2>10 DEF AdvancedWith
<1>8. ASSUME NEW r \in Requests, Trade!ReplayTransition(r) PROVE OthersKept(t) /\ Answered(r)
  BY <1>8 DEF Trade!ReplayTransition, OthersKept, Answered
<1>9. \A e \in Reports : e.key \in FactKeys /\ e.body \in Bodies
  BY LedgerConstants DEF Trade!TradeConstants
<1>. QED BY <1>1, <1>2, <1>3, <1>4, <1>5, <1>6, <1>7, <1>8, <1>9 DEF Trade!Call

-----------------------------------------------------------------------------
(* Row and journal. *)

\* RowIsJournalHead for one trade.
HeadOf(t) ==
  LET j == journal[t]
  IN  /\ Len(j) = row[t].version + 1
      /\ \A i \in 1..(Len(j) - 1) : j[i + 1].from = j[i].to
      /\ row[t].state = j[Len(j)].to /\ row[t].filled = j[Len(j)].filled
      /\ row[t].firstFill = j[Len(j)].firstFill /\ row[t].ids = j[Len(j)].ids

HeadInv == FreshIsEmpty /\ JournalStarts /\ Trade!RowIsJournalHead

\* The entry that a transition appends: it starts where the row is and holds the
\* values the row is given.
LEMMA AdvancedHead ==
  ASSUME Trade!TypeOK, HeadInv, NEW t \in Trades, NEW r \in Requests,
         NEW k \in FactKeys \cup {None}, Advanced(t, r, k)
  PROVE  /\ row[t].exists /\ Len(journal[t]) \in Nat \ {0} /\ row[t].version \in Nat
         /\ Len(journal[t]) = row[t].version + 1
         /\ Len(journal'[t]) = Len(journal[t]) + 1
         /\ DOMAIN journal[t] = 1..Len(journal[t]) /\ DOMAIN journal'[t] = 1..(Len(journal[t]) + 1)
         /\ \A i \in 1..Len(journal[t]) : journal'[t][i] = journal[t][i]
         /\ journal'[t][Len(journal[t]) + 1] = Trade!EntryAfter(r, k)
         /\ Trade!EntryAfter(r, k).from = journal[t][Len(journal[t])].to
         /\ Trade!EntryAfter(r, k).to = r.target /\ Trade!EntryAfter(r, k).body = r.body
         /\ Trade!EntryAfter(r, k).cause = k
         /\ Trade!EntryAfter(r, k).filled = row'[t].filled
         /\ Trade!EntryAfter(r, k).firstFill = row'[t].firstFill
         /\ Trade!EntryAfter(r, k).ids = row'[t].ids
<1>1. r.trade = t /\ Trade!MayTransition(r) /\ row[t].exists /\ row[t].version \in Nat
  BY DEF Advanced, Trade!MayTransition, Trade!TypeOK, Trade!Rows
<1>2. HeadOf(t)
  BY <1>1 DEF HeadInv, Trade!RowIsJournalHead, HeadOf
<1>3. journal[t] \in Seq(Trade!Entries) /\ Trade!EntryAfter(r, k) \in Trade!Entries
  BY <1>1, AfterType DEF Trade!TypeOK
<1>4. journal'[t] = Append(journal[t], Trade!EntryAfter(r, k))
  BY DEF Advanced
<1>5. /\ Len(journal[t]) \in Nat \ {0}
      /\ Len(journal'[t]) = Len(journal[t]) + 1
      /\ DOMAIN journal[t] = 1..Len(journal[t]) /\ DOMAIN journal'[t] = 1..(Len(journal[t]) + 1)
      /\ \A i \in 1..Len(journal[t]) : journal'[t][i] = journal[t][i]
      /\ journal'[t][Len(journal[t]) + 1] = Trade!EntryAfter(r, k)
  BY <1>1, <1>2, <1>3, <1>4, AppendFacts DEF HeadOf
<1>6. /\ Trade!EntryAfter(r, k).from = row[t].state
      /\ Trade!EntryAfter(r, k).to = r.target /\ Trade!EntryAfter(r, k).body = r.body
      /\ Trade!EntryAfter(r, k).cause = k
      /\ Trade!EntryAfter(r, k).filled = Trade!Effective(r, row[t]).filled
      /\ Trade!EntryAfter(r, k).firstFill = Trade!Effective(r, row[t]).firstFill
      /\ Trade!EntryAfter(r, k).ids = Trade!Effective(r, row[t]).ids
  BY <1>1 DEF Trade!EntryAfter
<1>. QED BY <1>1, <1>2, <1>5, <1>6 DEF HeadOf, Advanced

\* The row stays the head of its journal.
LEMMA HeadStep ==
  ASSUME Trade!TypeOK, HeadInv, NEW t \in Trades, Trade!Call(t)
  PROVE  HeadInv'
<1>1. /\ OthersKept(t)
      /\ \/ Quiet(t)
         \/ \E r \in Requests : Answered(r)
         \/ \E r \in Requests : AdvancedAlone(t, r)
         \/ \E r \in Requests, f \in Trade!Facts : AdvancedWith(t, r, f)
  BY TradeShapes DEF HeadInv
<1>2. CASE \E r \in Requests : Answered(r)
  BY <1>2 DEF Answered, HeadInv, FreshIsEmpty, JournalStarts, Trade!RowIsJournalHead
<1>3. ASSUME row'[t].exists, HeadOf(t)', journal'[t][1] = Trade!CreatedEntry
      PROVE  HeadInv'
  <2>1. ASSUME NEW u \in Trades, u # t
        PROVE  /\ ~row'[u].exists => row'[u] = Trade!NoRow /\ journal'[u] = <<>>
                                     /\ facts'[u] = {} /\ outbox'[u] = <<>>
               /\ row'[u].exists => HeadOf(u)' /\ journal'[u][1] = Trade!CreatedEntry
    <3>1. UNCHANGED <<row[u], journal[u], facts[u], outbox[u]>>
      BY <1>1, <2>1 DEF OthersKept
    <3>. QED BY <3>1 DEF HeadInv, FreshIsEmpty, JournalStarts, Trade!RowIsJournalHead, HeadOf
  <2>2. FreshIsEmpty' /\ JournalStarts'
    BY <1>3, <2>1 DEF FreshIsEmpty, JournalStarts, Trade!NoRow, Trade!CreatedEntry, Trade!NoIds
  <2>3. \A u \in Trades : row'[u].exists => HeadOf(u)'
    BY <1>3, <2>1
  <2>. QED BY <2>2, <2>3 DEF HeadInv, HeadOf, Trade!RowIsJournalHead
<1>4. CASE Kept(t)
  <2>1. HeadOf(t)
    BY <1>4 DEF Kept, HeadInv, Trade!RowIsJournalHead, HeadOf
  <2>2. HeadOf(t)'
    BY <2>1, <1>4 DEF Kept, HeadOf
  <2>3. row'[t].exists /\ journal'[t][1] = Trade!CreatedEntry
    BY <1>4 DEF Kept, HeadInv, JournalStarts
  <2>. QED BY <1>3, <2>2, <2>3
<1>5. CASE Begun(t)
  <2>1. /\ row'[t].exists /\ journal'[t] = <<Trade!CreatedEntry>>
        /\ Len(journal'[t]) = 1 /\ journal'[t][1] = Trade!CreatedEntry
    BY <1>5 DEF Begun
  <2>2. HeadOf(t)'
    BY <1>5, <2>1 DEF Begun, HeadOf, Trade!CreatedEntry
  <2>. QED BY <1>3, <2>1, <2>2
<1>6. ASSUME NEW r \in Requests, NEW k \in FactKeys \cup {None}, Advanced(t, r, k)
      PROVE  HeadInv'
  <2>1. row'[t].exists /\ row'[t].state = r.target /\ row'[t].version = row[t].version + 1
    BY <1>6 DEF Advanced
  <2>2. HeadOf(t) /\ journal[t][1] = Trade!CreatedEntry
    BY <1>6, AdvancedHead DEF HeadInv, Trade!RowIsJournalHead, HeadOf, JournalStarts
  <2>3. journal'[t][1] = Trade!CreatedEntry
    BY <1>6, <2>2, AdvancedHead
  <2>. DEFINE n == Len(journal[t])
  <2>4. \A i \in 1..n : journal'[t][i + 1].from = journal'[t][i].to
    <3>1. TAKE i \in 1..n
    <3>2. n \in Nat \ {0}
      BY <1>6, AdvancedHead
    <3>3. CASE i = n
      BY <1>6, <3>2, <3>3, AdvancedHead
    <3>4. CASE i # n
      <4>1. i \in 1..(n - 1) /\ i + 1 \in 1..n
        BY <3>1, <3>2, <3>4
      <4>2. journal[t][i + 1].from = journal[t][i].to
        BY <2>2, <4>1 DEF HeadOf
      <4>. QED BY <1>6, <4>1, <4>2, AdvancedHead
    <3>. QED BY <3>3, <3>4
  <2>5. HeadOf(t)'
    <3>1. n \in Nat \ {0} /\ Len(journal'[t]) = n + 1 /\ n = row[t].version + 1
      BY <1>6, AdvancedHead
    <3>2. /\ row'[t].state = journal'[t][n + 1].to /\ row'[t].filled = journal'[t][n + 1].filled
          /\ row'[t].firstFill = journal'[t][n + 1].firstFill /\ row'[t].ids = journal'[t][n + 1].ids
      BY <1>6, <2>1, AdvancedHead
    <3>. QED BY <2>1, <2>4, <3>1, <3>2 DEF HeadOf
  <2>. QED BY <1>3, <2>1, <2>3, <2>5
<1>7. \A r \in Requests : r.key \in FactKeys
  BY LedgerConstants DEF Trade!TradeConstants, Trade!RequestType
<1>. QED BY <1>1, <1>2, <1>4, <1>5, <1>6, <1>7 DEF Quiet, AdvancedAlone, AdvancedWith

-----------------------------------------------------------------------------
(* Facts and numbers. *)

\* The numbers of a trade's facts and events have been drawn.
NumbersAreDrawn ==
  \A t \in Trades :
    /\ \A f \in facts[t] : f.seq < row[t].nextSeq
    /\ \A i \in DOMAIN outbox[t] : outbox[t][i].seq < row[t].nextSeq

\* The conjuncts of FactsFollowJournal for one trade.
FactsAgree(t) ==
  \A f \in facts[t] : f.version < Len(journal[t]) /\ journal[t][f.version + 1].to = f.state
FactsDiffer(t) ==
  \A f, g \in facts[t] : f.seq = g.seq \/ f.key = g.key => f = g
FactsInOrder(t) ==
  \A f, g \in facts[t] : f.seq < g.seq => f.version <= g.version
FactsArePublished(t) ==
  \A f \in facts[t] : \E i \in DOMAIN outbox[t] : outbox[t][i] = Trade!Event(f)
OutboxInOrder(t) ==
  \A i, h \in DOMAIN outbox[t] : i < h => outbox[t][i].seq < outbox[t][h].seq
NumbersDrawn(t) ==
  /\ \A f \in facts[t] : f.seq < row[t].nextSeq
  /\ \A i \in DOMAIN outbox[t] : outbox[t][i].seq < row[t].nextSeq
NoGap(t) == {f.seq : f \in facts[t]} = 1..(row[t].nextSeq - 1)

\* What a call leaves of a trade's past: its entries, one after the other, and
\* its facts.
PastKept(t) ==
  /\ journal'[t] \in Seq(Trade!Entries) /\ journal[t] \in Seq(Trade!Entries)
  /\ Len(journal[t]) <= Len(journal'[t])
  /\ \A i \in 1..Len(journal[t]) : journal'[t][i] = journal[t][i]
  /\ facts[t] \subseteq facts'[t]

\* A call appends to a journal and changes no earlier entry of any trade.
LEMMA PastStep ==
  ASSUME Trade!TypeOK, HeadInv, NEW t \in Trades, Trade!Call(t), NEW u \in Trades
  PROVE  PastKept(u)
<1>0. /\ journal'[u] \in Seq(Trade!Entries) /\ journal[u] \in Seq(Trade!Entries)
      /\ Len(journal[u]) \in Nat
  BY TradeTypeStep DEF Trade!TypeOK
<1>1. /\ OthersKept(t)
      /\ \/ Quiet(t)
         \/ \E r \in Requests : Answered(r)
         \/ \E r \in Requests : AdvancedAlone(t, r)
         \/ \E r \in Requests, f \in Trade!Facts : AdvancedWith(t, r, f)
  BY TradeShapes DEF HeadInv
<1>2. CASE u # t \/ \E r \in Requests : Answered(r)
  <2>1. journal'[u] = journal[u] /\ facts'[u] = facts[u]
    BY <1>1, <1>2 DEF OthersKept, Answered
  <2>. QED BY <1>0, <2>1 DEF PastKept
<1>3. CASE u = t /\ Quiet(t)
  <2>1. facts[t] \subseteq facts'[t]
    BY <1>3 DEF Quiet, Silent, Told
  <2>2. CASE Kept(t)
    BY <1>0, <1>3, <2>1, <2>2 DEF Kept, PastKept
  <2>3. CASE Begun(t)
    <3>1. journal[t] = <<>> /\ Len(journal'[t]) = 1
      BY <2>3 DEF Begun, HeadInv, FreshIsEmpty
    <3>. QED BY <1>0, <1>3, <2>1, <3>1 DEF PastKept
  <2>. QED BY <1>3, <2>2, <2>3 DEF Quiet
<1>4. ASSUME NEW r \in Requests, NEW k \in FactKeys \cup {None}, Advanced(t, r, k), u = t,
             facts[t] \subseteq facts'[t]
      PROVE  PastKept(u)
  <2>1. /\ Len(journal'[t]) = Len(journal[t]) + 1
        /\ \A i \in 1..Len(journal[t]) : journal'[t][i] = journal[t][i]
    BY <1>4, AdvancedHead
  <2>. QED BY <1>0, <1>4, <2>1 DEF PastKept
<1>5. ASSUME u = t, NEW r \in Requests, AdvancedAlone(t, r) PROVE PastKept(u)
  BY <1>4, <1>5 DEF AdvancedAlone, Silent
<1>6. ASSUME u = t, NEW r \in Requests, NEW f \in Trade!Facts, AdvancedWith(t, r, f)
      PROVE  PastKept(u)
  <2>1. r.key \in FactKeys
    BY LedgerConstants DEF Trade!TradeConstants, Trade!RequestType
  <2>. QED BY <1>4, <1>6, <2>1 DEF AdvancedWith, Told
<1>. QED BY <1>1, <1>2, <1>3, <1>5, <1>6

\* The numbers of the events in an outbox.
LEMMA EventNumbers ==
  ASSUME NEW q \in Seq(Trade!Events), NEW i \in DOMAIN q
  PROVE  q[i].seq \in Nat
<1>1. q[i] \in Trade!Events
  OBVIOUS
<1>. QED BY <1>1, LedgerConstants DEF Trade!Events, Trade!TradeConstants

\* Facts of a trade that a call did not tell about anew.
LEMMA SilentFacts ==
  ASSUME Trade!TypeOK, Trade!TypeOK', NEW t \in Trades, PastKept(t), Silent(t),
         FactsAgree(t), FactsDiffer(t), FactsInOrder(t), FactsArePublished(t), OutboxInOrder(t),
         NumbersDrawn(t)
  PROVE  /\ FactsAgree(t)' /\ FactsDiffer(t)' /\ FactsInOrder(t)' /\ FactsArePublished(t)'
         /\ OutboxInOrder(t)' /\ NumbersDrawn(t)'
         /\ NoGap(t) /\ t \notin LegacyCalls => NoGap(t)'
<1>0. /\ facts[t] \subseteq Trade!Facts /\ row[t].nextSeq \in Nat /\ facts'[t] = facts[t]
      /\ outbox'[t] = outbox[t] /\ outbox[t] \in Seq(Trade!Events)
  BY LedgerConstants DEF Trade!TypeOK, Silent, Trade!Rows, Trade!TradeConstants
<1>1. FactsAgree(t)'
  <2>1. SUFFICES ASSUME NEW f \in facts'[t]
                 PROVE  f.version < Len(journal'[t]) /\ journal'[t][f.version + 1].to = f.state
    BY DEF FactsAgree
  <2>2. f \in facts[t] /\ f.version \in Nat /\ f.version < Len(journal[t])
    BY <1>0 DEF Trade!Facts, FactsAgree
  <2>3. f.version + 1 \in 1..Len(journal[t]) /\ f.version < Len(journal'[t])
    BY <2>2 DEF PastKept
  <2>. QED BY <2>2, <2>3 DEF PastKept, FactsAgree
<1>2. FactsDiffer(t)' /\ FactsInOrder(t)' /\ FactsArePublished(t)' /\ OutboxInOrder(t)'
  BY <1>0 DEF FactsDiffer, FactsInOrder, FactsArePublished, OutboxInOrder
<1>3. NumbersDrawn(t)'
  <2>1. row'[t].nextSeq >= row[t].nextSeq /\ row'[t].nextSeq \in Nat
    BY <1>0 DEF Silent
  <2>2. \A f \in facts[t] : f.seq \in Nat
    BY <1>0, LedgerConstants DEF Trade!Facts, Trade!TradeConstants
  <2>3. \A i \in DOMAIN outbox[t] : outbox[t][i].seq \in Nat
    BY <1>0, EventNumbers
  <2>. QED BY <1>0, <2>1, <2>2, <2>3 DEF NumbersDrawn
<1>4. NoGap(t) /\ t \notin LegacyCalls => NoGap(t)'
  BY <1>0 DEF NoGap, Silent
<1>. QED BY <1>1, <1>2, <1>3, <1>4

\* One fact more, about the version and the state the call leaves.
LEMMA ToldFacts ==
  ASSUME Trade!TypeOK, Trade!TypeOK', NEW t \in Trades, PastKept(t), HeadInv',
         NEW f \in Trade!Facts, Told(t, f), row'[t].exists,
         FactsAgree(t), FactsDiffer(t), FactsInOrder(t), FactsArePublished(t), OutboxInOrder(t),
         NumbersDrawn(t)
  PROVE  /\ FactsAgree(t)' /\ FactsDiffer(t)' /\ FactsInOrder(t)' /\ FactsArePublished(t)'
         /\ OutboxInOrder(t)' /\ NumbersDrawn(t)'
         /\ NoGap(t) => NoGap(t)'
<1>0. /\ facts[t] \subseteq Trade!Facts /\ row[t].nextSeq \in Nat \ {0}
      /\ outbox[t] \in Seq(Trade!Events) /\ outbox'[t] \in Seq(Trade!Events)
      /\ journal[t] \in Seq(Trade!Entries) /\ journal'[t] \in Seq(Trade!Entries)
  BY LedgerConstants DEF Trade!TypeOK, Trade!Rows, Trade!TradeConstants
<1>1. /\ Trade!FactOf(t, f.key) = {} /\ f.seq = row[t].nextSeq /\ f.version = row'[t].version
      /\ f.state = row'[t].state /\ facts'[t] = facts[t] \cup {f}
      /\ outbox'[t] = Append(outbox[t], Trade!Event(f)) /\ row'[t].nextSeq = row[t].nextSeq + 1
  BY DEF Told
<1>2. /\ Len(journal'[t]) = row'[t].version + 1 /\ row'[t].version \in Nat
      /\ journal'[t][Len(journal'[t])].to = row'[t].state
  BY DEF HeadInv, Trade!RowIsJournalHead, Trade!TypeOK, Trade!Rows
<1>3. \A g \in facts[t] : g.seq \in Nat /\ g.version \in Nat /\ g.seq < row[t].nextSeq
  BY <1>0, LedgerConstants DEF Trade!Facts, Trade!TradeConstants, NumbersDrawn
<1>4. /\ Trade!Event(f) \in Trade!Events /\ Trade!Event(f).seq = row[t].nextSeq
  BY <1>1 DEF Trade!Event, Trade!Facts, Trade!Events
<1>5. /\ Len(outbox[t]) \in Nat /\ DOMAIN outbox[t] = 1..Len(outbox[t])
      /\ DOMAIN outbox'[t] = 1..(Len(outbox[t]) + 1)
      /\ \A i \in 1..Len(outbox[t]) : outbox'[t][i] = outbox[t][i]
      /\ outbox'[t][Len(outbox[t]) + 1] = Trade!Event(f)
  BY <1>0, <1>1, <1>4, AppendFacts
<1>6. FactsAgree(t)'
  <2>1. \A g \in facts[t] : g.version < Len(journal'[t]) /\ journal'[t][g.version + 1].to = g.state
    <3>1. TAKE g \in facts[t]
    <3>2. g.version \in Nat /\ g.version < Len(journal[t]) /\ journal[t][g.version + 1].to = g.state
      BY <1>3 DEF FactsAgree
    <3>3. g.version + 1 \in 1..Len(journal[t]) /\ g.version < Len(journal'[t])
      BY <1>0, <3>2 DEF PastKept
    <3>. QED BY <3>2, <3>3 DEF PastKept
  <2>2. f.version < Len(journal'[t]) /\ journal'[t][f.version + 1].to = f.state
    BY <1>1, <1>2
  <2>. QED BY <1>1, <2>1, <2>2 DEF FactsAgree
<1>7. FactsDiffer(t)'
  <2>1. \A g \in facts[t] : g.seq # f.seq /\ g.key # f.key
    BY <1>1, <1>3 DEF Trade!FactOf
  <2>. QED BY <1>1, <2>1 DEF FactsDiffer
<1>8. FactsInOrder(t)'
  <2>1. \A g \in facts[t] : g.version <= f.version /\ ~(f.seq < g.seq)
    <3>1. TAKE g \in facts[t]
    <3>2. g \in facts'[t]
      BY <1>1
    <3>3. g.version < Len(journal'[t])
      BY <1>6, <3>2 DEF FactsAgree
    <3>4. g.version \in Nat /\ g.seq \in Nat /\ g.seq < f.seq
      BY <1>1, <1>3
    <3>5. g.version <= f.version
      BY <1>1, <1>2, <3>3, <3>4
    <3>. QED BY <1>0, <1>1, <3>4, <3>5
  <2>2. f.version <= f.version
    BY <1>1, <1>2
  <2>. QED BY <1>1, <2>1, <2>2 DEF FactsInOrder
<1>9. FactsArePublished(t)'
  <2>1. \A g \in facts[t] : \E i \in DOMAIN outbox'[t] : outbox'[t][i] = Trade!Event(g)
    BY <1>5 DEF FactsArePublished
  <2>2. \E i \in DOMAIN outbox'[t] : outbox'[t][i] = Trade!Event(f)
    BY <1>5
  <2>. QED BY <1>1, <2>1, <2>2 DEF FactsArePublished
<1>10. OutboxInOrder(t)'
  <2>1. \A i \in 1..Len(outbox[t]) : outbox[t][i].seq < Trade!Event(f).seq
    BY <1>4, <1>5 DEF NumbersDrawn
  <2>2. SUFFICES ASSUME NEW i \in DOMAIN outbox'[t], NEW h \in DOMAIN outbox'[t], i < h
                 PROVE  outbox'[t][i].seq < outbox'[t][h].seq
    BY DEF OutboxInOrder
  <2>3. i < h
    BY <2>2
  <2>4. i \in 1..Len(outbox[t])
    BY <1>5, <2>3
  <2>5. CASE h = Len(outbox[t]) + 1
    BY <1>5, <2>1, <2>4, <2>5
  <2>6. CASE h \in 1..Len(outbox[t])
    BY <1>5, <2>3, <2>4, <2>6 DEF OutboxInOrder
  <2>. QED BY <1>5, <2>5, <2>6
<1>11. NumbersDrawn(t)'
  <2>1. \A g \in facts'[t] : g.seq < row'[t].nextSeq
    BY <1>0, <1>1, <1>3
  <2>2. \A i \in 1..Len(outbox[t]) : outbox[t][i].seq \in Nat /\ outbox[t][i].seq < row[t].nextSeq
    BY <1>0, <1>5, EventNumbers DEF NumbersDrawn
  <2>3. \A i \in DOMAIN outbox'[t] : outbox'[t][i].seq < row'[t].nextSeq
    BY <1>0, <1>1, <1>4, <1>5, <2>2
  <2>. QED BY <2>1, <2>3 DEF NumbersDrawn
<1>12. NoGap(t) => NoGap(t)'
  <2>1. HAVE NoGap(t)
  <2>2. {g.seq : g \in facts'[t]} = {g.seq : g \in facts[t]} \cup {row[t].nextSeq}
    BY <1>1
  <2>3. 1..(row'[t].nextSeq - 1) = 1..(row[t].nextSeq - 1) \cup {row[t].nextSeq}
    BY <1>0, <1>1
  <2>. QED BY <2>1, <2>2, <2>3 DEF NoGap
<1>. QED BY <1>6, <1>7, <1>8, <1>9, <1>10, <1>11, <1>12

\* The conjunct of OneAdvancePerFact for one trade.
OneAdvance(t) ==
  \A i \in DOMAIN journal[t] :
    journal[t][i].cause # None =>
      /\ \A h \in DOMAIN journal[t] : journal[t][h].cause = journal[t][i].cause => h = i
      /\ \E f \in facts[t] : f.key = journal[t][i].cause /\ f.version = i - 1

\* A call without a transition.
LEMMA OneAdvanceQuiet ==
  ASSUME Trade!TypeOK, HeadInv, NEW t \in Trades, Quiet(t), OneAdvance(t)
  PROVE  OneAdvance(t)'
<1>1. facts[t] \subseteq facts'[t]
  BY DEF Quiet, Silent, Told
<1>2. CASE Kept(t)
  BY <1>1, <1>2 DEF Kept, OneAdvance
<1>3. CASE Begun(t)
  <2>1. DOMAIN journal'[t] = {1} /\ journal'[t][1].cause = None
    BY <1>3 DEF Begun, Trade!CreatedEntry
  <2>. QED BY <2>1 DEF OneAdvance
<1>. QED BY <1>2, <1>3 DEF Quiet

\* A transition: the entry it appends is without a cause, or its cause is new and
\* the fact is written with it.
LEMMA OneAdvanceAdvanced ==
  ASSUME Trade!TypeOK, HeadInv, NEW t \in Trades, NEW r \in Requests,
         NEW k \in FactKeys \cup {None}, Advanced(t, r, k), OneAdvance(t),
         facts[t] \subseteq facts'[t],
         k # None => /\ \A f \in facts[t] : f.key # k
                     /\ \E f \in facts'[t] : f.key = k /\ f.version = row[t].version + 1
  PROVE  OneAdvance(t)'
<1>. DEFINE n == Len(journal[t])
<1>1. /\ n \in Nat \ {0} /\ n = row[t].version + 1
      /\ DOMAIN journal[t] = 1..n /\ DOMAIN journal'[t] = 1..(n + 1)
      /\ \A i \in 1..n : journal'[t][i] = journal[t][i]
      /\ journal'[t][n + 1].cause = k
  BY AdvancedHead
<1>. HIDE DEF n
<1>2. SUFFICES ASSUME NEW i \in 1..(n + 1), journal'[t][i].cause # None
               PROVE  /\ \A h \in 1..(n + 1) : journal'[t][h].cause = journal'[t][i].cause => h = i
                      /\ \E f \in facts'[t] : f.key = journal'[t][i].cause /\ f.version = i - 1
  BY <1>1 DEF OneAdvance
<1>3. \A h \in 1..n : journal[t][h].cause # None => journal[t][h].cause # k
  <2>1. SUFFICES ASSUME NEW h \in 1..n, journal[t][h].cause # None, journal[t][h].cause = k
                 PROVE  FALSE
    OBVIOUS
  <2>2. \E f \in facts[t] : f.key = journal[t][h].cause
    BY <1>1, <2>1 DEF OneAdvance
  <2>. QED BY <2>1, <2>2
<1>4. CASE i = n + 1
  <2>1. k # None /\ i - 1 = row[t].version + 1
    BY <1>1, <1>2, <1>4
  <2>2. \E f \in facts'[t] : f.key = k /\ f.version = i - 1
    BY <2>1
  <2>3. \A h \in 1..(n + 1) : journal'[t][h].cause = k => h = n + 1
    BY <1>1, <1>3, <2>1
  <2>. QED BY <1>1, <1>4, <2>2, <2>3
<1>5. CASE i \in 1..n
  <2>1. journal[t][i].cause # None /\ journal'[t][i].cause = journal[t][i].cause
    BY <1>1, <1>2, <1>5
  <2>2. /\ \A h \in 1..n : journal[t][h].cause = journal[t][i].cause => h = i
        /\ \E f \in facts[t] : f.key = journal[t][i].cause /\ f.version = i - 1
    BY <1>1, <1>5, <2>1 DEF OneAdvance
  <2>3. journal'[t][n + 1].cause # journal[t][i].cause
    BY <1>1, <1>3, <1>5, <2>1
  <2>4. ASSUME NEW h \in 1..(n + 1), journal'[t][h].cause = journal'[t][i].cause PROVE h = i
    <3>1. h \in 1..n
      BY <1>1, <2>1, <2>3, <2>4
    <3>. QED BY <1>1, <2>1, <2>2, <2>4, <3>1
  <2>. QED BY <2>1, <2>2, <2>4
<1>. QED BY <1>1, <1>4, <1>5

-----------------------------------------------------------------------------
(* Answers. *)

\* A request that was answered is answered in the same way after every call.
LEMMA AnswerStays ==
  ASSUME Trade!TypeOK, NEW r \in Requests, PastKept(r.trade), FactsAgree(r.trade),
         Trade!ReplayAnswered(r)
  PROVE  Trade!ReplayAnswered(r)'
<1>. DEFINE t == r.trade
<1>1. PICK f \in facts[t] :
        /\ f.key = r.key /\ f.state = r.target /\ f.version > 0
        /\ Trade!ReplayAgrees(r, f) /\ r.said = f.state /\ r.body = f.body
  BY DEF Trade!ReplayAnswered, Trade!FactOf
<1>2. t \in Trades /\ f.version \in Nat /\ f \in facts'[t] /\ Len(journal[t]) \in Nat
  BY LedgerConstants
     DEF Trade!TradeConstants, Trade!RequestType, Trade!TypeOK, Trade!Facts, PastKept
<1>3. f.version \in 1..Len(journal[t]) /\ f.version + 1 \in 1..Len(journal[t])
  BY <1>1, <1>2 DEF FactsAgree
<1>4. /\ journal'[t][f.version] = journal[t][f.version]
      /\ journal'[t][f.version + 1] = journal[t][f.version + 1]
  BY <1>3 DEF PastKept
<1>5. Trade!ReplayAgrees(r, f)'
  BY <1>1, <1>4 DEF Trade!ReplayAgrees
<1>. QED BY <1>1, <1>2, <1>5 DEF Trade!ReplayAnswered, Trade!FactOf

\* A request that advances a trade together with its fact is answerable from then
\* on: the entry before the fact's is the head it started from.
LEMMA AnswerBegins ==
  ASSUME Trade!TypeOK, HeadInv, NEW t \in Trades, NEW r \in Requests,
         NEW f \in Trade!Facts, AdvancedWith(t, r, f)
  PROVE  Trade!ReplayAnswered(r)'
<1>. DEFINE n == Len(journal[t])
            old == journal[t][n]
            e == Trade!EntryAfter(r, r.key)
<1>0. r.key \in FactKeys /\ Advanced(t, r, r.key) /\ r.trade = t
  BY LedgerConstants DEF Trade!TradeConstants, Trade!RequestType, AdvancedWith, Advanced
<1>1. /\ n \in Nat \ {0} /\ n = row[t].version + 1 /\ row[t].exists
      /\ journal'[t][n] = old /\ journal'[t][n + 1] = e
      /\ e.from = old.to /\ e.to = r.target /\ e.body = r.body
      /\ e.filled = row'[t].filled /\ e.firstFill = row'[t].firstFill /\ e.ids = row'[t].ids
  BY <1>0, AdvancedHead
<1>2. /\ old.filled = row[t].filled /\ old.firstFill = row[t].firstFill /\ old.ids = row[t].ids
  BY <1>1 DEF HeadInv, Trade!RowIsJournalHead
<1>. HIDE DEF e, old, n
<1>3. Trade!Effective(r, old) = Trade!Effective(r, row[t])
  BY <1>2 DEF Trade!Effective
<1>4. Trade!Mergeable(r, old)
  <2>1. Trade!Mergeable(r, row[t])
    BY <1>0 DEF Advanced, Trade!MayTransition
  <2>. QED BY <1>2, <2>1 DEF Trade!Mergeable
<1>5. Trade!Effective(r, row[t]) = [filled |-> e.filled, firstFill |-> e.firstFill, ids |-> e.ids]
  <2>1. /\ e.filled = Trade!Effective(r, row[t]).filled
        /\ e.firstFill = Trade!Effective(r, row[t]).firstFill
        /\ e.ids = Trade!Effective(r, row[t]).ids
    BY <1>0, <1>1 DEF Advanced
  <2>. QED BY <2>1 DEF Trade!Effective
<1>6. /\ f.version = n /\ f.state = r.target /\ f \in facts'[t] /\ f.key = r.key
      /\ f.body = r.body /\ r.said = f.state
  BY <1>0, <1>1 DEF AdvancedWith, Told, Advanced
<1>7. Trade!ReplayAgrees(r, f)'
  BY <1>0, <1>1, <1>3, <1>4, <1>5, <1>6 DEF Trade!ReplayAgrees
<1>. QED BY <1>0, <1>1, <1>6, <1>7 DEF Trade!ReplayAnswered, Trade!FactOf

\* An answer names values that are recorded.
LEMMA AnswerIsRecorded ==
  ASSUME NEW r, Trade!ReplayAnswered(r)
  PROVE  \E f \in Trade!FactOf(r.trade, r.key) :
           LET e == journal[r.trade][f.version + 1]
           IN  /\ r.target = e.to /\ r.filled \in {None, e.filled}
               /\ r.firstFill \in {None, e.firstFill}
               /\ \A s \in Slots : r.ids[s] \in {None, e.ids[s]}
<1>1. PICK f \in Trade!FactOf(r.trade, r.key) : Trade!ReplayAgrees(r, f)
  BY DEF Trade!ReplayAnswered
<1>. DEFINE e == journal[r.trade][f.version + 1]
            before == journal[r.trade][f.version]
<1>2. /\ e.to = r.target /\ Trade!Mergeable(r, before)
      /\ Trade!Effective(r, before) = [filled |-> e.filled, firstFill |-> e.firstFill, ids |-> e.ids]
  BY <1>1 DEF Trade!ReplayAgrees
<1>. HIDE DEF e, before
<1>3. /\ e.filled = Trade!Given(r.filled, before.filled)
      /\ e.firstFill = Trade!Given(before.firstFill, r.firstFill)
      /\ e.ids = [s \in Slots |-> Trade!Given(r.ids[s], before.ids[s])]
  BY <1>2 DEF Trade!Effective
<1>4. /\ r.filled \in {None, e.filled} /\ r.firstFill \in {None, e.firstFill}
      /\ \A s \in Slots : r.ids[s] \in {None, e.ids[s]}
  BY <1>2, <1>3 DEF Trade!Mergeable, Trade!Given
<1>. QED BY <1>1, <1>2, <1>4 DEF e

-----------------------------------------------------------------------------
(* The story. *)

FactsHold(t) ==
  /\ FactsAgree(t) /\ FactsDiffer(t) /\ FactsInOrder(t) /\ FactsArePublished(t)
  /\ OutboxInOrder(t) /\ NumbersDrawn(t)

\* The inductive invariant.  Beyond StoryIsExact it says that a trade that does not
\* exist has nothing, that journals start with the creation and that the numbers
\* in use were drawn.
StoryInv ==
  /\ Trade!TypeOK /\ HeadInv
  /\ \A t \in Trades : FactsHold(t) /\ OneAdvance(t)
  /\ \A t \in Trades \ LegacyCalls : NoGap(t)
  /\ Trade!RetryStaysAnswerable

\* The invariant gives the property.
LEMMA StoryFollows ==
  ASSUME StoryInv
  PROVE  StoryIsExact
<1>1. Trade!RowIsJournalHead
  BY DEF StoryInv, HeadInv
<1>2. Trade!OneAdvancePerFact
  BY DEF StoryInv, OneAdvance, Trade!OneAdvancePerFact, Trade!FactOf
<1>3. Trade!FactsFollowJournal
  <2>1. SUFFICES ASSUME NEW t \in Trades
                 PROVE  /\ \A f \in facts[t] :
                             /\ f.version < Len(journal[t]) /\ journal[t][f.version + 1].to = f.state
                             /\ \A g \in facts[t] : f.seq = g.seq \/ f.key = g.key => f = g
                             /\ \A g \in facts[t] : f.seq < g.seq => f.version <= g.version
                             /\ \E i \in DOMAIN outbox[t] : outbox[t][i] = Trade!Event(f)
                        /\ \A i, h \in DOMAIN outbox[t] : i < h => outbox[t][i].seq < outbox[t][h].seq
    BY DEF Trade!FactsFollowJournal
  <2>2. /\ FactsAgree(t) /\ FactsDiffer(t) /\ FactsInOrder(t) /\ FactsArePublished(t)
        /\ OutboxInOrder(t)
    BY DEF StoryInv, FactsHold
  <2>. QED BY <2>2 DEF FactsAgree, FactsDiffer, FactsInOrder, FactsArePublished, OutboxInOrder
<1>4. Trade!NoGapInFacts
  BY DEF StoryInv, NoGap, Trade!NoGapInFacts
<1>5. Trade!AnswersAreRecorded
  BY AnswerIsRecorded DEF StoryInv, Trade!RetryStaysAnswerable, Trade!AnswersAreRecorded
<1>. QED BY <1>1, <1>2, <1>3, <1>4, <1>5 DEF StoryInv, StoryIsExact, Trade!StoryIsExact

\* Empty journals tell the story of rows that do not exist.
LEMMA StoryInit ==
  ASSUME Trade!Init
  PROVE  StoryInv
<1>1. Trade!NoRow \in Trade!Rows \/ Trades = {}
  <2>1. Trades # {} => 0 \in Trade!Fills
    BY LedgerConstants DEF Trade!TradeConstants, Trade!Fills
  <2>2. 1 \in 1..(MaxSeq + 1)
    BY LedgerConstants DEF Trade!TradeConstants
  <2>. QED BY <2>1, <2>2 DEF Trade!NoRow, Trade!Rows, Trade!States, Trade!FillTimes,
                             Trade!Identifiers, Trade!NoIds
<1>2. Trade!TypeOK
  BY <1>1 DEF Trade!Init, Trade!TypeOK
<1>3. ASSUME NEW t \in Trades
      PROVE  /\ row[t] = Trade!NoRow /\ ~row[t].exists /\ row[t].nextSeq = 1
             /\ journal[t] = <<>> /\ facts[t] = {} /\ outbox[t] = <<>>
  BY DEF Trade!Init, Trade!NoRow
<1>4. HeadInv
  BY <1>3 DEF HeadInv, FreshIsEmpty, JournalStarts, Trade!RowIsJournalHead
<1>5. ASSUME NEW t \in Trades PROVE FactsHold(t) /\ OneAdvance(t) /\ NoGap(t)
  BY <1>3 DEF FactsHold, FactsAgree, FactsDiffer, FactsInOrder, FactsArePublished, OutboxInOrder,
              NumbersDrawn, OneAdvance, NoGap
<1>. QED BY <1>2, <1>4, <1>5 DEF StoryInv, Trade!RetryStaysAnswerable, Trade!Init

\* One call on a trade preserves StoryInv, whatever it answers.
LEMMA StoryStep ==
  ASSUME StoryInv, NEW t \in Trades, Trade!Call(t)
  PROVE  StoryInv'
<1>0. Trade!TypeOK /\ HeadInv /\ Trade!TypeOK' /\ HeadInv' /\ \A u \in Trades : PastKept(u)
  BY TradeTypeStep, HeadStep, PastStep DEF StoryInv
<1>1. /\ OthersKept(t)
      /\ \/ Quiet(t)
         \/ \E r \in Requests : Answered(r)
         \/ \E r \in Requests : AdvancedAlone(t, r)
         \/ \E r \in Requests, f \in Trade!Facts : AdvancedWith(t, r, f)
  BY <1>0, TradeShapes DEF HeadInv
<1>2. ASSUME NEW u \in Trades, u # t \/ \E r \in Requests : Answered(r)
      PROVE  FactsHold(u)' /\ OneAdvance(u)' /\ (u \notin LegacyCalls => NoGap(u)')
  <2>1. UNCHANGED <<row[u], journal[u], facts[u], outbox[u]>>
    BY <1>1, <1>2 DEF OthersKept, Answered
  <2>2. FactsHold(u) /\ OneAdvance(u) /\ (u \notin LegacyCalls => NoGap(u))
    BY DEF StoryInv
  <2>. QED BY <2>1, <2>2
           DEF FactsHold, FactsAgree, FactsDiffer, FactsInOrder, FactsArePublished, OutboxInOrder,
               NumbersDrawn, OneAdvance, NoGap
<1>3. ASSUME Silent(t) PROVE FactsHold(t)' /\ (t \notin LegacyCalls => NoGap(t)')
  BY <1>0, <1>3, SilentFacts DEF StoryInv, FactsHold
<1>4. ASSUME NEW f \in Trade!Facts, Told(t, f), row'[t].exists
      PROVE  FactsHold(t)' /\ (t \notin LegacyCalls => NoGap(t)')
  BY <1>0, <1>4, ToldFacts DEF StoryInv, FactsHold
<1>5. \A r \in Requests : r.key \in FactKeys /\ r.key # None /\ r.trade \in Trades
  BY LedgerConstants DEF Trade!TradeConstants, Trade!RequestType
<1>6. \A r \in applied : Trade!ReplayAnswered(r)'
  <2>1. ASSUME NEW r \in applied PROVE Trade!ReplayAnswered(r)'
    <3>1. r \in Requests
      BY <1>0 DEF Trade!TypeOK
    <3>2. PastKept(r.trade) /\ FactsAgree(r.trade) /\ Trade!ReplayAnswered(r)
      BY <1>0, <1>5, <3>1 DEF StoryInv, FactsHold, Trade!RetryStaysAnswerable
    <3>. QED BY <1>0, <3>1, <3>2, AnswerStays
  <2>. QED BY <2>1
<1>7. ASSUME FactsHold(t)' /\ OneAdvance(t)' /\ (t \notin LegacyCalls => NoGap(t)'),
             \A r \in applied' : Trade!ReplayAnswered(r)'
      PROVE  StoryInv'
  <2>1. \A u \in Trades : FactsHold(u)' /\ OneAdvance(u)' /\ (u \notin LegacyCalls => NoGap(u)')
    BY <1>2, <1>7
  <2>2. Trade!RetryStaysAnswerable'
    BY <1>7 DEF Trade!RetryStaysAnswerable
  <2>. QED BY <1>0, <2>1, <2>2 DEF StoryInv
<1>8. CASE Quiet(t)
  <2>1. OneAdvance(t)' /\ row'[t].exists /\ applied' = applied
    BY <1>0, <1>8, OneAdvanceQuiet DEF StoryInv, Quiet, Kept, Begun
  <2>. QED BY <1>3, <1>4, <1>6, <1>7, <1>8, <2>1 DEF Quiet
<1>9. ASSUME NEW r \in Requests, Answered(r) PROVE StoryInv'
  <2>1. Trade!ReplayAnswered(r)'
    BY <1>9 DEF Answered, Trade!ReplayAnswered, Trade!FactOf, Trade!ReplayAgrees
  <2>2. \A q \in applied' : Trade!ReplayAnswered(q)'
    BY <1>6, <1>9, <2>1 DEF Answered
  <2>. QED BY <1>2, <1>7, <1>9, <2>2
<1>10. ASSUME NEW r \in Requests, AdvancedAlone(t, r) PROVE StoryInv'
  <2>1. Advanced(t, r, None) /\ Silent(t) /\ applied' = applied /\ facts[t] \subseteq facts'[t]
    BY <1>10 DEF AdvancedAlone, Silent
  <2>2. OneAdvance(t)'
    BY <1>0, <2>1, OneAdvanceAdvanced DEF StoryInv
  <2>. QED BY <1>3, <1>6, <1>7, <2>1, <2>2
<1>11. ASSUME NEW r \in Requests, NEW f \in Trade!Facts, AdvancedWith(t, r, f) PROVE StoryInv'
  <2>1. /\ Advanced(t, r, r.key) /\ Told(t, f) /\ applied' = applied \cup {r} /\ f.key = r.key
        /\ facts[t] \subseteq facts'[t] /\ f \in facts'[t] /\ row'[t].exists
        /\ f.version = row[t].version + 1 /\ \A g \in facts[t] : g.key # r.key
    BY <1>11 DEF AdvancedWith, Told, Advanced, Trade!FactOf
  <2>2. OneAdvance(t)'
    BY <1>0, <1>5, <2>1, OneAdvanceAdvanced DEF StoryInv
  <2>3. Trade!ReplayAnswered(r)'
    BY <1>0, <1>11, AnswerBegins
  <2>. QED BY <1>4, <1>6, <1>7, <2>1, <2>2, <2>3
<1>. QED BY <1>1, <1>8, <1>9, <1>10, <1>11

\* Nothing of a trade depends on the other parts.
LEMMA StoryStutter ==
  ASSUME StoryInv, UNCHANGED tradeVars
  PROVE  StoryInv'
<1>1. row' = row /\ journal' = journal /\ facts' = facts /\ outbox' = outbox /\ applied' = applied
  BY DEF tradeVars
<1>2. Trade!TypeOK' /\ HeadInv'
  BY <1>1 DEF StoryInv, Trade!TypeOK, HeadInv, FreshIsEmpty, JournalStarts, Trade!RowIsJournalHead
<1>3. \A t \in Trades : FactsHold(t)' /\ OneAdvance(t)'
  BY <1>1 DEF StoryInv, FactsHold, FactsAgree, FactsDiffer, FactsInOrder, FactsArePublished,
              OutboxInOrder, NumbersDrawn, OneAdvance
<1>4. \A t \in Trades \ LegacyCalls : NoGap(t)'
  BY <1>1 DEF StoryInv, NoGap
<1>5. Trade!RetryStaysAnswerable'
  BY <1>1 DEF StoryInv, Trade!RetryStaysAnswerable, Trade!ReplayAnswered, Trade!FactOf,
              Trade!ReplayAgrees
<1>. QED BY <1>2, <1>3, <1>4, <1>5 DEF StoryInv

\* A step of the composition is a call for one trade or leaves the trades alone.
LEMMA TradeStep ==
  ASSUME [Next]_vars
  PROVE  (\E t \in Trades : Trade!Call(t)) \/ UNCHANGED tradeVars
<1>1. CASE TradeNext
  BY <1>1, LedgerConstants DEF TradeNext
<1>2. CASE EquityNext \/ SourceNext \/ NewsNext
  BY <1>2 DEF EquityNext, SourceNext, NewsNext
<1>3. CASE UNCHANGED vars
  BY <1>3 DEF vars
<1>. QED BY <1>1, <1>2, <1>3 DEF Next

\* StoryInv holds of every state of the ledgers.
LEMMA StoryHolds == Spec => []StoryInv
<1>1. Init => StoryInv
  BY StoryInit DEF Init
<1>2. StoryInv /\ [Next]_vars => StoryInv'
  BY TradeStep, StoryStep, StoryStutter
<1>. QED BY <1>1, <1>2, PTL DEF Spec

\* For every set of trades, of requests and of reports, and however calls for one
\* trade are repeated, delayed and mixed with others: the row is the head of its
\* journal, a fact advances a trade once and with it, facts follow the journal
\* without a gap, and every answer given can be given again.
THEOREM StoryExact == Spec => []StoryIsExact
<1>1. StoryInv => StoryIsExact
  BY StoryFollows
<1>. QED BY <1>1, StoryHolds, PTL

-----------------------------------------------------------------------------
(* Exits. *)

\* Where the state machine leads.
LEMMA AllowedFacts ==
  ASSUME NEW s \in Trade!States
  PROVE  /\ s \in Trade!Terminal => Trade!Allowed(s) = {}
         /\ s \in Trade!Exits => Trade!Allowed(s) = {"FLAT", "FAILED_BLOCKED"}
         /\ s = "FAILED_BLOCKED" => Trade!Allowed(s) = {"EXITING_EMERGENCY", "FLAT"}
         /\ "FLAT" \in Trade!Allowed(s) => s \in Trade!Exits \cup {"FAILED_BLOCKED"}
<1>1. s \in Trade!Terminal => Trade!Allowed(s) = {}
  BY DEF Trade!Allowed, Trade!Terminal, Trade!Exits
<1>2. s \in Trade!Exits => Trade!Allowed(s) = {"FLAT", "FAILED_BLOCKED"}
  BY DEF Trade!Allowed, Trade!Terminal, Trade!Exits
<1>3. s = "FAILED_BLOCKED" => Trade!Allowed(s) = {"EXITING_EMERGENCY", "FLAT"}
  BY DEF Trade!Allowed, Trade!Terminal, Trade!Exits
<1>4. "FLAT" \in Trade!Allowed(s) => s \in Trade!Exits \cup {"FAILED_BLOCKED"}
  <2>1. CASE s \in Trade!Terminal
    BY <1>1, <2>1
  <2>2. CASE s \in {"RECEIVED", "ENTRY_PENDING", "PROTECTING", "ACTIVE"}
    BY <2>2 DEF Trade!Allowed, Trade!Terminal, Trade!Exits
  <2>. QED BY <2>1, <2>2 DEF Trade!States, Trade!Terminal, Trade!Exits
<1>. QED BY <1>1, <1>2, <1>3, <1>4

\* The two halves of OneExit for one trade.
ExitsApart(t) ==
  \A i, h \in DOMAIN journal[t] :
    i < h /\ journal[t][i].to \in Trade!Exits /\ journal[t][h].to \in Trade!Exits =>
      /\ journal[t][h].to = "EXITING_EMERGENCY"
      /\ \E m \in i..h : journal[t][m].to = "FAILED_BLOCKED"

\* An exit lasts until the trade is flat or was blocked.
ExitLasts(t) ==
  \A i \in DOMAIN journal[t] : journal[t][i].to \in Trade!Exits =>
    \/ \E m \in i..Len(journal[t]) : journal[t][m].to = "FAILED_BLOCKED"
    \/ row[t].state \in Trade!Exits \cup {"FLAT"}

\* A trade that was blocked once can only leave the market.
BlockLasts(t) ==
  (\E m \in DOMAIN journal[t] : journal[t][m].to = "FAILED_BLOCKED") =>
    row[t].state \in {"FAILED_BLOCKED", "EXITING_EMERGENCY", "FLAT"}

\* Fills only grow, with their time, and a cancelled trade has none.
FillsGrow(t) ==
  /\ \A i \in DOMAIN journal[t] : journal[t][i].filled <= row[t].filled
  /\ (row[t].filled > 0) <=> (row[t].firstFill # None)
  /\ row[t].state = "CANCELLED" => row[t].filled = 0

FlatHasExit(t) ==
  row[t].state = "FLAT" =>
    \E m \in DOMAIN journal[t] : journal[t][m].to \in Trade!Exits \cup {"FAILED_BLOCKED"}

ExitOf(t) ==
  /\ ExitsApart(t) /\ ExitLasts(t) /\ BlockLasts(t) /\ FillsGrow(t) /\ FlatHasExit(t)

ExitInv == \A t \in Trades : ExitOf(t)

\* A transition continues the journal by an entry that the state machine allows.
LEMMA ExitAdvanced ==
  ASSUME Trade!TypeOK, HeadInv, NEW t \in Trades, NEW r \in Requests,
         NEW k \in FactKeys \cup {None}, Advanced(t, r, k), ExitOf(t)
  PROVE  ExitOf(t)'
<1>. DEFINE n == Len(journal[t])
            j == journal[t]
            q == journal'[t]
            s == row[t].state
<1>1. /\ n \in Nat \ {0} /\ DOMAIN j = 1..n /\ DOMAIN q = 1..(n + 1) /\ Len(q) = n + 1
      /\ \A i \in 1..n : q[i] = j[i]
      /\ q[n + 1].to = r.target /\ q[n + 1].filled = row'[t].filled
  BY AdvancedHead
<1>2. s = j[n].to
  BY AdvancedHead DEF HeadInv, Trade!RowIsJournalHead
<1>3. r.trade = t /\ Trade!MayTransition(r) /\ row'[t].state = r.target
  BY DEF Advanced
<1>4. s \in Trade!States /\ r.target \in Trade!Allowed(s)
  BY <1>3 DEF Trade!MayTransition, Trade!TypeOK, Trade!Rows
<1>. HIDE DEF n, j, q, s
<1>5. /\ \A i \in 1..n : j[i].to \in Trade!Exits =>
           (\E m \in i..n : j[m].to = "FAILED_BLOCKED") \/ s \in Trade!Exits \cup {"FLAT"}
      /\ (\E m \in 1..n : j[m].to = "FAILED_BLOCKED") =>
           s \in {"FAILED_BLOCKED", "EXITING_EMERGENCY", "FLAT"}
  BY <1>1 DEF ExitOf, ExitLasts, BlockLasts, n, j, s
<1>6. "EXITING_EMERGENCY" \in Trade!Exits /\ "FLAT" \in Trade!Terminal
      /\ "FAILED_BLOCKED" \notin Trade!Exits /\ "FLAT" \notin Trade!Exits
  BY DEF Trade!Exits, Trade!Terminal
<1>7. ASSUME NEW i \in 1..n, j[i].to \in Trade!Exits, r.target \in Trade!Exits
      PROVE  r.target = "EXITING_EMERGENCY" /\ \E m \in i..(n + 1) : q[m].to = "FAILED_BLOCKED"
  <2>1. s \notin Trade!Exits \cup {"FLAT"}
    BY <1>4, <1>6, <1>7, AllowedFacts
  <2>2. PICK m \in i..n : j[m].to = "FAILED_BLOCKED"
    BY <1>5, <1>7, <2>1
  <2>3. s = "FAILED_BLOCKED"
    BY <1>1, <1>5, <1>6, <2>1, <2>2
  <2>4. r.target = "EXITING_EMERGENCY"
    BY <1>4, <1>6, <1>7, <2>3, AllowedFacts
  <2>. QED BY <1>1, <2>2, <2>4
<1>8. ExitsApart(t)'
  <2>1. SUFFICES ASSUME NEW i \in 1..(n + 1), NEW h \in 1..(n + 1), i < h,
                        q[i].to \in Trade!Exits, q[h].to \in Trade!Exits
                 PROVE  /\ q[h].to = "EXITING_EMERGENCY"
                        /\ \E m \in i..h : q[m].to = "FAILED_BLOCKED"
    BY <1>1 DEF ExitsApart, q
  <2>2. i \in 1..n /\ q[i] = j[i]
    BY <1>1, <2>1
  <2>3. CASE h = n + 1
    BY <1>1, <1>7, <2>1, <2>2, <2>3
  <2>4. CASE h \in 1..n
    <3>1. j[h].to = "EXITING_EMERGENCY" /\ \E m \in i..h : j[m].to = "FAILED_BLOCKED"
      BY <1>1, <2>1, <2>2, <2>4 DEF ExitOf, ExitsApart, j
    <3>. QED BY <1>1, <2>2, <2>4, <3>1
  <2>. QED BY <1>1, <2>3, <2>4
<1>9. ExitLasts(t)'
  <2>1. SUFFICES ASSUME NEW i \in 1..(n + 1), q[i].to \in Trade!Exits
                 PROVE  \/ \E m \in i..(n + 1) : q[m].to = "FAILED_BLOCKED"
                        \/ r.target \in Trade!Exits \cup {"FLAT"}
    BY <1>1, <1>3 DEF ExitLasts, q
  <2>2. CASE i = n + 1
    BY <1>1, <2>1, <2>2
  <2>3. CASE i \in 1..n /\ \E m \in i..n : j[m].to = "FAILED_BLOCKED"
    BY <1>1, <2>3
  <2>4. CASE i \in 1..n /\ s \in Trade!Exits \cup {"FLAT"}
    <3>1. r.target \in {"FLAT", "FAILED_BLOCKED"}
      BY <1>4, <1>6, <2>4, AllowedFacts
    <3>. QED BY <1>1, <2>4, <3>1
  <2>. QED BY <1>1, <1>5, <2>1, <2>2, <2>3, <2>4
<1>10. BlockLasts(t)'
  <2>1. SUFFICES ASSUME NEW m \in 1..(n + 1), q[m].to = "FAILED_BLOCKED"
                 PROVE  r.target \in {"FAILED_BLOCKED", "EXITING_EMERGENCY", "FLAT"}
    BY <1>1, <1>3 DEF BlockLasts, q
  <2>2. CASE m \in 1..n
    BY <1>1, <1>4, <1>5, <1>6, <2>1, <2>2, AllowedFacts
  <2>. QED BY <1>1, <2>1, <2>2
<1>11. FillsGrow(t)'
  <2>. DEFINE new == Trade!Effective(r, row[t])
  <2>1. /\ row[t].filled <= new.filled /\ Trade!FillFits(r.target, new.filled, new.firstFill)
        /\ row'[t].filled = new.filled /\ row'[t].firstFill = new.firstFill
        /\ new.filled \in Nat /\ row[t].filled \in Nat
    BY <1>3, EffectiveType DEF Trade!MayTransition, Advanced
  <2>2. \A i \in 1..n : j[i].filled \in Nat /\ j[i].filled <= row[t].filled
    <3>1. TAKE i \in 1..n
    <3>2. j[i] \in Trade!Entries
      BY <1>1 DEF Trade!TypeOK, j
    <3>3. j[i].filled \in Nat
      BY <3>2, LedgerConstants DEF Trade!Entries, Trade!Fills, Trade!TradeConstants
    <3>. QED BY <1>1, <3>3 DEF ExitOf, FillsGrow, j
  <2>. HIDE DEF new
  <2>3. \A i \in 1..(n + 1) : q[i].filled <= row'[t].filled
    BY <1>1, <2>1, <2>2
  <2>. QED BY <1>1, <1>3, <2>1, <2>3 DEF FillsGrow, Trade!FillFits, q
<1>12. FlatHasExit(t)'
  <2>1. SUFFICES ASSUME r.target = "FLAT"
                 PROVE  \E m \in 1..(n + 1) : q[m].to \in Trade!Exits \cup {"FAILED_BLOCKED"}
    BY <1>1, <1>3 DEF FlatHasExit, q
  <2>2. q[n].to \in Trade!Exits \cup {"FAILED_BLOCKED"}
    BY <1>1, <1>2, <1>4, <2>1, AllowedFacts
  <2>. QED BY <1>1, <2>2
<1>. QED BY <1>8, <1>9, <1>10, <1>11, <1>12 DEF ExitOf

\* One call on a trade preserves what one exit rests on.
LEMMA ExitStep ==
  ASSUME StoryInv, ExitInv, NEW t \in Trades, Trade!Call(t)
  PROVE  ExitInv'
<1>0. Trade!TypeOK /\ HeadInv
  BY DEF StoryInv
<1>1. /\ OthersKept(t)
      /\ \/ Quiet(t)
         \/ \E r \in Requests : Answered(r)
         \/ \E r \in Requests : AdvancedAlone(t, r)
         \/ \E r \in Requests, f \in Trade!Facts : AdvancedWith(t, r, f)
  BY <1>0, TradeShapes DEF HeadInv
<1>. USE DEF ExitOf, ExitsApart, ExitLasts, BlockLasts, FillsGrow, FlatHasExit
<1>2. CASE \E r \in Requests : Answered(r)
  BY <1>2 DEF Answered, ExitInv
<1>3. ASSUME NEW u \in Trades, u # t PROVE ExitOf(u)'
  <2>1. UNCHANGED <<row[u], journal[u]>>
    BY <1>1, <1>3 DEF OthersKept
  <2>. QED BY <2>1 DEF ExitInv
<1>4. ASSUME Kept(t) PROVE ExitOf(t)'
  BY <1>4 DEF Kept, ExitInv
<1>5. ASSUME Begun(t) PROVE ExitOf(t)'
  <2>1. DOMAIN journal'[t] = {1} /\ journal'[t][1].to = "RECEIVED" /\ journal'[t][1].filled = 0
    BY <1>5 DEF Begun, Trade!CreatedEntry
  <2>. QED BY <1>5, <2>1 DEF Begun, Trade!Exits
<1>6. ASSUME NEW r \in Requests, NEW k \in FactKeys \cup {None}, Advanced(t, r, k)
      PROVE  ExitOf(t)'
  <2>1. ExitOf(t)
    BY DEF ExitInv
  <2>. HIDE DEF ExitOf
  <2>. QED BY <1>0, <1>6, <2>1, ExitAdvanced
<1>. HIDE DEF ExitOf
<1>7. \A r \in Requests : r.key \in FactKeys
  BY LedgerConstants DEF Trade!TradeConstants, Trade!RequestType
<1>. QED BY <1>1, <1>2, <1>3, <1>4, <1>5, <1>6, <1>7
         DEF Quiet, AdvancedAlone, AdvancedWith, ExitInv

\* The inductive form of one exit gives OneExit.
LEMMA ExitFollows ==
  ASSUME StoryInv, ExitInv
  PROVE  OneExit
<1>1. SUFFICES ASSUME NEW t \in Trades, NEW i \in DOMAIN journal[t], NEW h \in DOMAIN journal[t]
               PROVE  /\ i < h /\ journal[t][i].to \in Trade!Exits /\ journal[t][h].to \in Trade!Exits =>
                           /\ journal[t][h].to = "EXITING_EMERGENCY"
                           /\ \E m \in i..h : journal[t][m].to = "FAILED_BLOCKED"
                      /\ journal[t][i].filled > 0 /\ row[t].state \in Trade!Terminal =>
                           /\ row[t].state = "FLAT" /\ row[t].filled > 0 /\ row[t].firstFill # None
                           /\ \E m \in DOMAIN journal[t] :
                                journal[t][m].to \in Trade!Exits \cup {"FAILED_BLOCKED"}
  BY DEF OneExit, Trade!OneExit
<1>2. ExitsApart(t) /\ FillsGrow(t) /\ FlatHasExit(t)
  BY DEF ExitInv, ExitOf
<1>3. row[t].filled \in Nat /\ journal[t][i].filled \in Nat
  <2>1. row[t] \in Trade!Rows /\ journal[t][i] \in Trade!Entries
    BY DEF StoryInv, Trade!TypeOK
  <2>. QED BY <2>1, LedgerConstants DEF Trade!Rows, Trade!Entries, Trade!Fills, Trade!TradeConstants
<1>4. ASSUME journal[t][i].filled > 0, row[t].state \in Trade!Terminal
      PROVE  row[t].state = "FLAT" /\ row[t].filled > 0 /\ row[t].firstFill # None
  BY <1>2, <1>3, <1>4 DEF FillsGrow, Trade!Terminal
<1>. QED BY <1>2, <1>4 DEF ExitsApart, FlatHasExit

\* For every set of trades and requests: handlers that race for the exit of a trade
\* open one, a second exit is the emergency exit of a blocked trade, and a trade
\* with a fill ends flat, after an exit or a block, with its fill recorded.
THEOREM ExitIsOne == Spec => []OneExit
<1>1. ASSUME Init PROVE ExitInv
  <2>1. ASSUME NEW t \in Trades
        PROVE  /\ journal[t] = <<>> /\ row[t].filled = 0 /\ row[t].firstFill = None
               /\ row[t].state = "RECEIVED"
    <3>1. Trade!Init
      BY <1>1 DEF Init
    <3>2. row[t] = Trade!NoRow /\ journal[t] = <<>>
      BY <3>1 DEF Trade!Init
    <3>. QED BY <3>2 DEF Trade!NoRow
  <2>2. ASSUME NEW t \in Trades PROVE ExitOf(t)
    <3>1. ExitsApart(t) /\ ExitLasts(t) /\ BlockLasts(t) /\ FlatHasExit(t)
      BY <2>1 DEF ExitsApart, ExitLasts, BlockLasts, FlatHasExit
    <3>2. FillsGrow(t)
      BY <2>1 DEF FillsGrow
    <3>. QED BY <3>1, <3>2 DEF ExitOf
  <2>. QED BY <2>2 DEF ExitInv
<1>2. ASSUME ExitInv, UNCHANGED tradeVars PROVE ExitInv'
  BY <1>2 DEF tradeVars, ExitInv, ExitOf, ExitsApart, ExitLasts, BlockLasts, FillsGrow, FlatHasExit
<1>3. StoryInv /\ ExitInv /\ [Next]_vars => ExitInv'
  BY <1>2, TradeStep, ExitStep
<1>4. StoryInv /\ ExitInv => OneExit
  BY ExitFollows
<1>. QED BY <1>1, <1>3, <1>4, StoryHolds, PTL DEF Spec

-----------------------------------------------------------------------------
(* Open trades of a symbol. *)

\* One call on a trade leaves at most one trade of a symbol open.
LEMMA OpenStep ==
  ASSUME StoryInv, OneOpenTrade, NEW t \in Trades, Trade!Call(t)
  PROVE  OneOpenTrade'
<1>0. Trade!TypeOK /\ HeadInv
  BY DEF StoryInv
<1>1. /\ OthersKept(t)
      /\ \/ Quiet(t)
         \/ \E r \in Requests : Answered(r)
         \/ \E r \in Requests : AdvancedAlone(t, r)
         \/ \E r \in Requests, f \in Trade!Facts : AdvancedWith(t, r, f)
  BY <1>0, TradeShapes DEF HeadInv
<1>2. CASE \E r \in Requests : Answered(r)
  BY <1>2 DEF Answered, OneOpenTrade, Trade!OneOpenTrade
<1>3. \A u \in Trades \ {t} : row'[u] = row[u]
  BY <1>1 DEF OthersKept
<1>4. ASSUME \A u \in Trades \ {t} : row[u].exists =>
               /\ Symbol[t] = Symbol[u] => {row'[t].state, row[u].state} \cap Trade!Terminal # {}
               /\ \A s \in UniqueSlots : row'[t].ids[s] = None \/ row'[t].ids[s] # row[u].ids[s]
      PROVE  OneOpenTrade'
  <2>1. SUFFICES ASSUME NEW x \in Trades, NEW u \in Trades, x # u, row'[x].exists, row'[u].exists
                 PROVE  /\ Symbol[x] = Symbol[u] => {row'[x].state, row'[u].state} \cap Trade!Terminal # {}
                        /\ \A s \in UniqueSlots : row'[x].ids[s] = None \/ row'[x].ids[s] # row'[u].ids[s]
    BY DEF OneOpenTrade, Trade!OneOpenTrade
  <2>2. CASE x # t /\ u # t
    BY <1>3, <2>1, <2>2 DEF OneOpenTrade, Trade!OneOpenTrade
  <2>3. CASE x = t
    BY <1>3, <1>4, <2>1, <2>3
  <2>4. CASE u = t
    <3>1. row'[x] = row[x]
      BY <1>3, <2>1, <2>4
    <3>2. /\ Symbol[t] = Symbol[x] => {row'[t].state, row[x].state} \cap Trade!Terminal # {}
          /\ \A s \in UniqueSlots : row'[t].ids[s] = None \/ row'[t].ids[s] # row[x].ids[s]
      BY <1>4, <2>1, <2>4, <3>1
    <3>. QED BY <2>4, <3>1, <3>2
  <2>. QED BY <2>2, <2>3, <2>4
<1>5. CASE Kept(t)
  BY <1>4, <1>5 DEF Kept, OneOpenTrade, Trade!OneOpenTrade
<1>6. CASE Begun(t)
  <2>1. \A s \in UniqueSlots : row'[t].ids[s] = None
    BY <1>6, LedgerConstants DEF Begun, Trade!NoIds, Trade!TradeConstants
  <2>2. \A u \in Trades \ {t} : row[u].exists /\ Symbol[u] = Symbol[t] => row[u].state \in Trade!Terminal
    BY <1>6 DEF Begun, Trade!SymbolFree
  <2>. QED BY <1>4, <2>1, <2>2
<1>7. ASSUME NEW r \in Requests, NEW k \in FactKeys \cup {None}, Advanced(t, r, k)
      PROVE  OneOpenTrade'
  <2>1. /\ row[t].exists /\ row[t].state \in Trade!States /\ r.target \in Trade!Allowed(row[t].state)
        /\ Trade!IdsFree(t, row'[t].ids)
    BY <1>0, <1>7 DEF Advanced, Trade!MayTransition, Trade!TypeOK, Trade!Rows
  <2>2. row[t].state \notin Trade!Terminal
    BY <2>1, AllowedFacts
  <2>3. \A u \in Trades \ {t} : row[u].exists /\ Symbol[t] = Symbol[u] => row[u].state \in Trade!Terminal
    BY <2>1, <2>2 DEF OneOpenTrade, Trade!OneOpenTrade
  <2>. QED BY <1>4, <2>1, <2>3 DEF Trade!IdsFree
<1>8. \A r \in Requests : r.key \in FactKeys
  BY LedgerConstants DEF Trade!TradeConstants, Trade!RequestType
<1>. QED BY <1>1, <1>2, <1>5, <1>6, <1>7, <1>8 DEF Quiet, AdvancedAlone, AdvancedWith

\* For every set of trades: an account never has two open trades of one symbol, and
\* no client order id serves two trades, ended ones included.
THEOREM OpenTradeIsOne == Spec => []OneOpenTrade
<1>1. Init => OneOpenTrade
  BY DEF Init, Trade!Init, Trade!NoRow, OneOpenTrade, Trade!OneOpenTrade
<1>2. ASSUME OneOpenTrade, UNCHANGED tradeVars PROVE OneOpenTrade'
  BY <1>2 DEF tradeVars, OneOpenTrade, Trade!OneOpenTrade
<1>3. StoryInv /\ OneOpenTrade /\ [Next]_vars => OneOpenTrade'
  BY <1>2, TradeStep, OpenStep
<1>. QED BY <1>1, <1>3, StoryHolds, PTL DEF Spec

-----------------------------------------------------------------------------
(***************************************************************************)
(* NewsProcessing.  TypeOK already says that a transaction's rows are free *)
(* and its own.                                                            *)
(***************************************************************************)

\* ORDER BY event_key: what a transaction has is below what it still wants.
InsertsInOrder ==
  \A t \in Callers : \A k \in caller[t].mine, j \in caller[t].todo : k < j

\* Finitely many keys have been inserted.
InsertedIsBounded == \E b \in Nat : \A t \in Callers : \A k \in caller[t].mine : k <= b

\* What an INSERT has passed over is its own or was committed by another.
PassedIsClaimed ==
  \A t \in Callers : \A k \in caller[t].keys \ caller[t].todo :
    caller[t].at = "inserting" /\ k \notin caller[t].mine => ~News!Free(k)

\* A confirmed claim: nobody paid for it yet and nobody else holds it.
ClaimIsFresh ==
  \A t \in Callers : caller[t].at = "claimed" =>
    /\ caller[t].todo = {}
    /\ \A k \in caller[t].mine :
         /\ calls[k] = 0 /\ ~News!Free(k)
         /\ \A u \in Callers \ {t} : caller[u].at = "claimed" => k \notin caller[u].mine

\* The inductive invariant.
NewsInv ==
  /\ News!TypeOK /\ InsertsInOrder /\ InsertedIsBounded /\ PassedIsClaimed /\ ClaimIsFresh
  /\ News!OneCallPerEvent /\ News!NoEventIsLost

\* No committed row goes away.
RowsStay == \A k \in NewsKeys : ~News!Free(k) => ~News!Free(k)'

\* No batch has claimed anything before the first claim.
LEMMA NewsInit ==
  ASSUME News!Init
  PROVE  NewsInv
<1>1. ASSUME NEW t \in Callers
      PROVE  /\ caller[t].at = "idle" /\ caller[t].keys = {} /\ caller[t].todo = {}
             /\ caller[t].mine = {}
  BY DEF News!Init, News!Idle
<1>2. News!TypeOK
  <2>1. caller \in [Callers -> News!TaskStates]
    BY DEF News!Init, News!Idle, News!TaskStates
  <2>2. claim \in [NewsKeys -> News!Rows] /\ calls \in [NewsKeys -> Nat]
    BY DEF News!Init, News!Rows
  <2>. QED BY <1>1, <2>1, <2>2 DEF News!TypeOK, News!Holds
<1>3. InsertedIsBounded
  BY <1>1 DEF InsertedIsBounded
<1>. QED BY <1>1, <1>2, <1>3
         DEF NewsInv, InsertsInOrder, PassedIsClaimed, ClaimIsFresh, News!OneCallPerEvent,
             News!NoEventIsLost, News!Init

\* What the types say of one caller.
LEMMA CallerFacts ==
  ASSUME News!TypeOK, NEW t \in Callers
  PROVE  /\ caller[t] = [at |-> caller[t].at, keys |-> caller[t].keys, todo |-> caller[t].todo,
                         mine |-> caller[t].mine]
         /\ caller[t].at \in {"idle", "inserting", "claimed", "called"}
         /\ caller[t].keys \subseteq NewsKeys /\ caller[t].todo \subseteq caller[t].keys
         /\ caller[t].mine \subseteq caller[t].keys \ caller[t].todo
  BY DEF News!TypeOK, News!TaskStates

\* A caller's new position, its sets and the rest of the callers.
Moved(t, at, keys, todo, mine) ==
  /\ caller' \in [Callers -> News!TaskStates]
  /\ caller'[t].at = at /\ caller'[t].keys = keys /\ caller'[t].todo = todo /\ caller'[t].mine = mine
  /\ \A u \in Callers \ {t} : caller'[u] = caller[u]

\* A step that only moves a caller on keeps its batch, and the other callers.
LEMMA MovedField ==
  ASSUME News!TypeOK, NEW t \in Callers, NEW at \in {"idle", "inserting", "claimed", "called"},
         caller' = [caller EXCEPT ![t].at = at]
  PROVE  Moved(t, at, caller[t].keys, caller[t].todo, caller[t].mine)
<1>1. caller[t] \in News!TaskStates
  BY DEF News!TypeOK
<1>2. caller'[t] = [caller[t] EXCEPT !.at = at]
  BY DEF News!TypeOK
<1>3. caller'[t] \in News!TaskStates
  BY <1>1, <1>2 DEF News!TaskStates
<1>4. caller' \in [Callers -> News!TaskStates] /\ \A u \in Callers \ {t} : caller'[u] = caller[u]
  BY <1>2, <1>3 DEF News!TypeOK
<1>. QED BY <1>1, <1>2, <1>4 DEF Moved, News!TaskStates

\* A caller that goes idle forgets its batch; the other callers keep theirs.
LEMMA MovedIdle ==
  ASSUME News!TypeOK, NEW t \in Callers, caller' = [caller EXCEPT ![t] = News!Idle]
  PROVE  Moved(t, "idle", {}, {}, {})
<1>1. News!Idle \in News!TaskStates
  BY DEF News!Idle, News!TaskStates
<1>2. caller'[t] = News!Idle
  BY DEF News!TypeOK
<1>3. caller' \in [Callers -> News!TaskStates] /\ \A u \in Callers \ {t} : caller'[u] = caller[u]
  BY <1>1 DEF News!TypeOK
<1>. QED BY <1>2, <1>3 DEF Moved, News!Idle

\* What a caller that moves has to show for itself; the others stand as they did,
\* where the rows they look at stay.
LEMMA NewsMoves ==
  ASSUME NewsInv, NEW t \in Callers, NEW at, NEW keys, NEW todo, NEW mine,
         Moved(t, at, keys, todo, mine),
         claim' \in [NewsKeys -> News!Rows], RowsStay, calls' \in [NewsKeys -> Nat],
         News!OneCallPerEvent',
         todo \subseteq keys, mine \subseteq keys \ todo,
         \A k \in mine, j \in todo : k < j,
         \E b \in Nat : \A k \in mine : k <= b,
         \A u \in Callers \ {t}, k \in NewsKeys : News!Holds(u, k) => News!Free(k)',
         \A u \in Callers \ {t} : caller[u].at = "claimed" => \A k \in caller[u].mine : calls'[k] = 0,
         at = "inserting" =>
           /\ \A k \in mine : News!Free(k)' /\ \A u \in Callers \ {t} : ~News!Holds(u, k)
           /\ \A k \in keys \ todo : k \notin mine => ~News!Free(k)',
         at = "claimed" =>
           /\ todo = {}
           /\ \A k \in mine :
                calls'[k] = 0 /\ \A u \in Callers \ {t} : caller[u].at = "claimed" => k \notin caller[u].mine,
         at \in {"claimed", "called"} => \A k \in keys : ~News!Free(k)'
  PROVE  NewsInv'
<1>0. /\ keys \subseteq NewsKeys
      /\ \A u \in Callers : /\ caller[u].keys \subseteq NewsKeys /\ caller[u].todo \subseteq caller[u].keys
                            /\ caller[u].mine \subseteq caller[u].keys \ caller[u].todo
  BY CallerFacts DEF NewsInv, Moved, News!TaskStates
<1>1. InsertsInOrder'
  BY DEF NewsInv, InsertsInOrder, Moved
<1>2. InsertedIsBounded'
  <2>1. PICK a \in Nat : \A u \in Callers : \A k \in caller[u].mine : k <= a
    BY DEF NewsInv, InsertedIsBounded
  <2>2. PICK b \in Nat : \A k \in mine : k <= b
    OBVIOUS
  <2>3. mine \subseteq Nat /\ \A u \in Callers : caller[u].mine \subseteq Nat
    BY <1>0, LedgerConstants DEF News!NewsConstants
  <2>4. ASSUME NEW u \in Callers, NEW k \in caller'[u].mine PROVE k <= a + b
    <3>1. CASE u = t
      <4>1. k \in Nat /\ k <= b
        BY <2>2, <2>3, <2>4, <3>1 DEF Moved
      <4>. QED BY <4>1
    <3>2. CASE u # t
      <4>1. k \in Nat /\ k <= a
        BY <2>1, <2>3, <2>4, <3>2 DEF Moved
      <4>. QED BY <4>1
    <3>. QED BY <3>1, <3>2
  <2>. QED BY <2>4 DEF InsertedIsBounded
<1>3. News!TypeOK'
  <2>1. \A u \in Callers : /\ caller'[u].todo \subseteq caller'[u].keys
                           /\ caller'[u].mine \subseteq caller'[u].keys \ caller'[u].todo
    BY <1>0 DEF Moved
  <2>2. \A u \in Callers \ {t}, k \in NewsKeys : News!Holds(u, k)' <=> News!Holds(u, k)
    BY DEF Moved, News!Holds
  <2>3. \A k \in NewsKeys : News!Holds(t, k)' <=> at = "inserting" /\ k \in mine
    BY DEF Moved, News!Holds
  <2>4. ASSUME NEW k \in NewsKeys, NEW u \in Callers, News!Holds(u, k)'
        PROVE  News!Free(k)' /\ \A x \in Callers \ {u} : ~News!Holds(x, k)'
    <3>1. CASE u = t
      BY <2>2, <2>3, <2>4, <3>1
    <3>2. CASE u # t
      <4>1. News!Holds(u, k) /\ News!Free(k)'
        BY <2>2, <2>4, <3>2
      <4>2. ~News!Holds(t, k)'
        BY <2>3, <3>2, <4>1
      <4>3. \A x \in Callers \ {u} : ~News!Holds(x, k)
        BY <4>1 DEF NewsInv, News!TypeOK
      <4>. QED BY <2>2, <4>1, <4>2, <4>3
    <3>. QED BY <3>1, <3>2
  <2>. QED BY <2>1, <2>4 DEF News!TypeOK, Moved
<1>4. PassedIsClaimed'
  BY <1>0 DEF NewsInv, PassedIsClaimed, Moved, RowsStay
<1>5. ClaimIsFresh'
  <2>1. SUFFICES ASSUME NEW u \in Callers, caller'[u].at = "claimed"
                 PROVE  /\ caller'[u].todo = {}
                        /\ \A k \in caller'[u].mine :
                             /\ calls'[k] = 0 /\ ~News!Free(k)'
                             /\ \A x \in Callers \ {u} : caller'[x].at = "claimed" => k \notin caller'[x].mine
    BY DEF ClaimIsFresh
  <2>2. CASE u = t
    BY <2>1, <2>2 DEF Moved
  <2>3. CASE u # t
    <3>1. caller'[u] = caller[u] /\ caller[u].at = "claimed"
      BY <2>1, <2>3 DEF Moved
    <3>2. /\ caller[u].todo = {}
          /\ \A k \in caller[u].mine :
               /\ calls'[k] = 0 /\ ~News!Free(k)
               /\ \A x \in Callers \ {u} : caller[x].at = "claimed" => k \notin caller[x].mine
      BY <2>3, <3>1 DEF NewsInv, ClaimIsFresh
    <3>3. \A k \in caller[u].mine : ~News!Free(k)'
      BY <1>0, <3>2 DEF RowsStay
    <3>4. \A k \in caller[u].mine : at = "claimed" => k \notin mine
      BY <2>3, <3>1
    <3>. QED BY <2>3, <3>1, <3>2, <3>3, <3>4 DEF Moved
  <2>. QED BY <2>2, <2>3
<1>6. News!NoEventIsLost'
  BY <1>0 DEF NewsInv, News!NoEventIsLost, Moved, RowsStay
<1>. QED BY <1>1, <1>2, <1>3, <1>4, <1>5, <1>6 DEF NewsInv

\* Every step of a news worker preserves NewsInv: one case per action.
LEMMA NewsStep ==
  ASSUME NewsInv, News!Next
  PROVE  NewsInv'
<1>0. News!TypeOK
  BY DEF NewsInv
<1>1. PICK t \in Callers :
        \/ \E ks \in Batches : News!Begin(t, ks)
        \/ \E ks \in SUBSET caller[t].keys : News!Complete(t, ks)
        \/ \E k \in NewsKeys : News!Insert(t, k)
        \/ \E known \in BOOLEAN : News!Commit(t, known)
        \/ News!Call(t) \/ News!End(t)
  BY DEF News!Next
<1>2. /\ caller[t].keys \subseteq NewsKeys /\ caller[t].todo \subseteq caller[t].keys
      /\ caller[t].mine \subseteq caller[t].keys \ caller[t].todo
      /\ caller[t].at \in {"idle", "inserting", "claimed", "called"}
      /\ NewsKeys \subseteq Nat
  BY <1>0, CallerFacts, LedgerConstants DEF News!NewsConstants
<1>3. \E b \in Nat : \A k \in caller[t].mine : k <= b
  BY DEF NewsInv, InsertedIsBounded
<1>4. \A k \in caller[t].mine, j \in caller[t].todo : k < j
  BY DEF NewsInv, InsertsInOrder
<1>5. /\ \A u \in Callers \ {t}, k \in NewsKeys : News!Holds(u, k) => News!Free(k)
      /\ \A u \in Callers \ {t} : caller[u].at = "claimed" => \A k \in caller[u].mine : calls[k] = 0
  BY DEF NewsInv, News!TypeOK, ClaimIsFresh
<1>6. ASSUME UNCHANGED <<claim, calls>>
      PROVE  /\ claim' \in [NewsKeys -> News!Rows] /\ RowsStay /\ calls' \in [NewsKeys -> Nat]
             /\ News!OneCallPerEvent' /\ \A k : News!Free(k)' <=> News!Free(k)
  BY <1>6 DEF NewsInv, News!TypeOK, RowsStay, News!Free, News!OneCallPerEvent
<1>7. ASSUME NEW ks \in Batches, News!Begin(t, ks) PROVE NewsInv'
  <2>1. ks \subseteq NewsKeys
    BY LedgerConstants DEF News!NewsConstants
  <2>2. [at |-> "inserting", keys |-> ks, todo |-> ks, mine |-> {}] \in News!TaskStates
    BY <2>1 DEF News!TaskStates
  <2>3. Moved(t, "inserting", ks, ks, {})
    BY <1>0, <1>7, <2>2 DEF News!Begin, Moved, News!TypeOK
  <2>4. UNCHANGED <<claim, calls>>
    BY <1>7 DEF News!Begin
  <2>. QED BY <1>5, <1>6, <2>3, <2>4, NewsMoves
<1>8. ASSUME News!End(t) PROVE NewsInv'
  <2>1. Moved(t, "idle", {}, {}, {}) /\ UNCHANGED <<claim, calls>>
    BY <1>0, <1>8, MovedIdle DEF News!End
  <2>. QED BY <1>5, <1>6, <2>1, NewsMoves
<1>9. ASSUME NEW k \in NewsKeys, News!Insert(t, k) PROVE NewsInv'
  <2>. DEFINE todo == caller[t].todo \ {k}
              mine == IF News!Inserts(t, k) THEN caller[t].mine \cup {k} ELSE caller[t].mine
  <2>1. /\ caller[t].at = "inserting" /\ k \in caller[t].todo /\ \A j \in caller[t].todo : k <= j
        /\ \A u \in Callers \ {t} : ~News!Holds(u, k)
        /\ UNCHANGED <<claim, calls>>
    BY <1>9 DEF News!Insert, News!Upcoming, News!Blocked
  <2>2. caller[t] \in News!TaskStates
    BY <1>0 DEF News!TypeOK
  <2>3. caller'[t] = [caller[t] EXCEPT !.todo = todo, !.mine = mine]
    BY <1>0, <1>9 DEF News!Insert, News!TypeOK
  <2>4. todo \subseteq NewsKeys /\ mine \subseteq NewsKeys
    BY <1>2, <1>9
  <2>5. \A u \in Callers \ {t} : caller'[u] = caller[u]
    BY <1>0, <1>9 DEF News!Insert, News!TypeOK
  <2>6. DOMAIN caller' = Callers /\ caller' = [x \in Callers |-> caller'[x]]
    BY <1>0, <1>9 DEF News!Insert, News!TypeOK
  <2>7. /\ todo \subseteq caller[t].keys /\ mine \subseteq caller[t].keys \ todo
        /\ \A i \in mine, j \in todo : i < j
    <3>1. todo \subseteq caller[t].keys /\ mine \subseteq caller[t].keys \ todo
      BY <1>2, <2>1
    <3>2. \A j \in todo : k < j
      BY <1>2, <1>9, <2>1
    <3>. QED BY <1>4, <3>1, <3>2
  <2>8. \E b \in Nat : \A i \in mine : i <= b
    <3>1. PICK b \in Nat : \A i \in caller[t].mine : i <= b
      BY <1>3
    <3>2. ASSUME NEW i \in mine PROVE i <= b + k
      <4>1. i \in Nat /\ k \in Nat /\ (i = k \/ i <= b)
        BY <1>2, <1>9, <2>4, <3>1, <3>2
      <4>. QED BY <4>1
    <3>. QED BY <1>2, <1>9, <3>2
  <2>9. \A i \in mine : News!Free(i) /\ \A u \in Callers \ {t} : ~News!Holds(u, i)
    <3>1. \A i \in caller[t].mine : News!Free(i) /\ \A u \in Callers \ {t} : ~News!Holds(u, i)
      BY <1>0, <1>2, <2>1 DEF News!TypeOK, News!Holds
    <3>. QED BY <3>1 DEF News!Inserts
  <2>10. \A i \in caller[t].keys \ todo : i \notin mine => ~News!Free(i)
    <3>1. \A i \in caller[t].keys \ caller[t].todo : i \notin caller[t].mine => ~News!Free(i)
      BY <2>1 DEF NewsInv, PassedIsClaimed
    <3>2. k \notin mine => ~News!Free(k)
      BY <2>1 DEF News!Inserts
    <3>. QED BY <3>1, <3>2
  <2>. HIDE DEF todo, mine
  <2>11. caller'[t] \in News!TaskStates
    BY <2>2, <2>3, <2>4 DEF News!TaskStates
  <2>12. Moved(t, "inserting", caller[t].keys, todo, mine)
    <3>1. caller' \in [Callers -> News!TaskStates]
      BY <1>0, <2>5, <2>6, <2>11 DEF News!TypeOK
    <3>2. /\ caller'[t].at = caller[t].at /\ caller'[t].keys = caller[t].keys
          /\ caller'[t].todo = todo /\ caller'[t].mine = mine
      BY <2>2, <2>3 DEF News!TaskStates
    <3>. QED BY <2>1, <2>5, <3>1, <3>2 DEF Moved
  <2>. QED BY <1>5, <1>6, <2>1, <2>7, <2>8, <2>9, <2>10, <2>12, NewsMoves
<1>10. ASSUME NEW known \in BOOLEAN, News!Commit(t, known) PROVE NewsInv'
  <2>1. /\ caller[t].at = "inserting" /\ caller[t].todo = {} /\ calls' = calls
        /\ claim' = [k \in NewsKeys |-> IF k \in caller[t].mine
                                        THEN [owner |-> AttemptOf[t], state |-> "CLAIMED"] ELSE claim[k]]
    BY <1>10 DEF News!Commit, News!Confirmed
  <2>2. AttemptOf[t] \in Attempts /\ AttemptOf[t] # None
    BY LedgerConstants DEF News!NewsConstants
  <2>3. /\ claim' \in [NewsKeys -> News!Rows] /\ calls' \in [NewsKeys -> Nat]
    BY <1>0, <2>1, <2>2 DEF News!TypeOK, News!Rows
  <2>4. /\ \A k \in caller[t].mine : ~News!Free(k)'
        /\ \A k \in NewsKeys \ caller[t].mine : News!Free(k)' <=> News!Free(k)
    BY <1>2, <2>1, <2>2 DEF News!Free, News!NoRow
  <2>5. RowsStay
    BY <2>4 DEF RowsStay
  <2>6. News!OneCallPerEvent'
    BY <2>1, <2>5 DEF NewsInv, News!OneCallPerEvent, RowsStay
  <2>7. \A k \in caller[t].mine : News!Free(k) /\ \A u \in Callers \ {t} : ~News!Holds(u, k)
    BY <1>0, <1>2, <2>1 DEF News!TypeOK, News!Holds
  <2>8. \A u \in Callers \ {t}, k \in NewsKeys : News!Holds(u, k) => News!Free(k)'
    BY <1>5, <2>4, <2>7
  <2>9. \A k \in caller[t].keys : ~News!Free(k)'
    BY <1>2, <2>1, <2>4 DEF NewsInv, PassedIsClaimed
  <2>10. \A k \in caller[t].mine :
           /\ calls'[k] = 0
           /\ \A u \in Callers \ {t} : caller[u].at = "claimed" => k \notin caller[u].mine
    <3>1. TAKE k \in caller[t].mine
    <3>2. k \in NewsKeys /\ calls[k] \in Nat /\ calls[k] <= 1 /\ calls[k] # 1
      BY <1>0, <1>2, <2>7 DEF News!TypeOK, NewsInv, News!OneCallPerEvent
    <3>3. \A u \in Callers \ {t} : caller[u].at = "claimed" => k \notin caller[u].mine
      BY <2>7 DEF NewsInv, ClaimIsFresh
    <3>. QED BY <2>1, <3>2, <3>3
  <2>11. CASE known
    <3>1. caller'[t] = [caller[t] EXCEPT !.at = "claimed"]
      BY <1>0, <1>10, <2>11 DEF News!Commit, News!Confirmed, News!TypeOK
    <3>2. caller' = [caller EXCEPT ![t].at = "claimed"]
      BY <1>10, <2>11 DEF News!Commit, News!Confirmed
    <3>3. Moved(t, "claimed", caller[t].keys, {}, caller[t].mine)
      BY <1>0, <2>1, <3>2, MovedField
    <3>. QED BY <1>2, <1>3, <1>5, <2>1, <2>3, <2>5, <2>6, <2>8, <2>9, <2>10, <3>3, NewsMoves
  <2>12. CASE ~known
    <3>1. caller' = [caller EXCEPT ![t] = News!Idle]
      BY <1>10, <2>12 DEF News!Commit, News!Confirmed
    <3>2. Moved(t, "idle", {}, {}, {})
      BY <1>0, <3>1, MovedIdle
    <3>. QED BY <1>5, <2>1, <2>3, <2>5, <2>6, <2>8, <3>2, NewsMoves
  <2>. QED BY <2>11, <2>12
<1>11. ASSUME News!Call(t) PROVE NewsInv'
  <2>1. /\ caller[t].at = "claimed" /\ claim' = claim
        /\ calls' = [k \in NewsKeys |-> IF k \in caller[t].mine THEN calls[k] + 1 ELSE calls[k]]
    BY <1>11 DEF News!Call
  <2>2. Moved(t, "called", caller[t].keys, caller[t].todo, caller[t].mine)
    BY <1>0, <1>11, MovedField DEF News!Call
  <2>3. claim' \in [NewsKeys -> News!Rows] /\ calls' \in [NewsKeys -> Nat] /\ RowsStay
        /\ \A k : News!Free(k)' <=> News!Free(k)
    BY <1>0, <2>1 DEF News!TypeOK, RowsStay, News!Free
  <2>4. \A k \in caller[t].mine :
          /\ calls[k] = 0 /\ ~News!Free(k)
          /\ \A u \in Callers \ {t} : caller[u].at = "claimed" => k \notin caller[u].mine
    BY <2>1 DEF NewsInv, ClaimIsFresh
  <2>5. News!OneCallPerEvent'
    <3>1. SUFFICES ASSUME NEW k \in NewsKeys
                   PROVE  calls'[k] <= 1 /\ (calls'[k] = 1 => ~News!Free(k)')
      BY DEF News!OneCallPerEvent
    <3>2. CASE k \in caller[t].mine
      BY <2>1, <2>3, <2>4, <3>2
    <3>3. CASE k \notin caller[t].mine
      BY <2>1, <2>3, <3>3 DEF NewsInv, News!OneCallPerEvent
    <3>. QED BY <3>2, <3>3
  <2>6. \A u \in Callers \ {t} : caller[u].at = "claimed" => \A k \in caller[u].mine : calls'[k] = 0
    <3>1. SUFFICES ASSUME NEW u \in Callers \ {t}, caller[u].at = "claimed", NEW k \in caller[u].mine
                   PROVE  calls'[k] = 0
      OBVIOUS
    <3>2. k \in NewsKeys /\ calls[k] = 0 /\ k \notin caller[t].mine
      BY <1>0, <1>5, <2>4, <3>1, CallerFacts
    <3>. QED BY <2>1, <3>2
  <2>7. \A k \in caller[t].keys : ~News!Free(k)'
    BY <2>1, <2>3 DEF NewsInv, News!NoEventIsLost
  <2>. QED BY <1>2, <1>3, <1>4, <1>5, <2>2, <2>3, <2>5, <2>6, <2>7, NewsMoves
<1>12. ASSUME NEW ks \in SUBSET caller[t].keys, News!Complete(t, ks) PROVE NewsInv'
  <2>1. /\ caller' = caller /\ calls' = calls /\ caller[t].at = "called"
        /\ claim' = [k \in NewsKeys |-> IF k \in ks THEN [claim[k] EXCEPT !.state = "COMPLETED"] ELSE claim[k]]
        /\ \A k \in ks : claim[k].owner = AttemptOf[t]
    BY <1>12 DEF News!Complete, News!Owned
  <2>2. AttemptOf[t] \in Attempts /\ AttemptOf[t] # None
    BY LedgerConstants DEF News!NewsConstants
  <2>3. \A k \in ks : claim[k] \in [owner : Attempts, state : {"CLAIMED", "COMPLETED"}]
    BY <1>0, <1>2, <2>1, <2>2 DEF News!TypeOK, News!Rows, News!NoRow
  <2>4. \A k \in ks : [claim[k] EXCEPT !.state = "COMPLETED"] \in [owner : Attempts, state : {"CLAIMED", "COMPLETED"}]
    BY <2>3
  <2>5. claim' \in [NewsKeys -> News!Rows]
    BY <1>0, <2>1, <2>4 DEF News!TypeOK, News!Rows
  <2>6. \A k \in NewsKeys : News!Free(k)' <=> News!Free(k)
    <3>1. TAKE k \in NewsKeys
    <3>2. CASE k \in ks
      <4>1. claim[k].owner # None /\ claim'[k].owner # None
        BY <2>1, <2>2, <2>3, <3>2
      <4>. QED BY <4>1 DEF News!Free, News!NoRow
    <3>3. CASE k \notin ks
      BY <2>1, <3>3 DEF News!Free
    <3>. QED BY <3>2, <3>3
  <2>7. RowsStay /\ calls' \in [NewsKeys -> Nat] /\ News!OneCallPerEvent'
    BY <1>0, <2>1, <2>6 DEF RowsStay, News!TypeOK, NewsInv, News!OneCallPerEvent
  <2>8. Moved(t, "called", caller[t].keys, caller[t].todo, caller[t].mine)
    BY <1>0, <2>1 DEF Moved, News!TypeOK
  <2>9. \A k \in caller[t].keys : ~News!Free(k)'
    BY <1>2, <2>1, <2>6 DEF NewsInv, News!NoEventIsLost
  <2>10. \A u \in Callers \ {t}, k \in NewsKeys : News!Holds(u, k) => News!Free(k)'
    BY <1>5, <2>6
  <2>. QED BY <1>2, <1>3, <1>4, <1>5, <2>1, <2>5, <2>7, <2>8, <2>9, <2>10, NewsMoves
<1>. QED BY <1>1, <1>7, <1>8, <1>9, <1>10, <1>11, <1>12

\* Batches that wait for each other wait for ever larger keys, and of the keys in
\* use there is a largest one.
LEMMA NoCircle ==
  ASSUME NewsInv
  PROVE  News!NoWaitCycle
<1>1. SUFFICES ASSUME NEW S \in SUBSET Callers, S # {}, \A t \in S : \E u \in S : News!Waits(t, u)
               PROVE  FALSE
  BY DEF News!NoWaitCycle
<1>2. PICK b \in Nat : \A t \in Callers : \A k \in caller[t].mine : k <= b
  BY DEF NewsInv, InsertedIsBounded
<1>. DEFINE Waited(k) == \E t, u \in S : k \in News!Upcoming(t) /\ News!Holds(u, k)
            Gap == {b - k : k \in {j \in NewsKeys : Waited(j)}}
<1>3. ASSUME NEW t \in S
      PROVE  \E k \in NewsKeys : k \in News!Upcoming(t) /\ \E u \in S : News!Holds(u, k)
  <2>1. PICK u \in S : News!Waits(t, u)
    BY <1>1
  <2>2. PICK k \in News!Upcoming(t) : News!Holds(u, k)
    BY <2>1 DEF News!Waits
  <2>3. k \in NewsKeys
    BY <2>2, CallerFacts DEF NewsInv, News!Upcoming
  <2>. QED BY <2>2, <2>3
<1>4. \A k \in NewsKeys : Waited(k) => k \in Nat /\ k <= b
  BY <1>2, LedgerConstants DEF News!Holds, News!NewsConstants
<1>5. Gap \in SUBSET Nat
  BY <1>4
<1>6. Gap # {}
  BY <1>1, <1>3
<1>7. PICK g \in Gap : \A h \in Gap : g <= h
  <2>. HIDE DEF Gap
  <2>. QED BY <1>5, <1>6, LeastNatural
<1>8. PICK k \in NewsKeys : Waited(k) /\ g = b - k
  BY <1>7
<1>9. PICK u \in S : News!Holds(u, k)
  BY <1>8
<1>10. PICK j \in NewsKeys : j \in News!Upcoming(u) /\ \E x \in S : News!Holds(x, j)
  BY <1>3
<1>11. Waited(j)
  BY <1>10
<1>12. k < j
  BY <1>9, <1>10 DEF NewsInv, InsertsInOrder, News!Holds, News!Upcoming
<1>13. b - j \in Gap /\ k \in Nat /\ j \in Nat
  BY <1>4, <1>8, <1>11
<1>14. g <= b - j
  <2>. HIDE DEF Gap
  <2>. QED BY <1>7, <1>13
<1>. QED BY <1>8, <1>12, <1>13, <1>14

\* The invariant of the claims.
LEMMA NewsInvariant == Spec => []NewsInv
<1>1. Init => NewsInv
  BY NewsInit DEF Init
<1>2. ASSUME NewsInv, UNCHANGED newsVars PROVE NewsInv'
  <2>1. claim' = claim /\ caller' = caller /\ calls' = calls
    BY <1>2 DEF newsVars
  <2>. QED BY <1>2, <2>1
           DEF NewsInv, News!TypeOK, InsertsInOrder, InsertedIsBounded, PassedIsClaimed, ClaimIsFresh,
               News!OneCallPerEvent, News!NoEventIsLost, News!Free, News!Holds
<1>3. ASSUME [Next]_vars PROVE News!Next \/ UNCHANGED newsVars
  BY <1>3 DEF Next, TradeNext, EquityNext, SourceNext, NewsNext, vars
<1>4. NewsInv /\ [Next]_vars => NewsInv'
  BY <1>2, <1>3, NewsStep
<1>. QED BY <1>1, <1>4, PTL DEF Spec

\* For every set of callers and of overlapping batches, whoever dies, loses the
\* answer to its COMMIT or comes back: no event is paid for twice, none is dropped
\* between two batches, and no batches wait for each other in a circle.
THEOREM EventsAreClaimedOnce == Spec => []ClaimedOnce
<1>1. NewsInv => ClaimedOnce
  BY NoCircle DEF NewsInv, ClaimedOnce, News!ClaimedOnce
<1>. QED BY <1>1, NewsInvariant, PTL

-----------------------------------------------------------------------------
(***************************************************************************)
(* AccountEquity.  The invariant names, for each column of a day's row, an *)
(* arrival that the column comes from; RowIsSummary then says which one.   *)
(***************************************************************************)
First(d, e) ==
  /\ e \in Equity!Arrived(d)
  /\ equity[d].firstAt = arrivals[e].at /\ equity[d].start = arrivals[e].equity
  /\ \A i \in Equity!Arrived(d) :
       arrivals[e].at <= arrivals[i].at /\ (arrivals[i].at = arrivals[e].at => e <= i)

Latest(d, e) ==
  /\ e \in Equity!Arrived(d)
  /\ equity[d].lastAt = arrivals[e].at /\ equity[d].last = arrivals[e].equity
  /\ \A i \in Equity!Arrived(d) :
       arrivals[i].at <= arrivals[e].at /\ (arrivals[i].at = arrivals[e].at => i <= e)

Highest(d, e) ==
  /\ e \in Equity!Arrived(d) /\ equity[d].peak = arrivals[e].equity
  /\ \A i \in Equity!Arrived(d) : arrivals[i].equity <= arrivals[e].equity

DayInv(d) ==
  /\ \E e \in Nat : First(d, e)
  /\ \E e \in Nat : Latest(d, e)
  /\ \E e \in Nat : Highest(d, e)
  /\ equity[d].seq = Cardinality(Equity!Arrived(d))

EquityInv ==
  /\ arrivals \in Seq(Equity!Snapshots)
  /\ DOMAIN equity \subseteq Equity!Days
  /\ \A d \in Equity!Days : d \in DOMAIN equity <=> Equity!Arrived(d) # {}
  /\ \A d \in DOMAIN equity : DayInv(d)

\* The least and the greatest element of a set of naturals.
LEMMA ExtremeOf ==
  ASSUME NEW T \in SUBSET Nat, NEW m \in T
  PROVE  /\ (\A x \in T : m <= x) => Equity!Min(T) = m
         /\ (\A x \in T : x <= m) => Equity!Max(T) = m
<1>1. ASSUME \A x \in T : m <= x PROVE Equity!Min(T) = m
  <2>1. \A y \in T : (\A x \in T : y <= x) => y = m
    BY <1>1
  <2>. QED BY <1>1, <2>1 DEF Equity!Min
<1>2. ASSUME \A x \in T : x <= m PROVE Equity!Max(T) = m
  <2>1. \A y \in T : (\A x \in T : y >= x) => y = m
    BY <1>2
  <2>2. \A x \in T : m >= x
    BY <1>2
  <2>. QED BY <2>1, <2>2 DEF Equity!Max
<1>. QED BY <1>1, <1>2

\* The smallest and the largest of two numbers.
LEMMA ExtremeOfTwo ==
  ASSUME NEW a \in Nat, NEW b \in Nat
  PROVE  /\ a <= b => Equity!Min({a, b}) = a /\ Equity!Max({a, b}) = b
         /\ b <= a => Equity!Min({a, b}) = b /\ Equity!Max({a, b}) = a
<1>1. {a, b} \in SUBSET Nat /\ a \in {a, b} /\ b \in {a, b}
  OBVIOUS
<1>2. ASSUME a <= b PROVE Equity!Min({a, b}) = a /\ Equity!Max({a, b}) = b
  <2>1. \A x \in {a, b} : a <= x /\ x <= b
    BY <1>2
  <2>. QED BY <1>1, <2>1, ExtremeOf
<1>3. ASSUME b <= a PROVE Equity!Min({a, b}) = b /\ Equity!Max({a, b}) = a
  <2>1. \A x \in {a, b} : b <= x /\ x <= a
    BY <1>3
  <2>. QED BY <1>1, <2>1, ExtremeOf
<1>. QED BY <1>2, <1>3

\* The library's facts are about the same operator as the component's.
LEMMA SameCardinality == \A T : Equity!Cardinality(T) = Cardinality(T)
  BY Zenon DEF Equity!Cardinality, Cardinality

\* What the arrivals are, and that a day has finitely many of them.
LEMMA ArrivalFacts ==
  ASSUME arrivals \in Seq(Equity!Snapshots), NEW d
  PROVE  /\ Equity!Arrived(d) \subseteq 1..Len(arrivals) /\ Equity!Arrived(d) \subseteq Nat
         /\ IsFiniteSet(Equity!Arrived(d)) /\ Cardinality(Equity!Arrived(d)) \in Nat
         /\ \A i \in 1..Len(arrivals) : /\ arrivals[i] \in Equity!Snapshots
                                        /\ arrivals[i].at \in Instants /\ arrivals[i].at \in Nat
                                        /\ arrivals[i].equity \in Equities /\ arrivals[i].equity \in Nat
         /\ Len(arrivals) \in Nat /\ DOMAIN arrivals = 1..Len(arrivals)
<1>1. Len(arrivals) \in Nat /\ DOMAIN arrivals = 1..Len(arrivals)
  OBVIOUS
<1>2. Equity!Arrived(d) \subseteq 1..Len(arrivals)
  BY <1>1 DEF Equity!Arrived
<1>3. IsFiniteSet(Equity!Arrived(d)) /\ Cardinality(Equity!Arrived(d)) \in Nat
  <2>1. IsFiniteSet(1..Len(arrivals))
    BY <1>1, FS_Interval
  <2>2. IsFiniteSet(Equity!Arrived(d))
    BY <1>2, <2>1, FS_Subset
  <2>. QED BY <2>2, FS_CardinalityType
<1>4. \A i \in 1..Len(arrivals) : arrivals[i] \in Equity!Snapshots
  BY <1>1
<1>5. \A x \in Equity!Snapshots : x.at \in Instants /\ x.at \in Nat /\ x.equity \in Equities /\ x.equity \in Nat
  BY LedgerConstants DEF Equity!Snapshots, Equity!EquityConstants
<1>. QED BY <1>1, <1>2, <1>3, <1>4, <1>5

\* The invariant gives the property.
LEMMA SummaryFollows ==
  ASSUME EquityInv
  PROVE  RowIsSummary
<1>1. SUFFICES ASSUME NEW d \in Equity!Days, d \in DOMAIN equity
               PROVE  LET I == Equity!Arrived(d)
                          early == {i \in I : \A j \in I : Equity!At(i) <= Equity!At(j)}
                          late == {i \in I : \A j \in I : Equity!At(j) <= Equity!At(i)}
                      IN  /\ equity[d].start = arrivals[Equity!Min(early)].equity
                          /\ equity[d].last = arrivals[Equity!Max(late)].equity
                          /\ equity[d].peak = Equity!Max({arrivals[i].equity : i \in I})
                          /\ equity[d].firstAt = Equity!At(Equity!Min(early))
                          /\ equity[d].lastAt = Equity!At(Equity!Max(late))
                          /\ equity[d].seq = Cardinality(I)
  BY SameCardinality DEF EquityInv, RowIsSummary, Equity!RowIsSummary
<1>. DEFINE I == Equity!Arrived(d)
            early == {i \in I : \A j \in I : Equity!At(i) <= Equity!At(j)}
            late == {i \in I : \A j \in I : Equity!At(j) <= Equity!At(i)}
            values == {arrivals[i].equity : i \in I}
<1>2. /\ I \subseteq Nat /\ \A i \in I : arrivals[i].at \in Nat /\ arrivals[i].equity \in Nat
  BY ArrivalFacts DEF EquityInv
<1>3. DayInv(d)
  BY <1>1 DEF EquityInv
<1>4. PICK e \in Nat : First(d, e)
  BY <1>3 DEF DayInv
<1>5. Equity!Min(early) = e
  <2>1. early \in SUBSET Nat /\ e \in early
    BY <1>2, <1>4 DEF First, Equity!At
  <2>2. ASSUME NEW x \in early PROVE e <= x
    <3>1. x \in I /\ e \in I /\ arrivals[x].at <= arrivals[e].at /\ arrivals[e].at <= arrivals[x].at
      BY <1>4, <2>2 DEF First, Equity!At
    <3>2. arrivals[x].at = arrivals[e].at
      BY <1>2, <3>1
    <3>. QED BY <1>4, <3>1, <3>2 DEF First
  <2>. HIDE DEF early
  <2>. QED BY <2>1, <2>2, ExtremeOf
<1>6. PICK l \in Nat : Latest(d, l)
  BY <1>3 DEF DayInv
<1>7. Equity!Max(late) = l
  <2>1. late \in SUBSET Nat /\ l \in late
    BY <1>2, <1>6 DEF Latest, Equity!At
  <2>2. ASSUME NEW x \in late PROVE x <= l
    <3>1. x \in I /\ l \in I /\ arrivals[l].at <= arrivals[x].at /\ arrivals[x].at <= arrivals[l].at
      BY <1>6, <2>2 DEF Latest, Equity!At
    <3>2. arrivals[x].at = arrivals[l].at
      BY <1>2, <3>1
    <3>. QED BY <1>6, <3>1, <3>2 DEF Latest
  <2>. HIDE DEF late
  <2>. QED BY <2>1, <2>2, ExtremeOf
<1>8. PICK p \in Nat : Highest(d, p)
  BY <1>3 DEF DayInv
<1>9. Equity!Max(values) = equity[d].peak
  <2>1. values \in SUBSET Nat /\ equity[d].peak \in values /\ \A x \in values : x <= equity[d].peak
    BY <1>2, <1>8 DEF Highest
  <2>. HIDE DEF values
  <2>. QED BY <2>1, ExtremeOf
<1>10. equity[d].seq = Cardinality(I)
  BY <1>3 DEF DayInv
<1>. QED BY <1>4, <1>5, <1>6, <1>7, <1>9, <1>10 DEF First, Latest, Equity!At

\* A snapshot joins the arrivals of its day.
LEMMA ArrivedStep ==
  ASSUME arrivals \in Seq(Equity!Snapshots), NEW s \in Equity!Snapshots,
         arrivals' = Append(arrivals, s), NEW d, NEW n, n = Len(arrivals)
  PROVE  /\ n \in Nat /\ n + 1 \notin Equity!Arrived(d)
         /\ Equity!TradingDay(s.at) = d => Equity!Arrived(d)' = Equity!Arrived(d) \cup {n + 1}
         /\ Equity!TradingDay(s.at) # d => Equity!Arrived(d)' = Equity!Arrived(d)
         /\ \A i \in Equity!Arrived(d) : i \in Nat /\ i <= n /\ arrivals'[i] = arrivals[i]
         /\ arrivals'[n + 1] = s /\ arrivals' \in Seq(Equity!Snapshots)
<1>1. /\ n \in Nat /\ DOMAIN arrivals = 1..n /\ DOMAIN arrivals' = 1..(n + 1)
      /\ \A i \in 1..n : arrivals'[i] = arrivals[i]
      /\ arrivals'[n + 1] = s /\ arrivals' \in Seq(Equity!Snapshots)
  BY AppendFacts
<1>2. /\ Equity!Arrived(d) = {i \in 1..n : Equity!TradingDay(arrivals[i].at) = d}
      /\ Equity!Arrived(d)' = {i \in 1..(n + 1) : Equity!TradingDay(arrivals'[i].at) = d}
  BY <1>1 DEF Equity!Arrived, Equity!TradingDay
<1>3. /\ Equity!TradingDay(s.at) = d => Equity!Arrived(d)' = Equity!Arrived(d) \cup {n + 1}
      /\ Equity!TradingDay(s.at) # d => Equity!Arrived(d)' = Equity!Arrived(d)
  <2>1. ASSUME NEW i \in 1..(n + 1)
        PROVE  Equity!TradingDay(arrivals'[i].at) = d
                 <=> \/ i \in 1..n /\ Equity!TradingDay(arrivals[i].at) = d
                     \/ i = n + 1 /\ Equity!TradingDay(s.at) = d
    <3>1. CASE i = n + 1
      BY <1>1, <3>1
    <3>2. CASE i \in 1..n
      BY <1>1, <3>2
    <3>. QED BY <1>1, <3>1, <3>2
  <2>2. 1..n \subseteq 1..(n + 1) /\ n + 1 \in 1..(n + 1)
    BY <1>1
  <2>. QED BY <1>2, <2>1, <2>2
<1>. QED BY <1>1, <1>2, <1>3

\* A snapshot, early or late, keeps the row the summary of all snapshots.
LEMMA EquityStep ==
  ASSUME EquityInv, NEW s \in Equity!Snapshots, Equity!RecordEquity(s)
  PROVE  EquityInv'
<1>0. PICK n \in Nat : n = Len(arrivals)
  BY DEF EquityInv
<1>. DEFINE d == Equity!TradingDay(s.at)
            new == IF d \in DOMAIN equity THEN Equity!Upserted(equity[d], s) ELSE Equity!FirstRow(s)
<1>1. /\ arrivals \in Seq(Equity!Snapshots) /\ arrivals' = Append(arrivals, s)
      /\ equity' = [x \in DOMAIN equity \cup {d} |-> IF x = d THEN new ELSE equity[x]]
  BY DEF EquityInv, Equity!RecordEquity
<1>2. d \in Equity!Days /\ s.at \in Nat /\ s.equity \in Nat /\ s.at \in Instants
  BY LedgerConstants DEF Equity!Days, Equity!Snapshots, Equity!EquityConstants
<1>3. /\ DOMAIN equity' = DOMAIN equity \cup {d} /\ equity'[d] = new
      /\ \A x \in DOMAIN equity \ {d} : equity'[x] = equity[x]
  BY <1>1
<1>. HIDE DEF d, new
<1>4. /\ n \in Nat /\ n + 1 \notin Equity!Arrived(d) /\ n + 1 \in Nat
      /\ Equity!Arrived(d)' = Equity!Arrived(d) \cup {n + 1}
      /\ \A i \in Equity!Arrived(d) : i \in Nat /\ i <= n /\ arrivals'[i] = arrivals[i]
      /\ arrivals'[n + 1] = s /\ arrivals' \in Seq(Equity!Snapshots)
  <2>1. Equity!TradingDay(s.at) = d
    BY DEF d
  <2>2. n + 1 \in Nat
    BY <1>0
  <2>. QED BY <1>0, <1>1, <2>1, <2>2, ArrivedStep
<1>5. ASSUME NEW x, x # d
      PROVE  /\ Equity!Arrived(x)' = Equity!Arrived(x)
             /\ \A i \in Equity!Arrived(x) : i \in Nat /\ arrivals'[i] = arrivals[i]
  BY <1>0, <1>1, <1>5, ArrivedStep DEF d
<1>6. DOMAIN equity' \subseteq Equity!Days
  BY <1>2, <1>3 DEF EquityInv
<1>7. \A x \in Equity!Days' : x \in DOMAIN equity' <=> Equity!Arrived(x)' # {}
  <2>1. Equity!Days' = Equity!Days
    BY DEF Equity!Days, Equity!TradingDay
  <2>2. SUFFICES ASSUME NEW x \in Equity!Days
                 PROVE  x \in DOMAIN equity' <=> Equity!Arrived(x)' # {}
    BY <2>1
  <2>3. CASE x = d
    BY <1>3, <1>4, <2>3
  <2>4. CASE x # d
    BY <1>3, <1>5, <2>4 DEF EquityInv
  <2>. QED BY <2>3, <2>4
<1>8. ASSUME NEW x \in DOMAIN equity, x # d PROVE DayInv(x)'
  <2>1. DayInv(x) /\ equity'[x] = equity[x]
    BY <1>3, <1>8 DEF EquityInv
  <2>2. ASSUME NEW e \in Nat PROVE /\ First(x, e) => First(x, e)'
                                   /\ Latest(x, e) => Latest(x, e)'
                                   /\ Highest(x, e) => Highest(x, e)'
    BY <1>5, <1>8, <2>1 DEF First, Latest, Highest
  <2>3. (equity[x].seq = Cardinality(Equity!Arrived(x)))'
    BY <1>5, <1>8, <2>1 DEF DayInv
  <2>. QED BY <2>1, <2>2, <2>3 DEF DayInv
<1>9. CASE d \notin DOMAIN equity
  <2>1. Equity!Arrived(d) = {} /\ Equity!Arrived(d)' = {n + 1}
    BY <1>2, <1>4, <1>9 DEF EquityInv
  <2>2. /\ new.start = s.equity /\ new.peak = s.equity /\ new.last = s.equity
        /\ new.firstAt = s.at /\ new.lastAt = s.at /\ new.seq = 1
    BY <1>9 DEF new, Equity!FirstRow
  <2>3. First(d, n + 1)' /\ Latest(d, n + 1)' /\ Highest(d, n + 1)'
    BY <1>2, <1>3, <1>4, <2>1, <2>2 DEF First, Latest, Highest
  <2>4. (equity[d].seq = Cardinality(Equity!Arrived(d)))'
    BY <1>3, <2>1, <2>2, FS_Singleton
  <2>5. DayInv(d)'
    BY <1>4, <2>3, <2>4 DEF DayInv
  <2>. QED BY <1>3, <1>4, <1>6, <1>7, <1>8, <2>5 DEF EquityInv
<1>10. CASE d \in DOMAIN equity
  <2>. DEFINE old == equity[d]
              I == Equity!Arrived(d)
  <2>1. /\ new.start = (IF s.at < old.firstAt THEN s.equity ELSE old.start)
        /\ new.peak = Equity!Max({old.peak, s.equity})
        /\ new.last = (IF s.at >= old.lastAt THEN s.equity ELSE old.last)
        /\ new.firstAt = Equity!Min({old.firstAt, s.at})
        /\ new.lastAt = Equity!Max({old.lastAt, s.at})
        /\ new.seq = old.seq + 1
    BY <1>10 DEF new, Equity!Upserted
  <2>2. DayInv(d)
    BY <1>10 DEF EquityInv
  <2>3. \A i \in I : arrivals[i].at \in Nat /\ arrivals[i].equity \in Nat /\ i \in Nat /\ i <= n
    BY <1>1, <1>4, ArrivalFacts
  <2>5. \E e \in Nat : First(d, e)'
    <3>1. PICK e \in Nat : First(d, e)
      BY <2>2 DEF DayInv
    <3>2. e \in I /\ old.firstAt = arrivals[e].at /\ old.firstAt \in Nat
      BY <2>3, <3>1 DEF First
    <3>3. CASE s.at < old.firstAt
      <4>1. new.firstAt = s.at /\ new.start = s.equity
        BY <1>2, <2>1, ExtremeOfTwo, <3>2, <3>3
      <4>2. \A i \in I : s.at < arrivals[i].at
        BY <1>2, <2>3, <3>1, <3>2, <3>3 DEF First
      <4>3. \A i \in I : s.at <= arrivals[i].at /\ arrivals[i].at # s.at
        BY <1>2, <2>3, <4>2
      <4>4. First(d, n + 1)'
        BY <1>2, <1>3, <1>4, <4>1, <4>3 DEF First
      <4>. QED BY <1>4, <4>4
    <3>4. CASE ~(s.at < old.firstAt)
      <4>1. new.firstAt = old.firstAt /\ new.start = old.start
        BY <1>2, <2>1, ExtremeOfTwo, <3>2, <3>4
      <4>2. e <= n + 1 /\ arrivals[e].at <= s.at
        BY <1>2, <1>4, <2>3, <3>2, <3>4
      <4>3. First(d, e)'
        BY <1>3, <1>4, <3>1, <3>2, <4>1, <4>2 DEF First
      <4>. QED BY <4>3
    <3>. QED BY <3>3, <3>4
  <2>6. \E e \in Nat : Latest(d, e)'
    <3>1. PICK e \in Nat : Latest(d, e)
      BY <2>2 DEF DayInv
    <3>2. e \in I /\ old.lastAt = arrivals[e].at /\ old.lastAt \in Nat
      BY <2>3, <3>1 DEF Latest
    <3>3. CASE s.at >= old.lastAt
      <4>1. new.lastAt = s.at /\ new.last = s.equity
        <5>1. old.lastAt <= s.at
          BY <1>2, <3>2, <3>3
        <5>2. Equity!Max({old.lastAt, s.at}) = s.at
          BY <1>2, <3>2, <5>1, ExtremeOfTwo
        <5>. QED BY <2>1, <3>3, <5>2
      <4>2. \A i \in I : arrivals[i].at <= s.at /\ i <= n + 1
        BY <1>2, <1>4, <2>3, <3>1, <3>2, <3>3 DEF Latest
      <4>3. Latest(d, n + 1)'
        BY <1>2, <1>3, <1>4, <4>1, <4>2 DEF Latest
      <4>. QED BY <1>4, <4>3
    <3>4. CASE ~(s.at >= old.lastAt)
      <4>1. new.lastAt = old.lastAt /\ new.last = old.last
        <5>1. s.at <= old.lastAt
          BY <1>2, <3>2, <3>4
        <5>2. Equity!Max({old.lastAt, s.at}) = old.lastAt
          BY <1>2, <3>2, <5>1, ExtremeOfTwo
        <5>. QED BY <2>1, <3>4, <5>2
      <4>2. s.at < arrivals[e].at
        BY <1>2, <3>2, <3>4
      <4>3. s.at <= arrivals[e].at /\ s.at # arrivals[e].at
        BY <1>2, <3>2, <4>2
      <4>4. Latest(d, e)'
        BY <1>3, <1>4, <3>1, <3>2, <4>1, <4>3 DEF Latest
      <4>. QED BY <4>4
    <3>. QED BY <3>3, <3>4
  <2>7. \E e \in Nat : Highest(d, e)'
    <3>1. PICK e \in Nat : Highest(d, e)
      BY <2>2 DEF DayInv
    <3>2. e \in I /\ old.peak = arrivals[e].equity /\ old.peak \in Nat
      BY <2>3, <3>1 DEF Highest
    <3>3. CASE old.peak >= s.equity
      <4>1. new.peak = old.peak /\ s.equity <= arrivals[e].equity
        BY <1>2, <2>1, ExtremeOfTwo, <3>2, <3>3
      <4>2. Highest(d, e)'
        BY <1>3, <1>4, <3>1, <3>2, <4>1 DEF Highest
      <4>. QED BY <4>2
    <3>4. CASE ~(old.peak >= s.equity)
      <4>1. new.peak = s.equity
        <5>1. old.peak <= s.equity
          BY <1>2, <3>2, <3>4
        <5>2. Equity!Max({old.peak, s.equity}) = s.equity
          BY <1>2, <3>2, <5>1, ExtremeOfTwo
        <5>. QED BY <2>1, <3>4, <5>2
      <4>2. \A i \in I : arrivals[i].equity <= s.equity
        BY <1>2, <2>3, <3>1, <3>2, <3>4 DEF Highest
      <4>3. Highest(d, n + 1)'
        BY <1>2, <1>3, <1>4, <4>1, <4>2 DEF Highest
      <4>. QED BY <1>4, <4>3
    <3>. QED BY <3>3, <3>4
  <2>8. (equity[d].seq = Cardinality(Equity!Arrived(d)))'
    <3>1. IsFiniteSet(I) /\ old.seq = Cardinality(I)
      BY <1>1, <2>2, ArrivalFacts DEF DayInv
    <3>2. Cardinality(I \cup {n + 1}) = Cardinality(I) + 1
      BY <1>4, <3>1, FS_AddElement
    <3>. QED BY <1>3, <1>4, <2>1, <3>1, <3>2
  <2>9. DayInv(d)'
    BY <2>5, <2>6, <2>7, <2>8 DEF DayInv
  <2>. QED BY <1>3, <1>4, <1>6, <1>7, <1>8, <2>9 DEF EquityInv
<1>. QED BY <1>9, <1>10

\* For every set of capture times and values, every length of the day and any order
\* of arrival: the row of a day is the summary of its snapshots in the order of
\* capture.
THEOREM RowIsTheSummary == Spec => []RowIsSummary
<1>1. Init => EquityInv
  BY DEF Init, Equity!Init, EquityInv, Equity!Arrived
<1>2. ASSUME EquityInv, UNCHANGED equityVars PROVE EquityInv'
  <2>1. equity' = equity /\ arrivals' = arrivals
    BY <1>2 DEF equityVars
  <2>2. \A d : Equity!Arrived(d)' = Equity!Arrived(d)
    BY <2>1 DEF Equity!Arrived, Equity!TradingDay
  <2>3. Equity!Days' = Equity!Days
    BY DEF Equity!Days, Equity!TradingDay
  <2>4. \A d : DayInv(d) => DayInv(d)'
    BY <2>1, <2>2 DEF DayInv, First, Latest, Highest
  <2>. QED BY <1>2, <2>1, <2>2, <2>3, <2>4 DEF EquityInv
<1>3. ASSUME [Next]_vars PROVE Equity!Next \/ UNCHANGED equityVars
  BY <1>3 DEF Next, TradeNext, EquityNext, SourceNext, NewsNext, vars
<1>4. EquityInv /\ [Next]_vars => EquityInv'
  BY <1>2, <1>3, EquityStep DEF Equity!Next
<1>5. EquityInv => RowIsSummary
  BY SummaryFollows
<1>. QED BY <1>1, <1>4, <1>5, PTL DEF Spec

-----------------------------------------------------------------------------
(***************************************************************************)
(* SourceState.  Between the check of a reservation and its row only       *)
(* charges that shrink can happen: the lock keeps other reservations and   *)
(* the adoption of a campaign away.  So what a check found still fits.     *)
(***************************************************************************)
\* What the keys count for in rows u, together and for one service, source and month.
ChargesIn(u) ==
  [k \in UsageKeys |-> IF u[k].status = "RESERVED" THEN Cost[k] ELSE IF u[k].status = "COMMITTED" THEN u[k].actual ELSE 0]

MonthIn(u, s, src, m) ==
  [k \in UsageKeys |-> IF ServiceOf[k] = s /\ SourceOf[k] = src /\ u[k].month = m THEN ChargesIn(u)[k] ELSE 0]

Total(u) == SumFunctionOnSet(ChargesIn(u), UsageKeys)
MonthTotal(u, s, src, m) == SumFunctionOnSet(MonthIn(u, s, src, m), UsageKeys)

\* With rows u and the campaign c, if any, a reservation fits into the budgets.
Room(u, c, k, m) ==
  IF c # None
  THEN /\ c.historical + Total(u) + Cost[k] <= Monthly[ServiceOf[k]]
       /\ c.historical + Total(u) + Cost[k] <= c.budget
  ELSE MonthTotal(u, ServiceOf[k], SourceOf[k], m) + Cost[k] <= Monthly[ServiceOf[k]]

TasksFit ==
  \A x \in Reservers :
    /\ task[x].at # "idle" => task[x].key \in UsageKeys
    /\ task[x].at = "checked" => usage[task[x].key].status = "NONE" /\ Room(usage, campaign, task[x].key, task[x].month)

\* The budgets, as sums over all keys.
CampaignFits ==
  campaign # None => \/ campaign.historical + Total(usage) <= campaign.budget
                     \/ campaign.historical + Total(usage) <= adopted

MonthsFit == \A s \in Services, src \in Sources, m \in Source!Months : MonthTotal(usage, s, src, m) <= Monthly[s]

SourceInv == Source!TypeOK /\ TasksFit /\ CampaignFits /\ MonthsFit

\* What the assumption says of keys and budgets.
LEMMA SourceFacts ==
  /\ IsFiniteSet(UsageKeys) /\ ServiceOf \in [UsageKeys -> Services] /\ SourceOf \in [UsageKeys -> Sources]
  /\ Cost \in [UsageKeys -> Nat] /\ Monthly \in [Services -> Nat]
  /\ \A c \in Adoptions : c.budget \in Nat /\ c.historical \in Nat
  /\ None \notin UsageKeys /\ None \notin Reservers /\ None \notin Adoptions /\ MaxMonth \in Nat
<1>1. Source!IsFiniteSet(UsageKeys)
  BY LedgerConstants DEF Source!SourceConstants
<1>2. IsFiniteSet(UsageKeys)
  BY <1>1, Zenon DEF Source!IsFiniteSet, IsFiniteSet
<1>. QED BY <1>2, LedgerConstants DEF Source!SourceConstants

\* Charges are naturals, and a month is a part of all.
LEMMA TotalTypes ==
  ASSUME NEW u \in [UsageKeys -> Source!Rows]
  PROVE  /\ \A k \in UsageKeys : ChargesIn(u)[k] \in Nat
         /\ Total(u) \in Nat
         /\ \A s, src, m : MonthTotal(u, s, src, m) \in Nat /\ MonthTotal(u, s, src, m) <= Total(u)
<1>1. ASSUME NEW k \in UsageKeys PROVE ChargesIn(u)[k] \in Nat
  BY SourceFacts DEF ChargesIn, Source!Rows
<1>2. Total(u) \in Nat
  BY <1>1, SourceFacts, SumNatural DEF Total
<1>3. ASSUME NEW s, NEW src, NEW m
      PROVE  MonthTotal(u, s, src, m) \in Nat /\ MonthTotal(u, s, src, m) <= Total(u)
  <2>. DEFINE f == MonthIn(u, s, src, m)
              g == ChargesIn(u)
  <2>1. \A k \in UsageKeys : f[k] \in Nat /\ g[k] \in Nat /\ f[k] <= g[k]
    BY <1>1 DEF MonthIn
  <2>. HIDE DEF f, g
  <2>2. SumFunctionOnSet(f, UsageKeys) \in Nat /\ SumFunctionOnSet(f, UsageKeys) <= SumFunctionOnSet(g, UsageKeys)
    BY <2>1, SourceFacts, SumNatural, SumGrows
  <2>. QED BY <2>2 DEF Total, MonthTotal, f, g
<1>. QED BY <1>1, <1>2, <1>3

\* ChargeOf as these sums.
LEMMA ChargeSums ==
  ASSUME Source!TypeOK
  PROVE  /\ Source!ChargeOf(UsageKeys) = Total(usage)
         /\ \A s, src, m : Source!ChargeOf({k \in UsageKeys : ServiceOf[k] = s /\ SourceOf[k] = src /\ usage[k].month = m})
                             = MonthTotal(usage, s, src, m)
<1>. DEFINE f == ChargesIn(usage)
<1>1. ASSUME NEW S PROVE Source!SumFunctionOnSet(f, S) = (CHOOSE g : SumEq(f, S, g))[S]
  BY Zenon DEF Source!SumFunctionOnSet, Source!FoldFunctionOnSet, Source!MapThenFoldSet, SumEq, Pick
<1>2. ASSUME NEW S PROVE Source!SumFunctionOnSet(f, S) = SumFunctionOnSet(f, S)
  BY <1>1, SumIsSolution
<1>3. [k \in UsageKeys |-> Source!Charge(k)] = f
  BY DEF ChargesIn, Source!Charge
<1>4. ASSUME NEW S PROVE Source!ChargeOf(S) = SumFunctionOnSet(f, S)
  <2>1. Source!ChargeOf(S) = Source!SumFunctionOnSet([k \in UsageKeys |-> Source!Charge(k)], S)
    BY DEF Source!ChargeOf
  <2>. HIDE DEF f
  <2>. QED BY <1>2, <1>3, <2>1
<1>5. \A k \in UsageKeys : f[k] \in Nat
  BY TotalTypes DEF Source!TypeOK
<1>6. ASSUME NEW s, NEW src, NEW m
      PROVE  Source!ChargeOf({k \in UsageKeys : ServiceOf[k] = s /\ SourceOf[k] = src /\ usage[k].month = m})
               = MonthTotal(usage, s, src, m)
  <2>. DEFINE S == {k \in UsageKeys : ServiceOf[k] = s /\ SourceOf[k] = src /\ usage[k].month = m}
              g == MonthIn(usage, s, src, m)
  <2>1. S \in SUBSET UsageKeys /\ (\A x \in S : f[x] \in Nat /\ g[x] = f[x]) /\ \A x \in UsageKeys \ S : g[x] = 0
    BY <1>5 DEF MonthIn
  <2>2. MonthTotal(usage, s, src, m) = SumFunctionOnSet(g, UsageKeys)
    BY DEF MonthTotal
  <2>. HIDE DEF f, g, S
  <2>3. SumFunctionOnSet(f, S) = SumFunctionOnSet(g, UsageKeys)
    BY <2>1, SourceFacts, SumFilter
  <2>4. Source!ChargeOf(S) = MonthTotal(usage, s, src, m)
    BY <1>4, <2>2, <2>3
  <2>. QED BY <2>4 DEF S
<1>7. Source!ChargeOf(UsageKeys) = Total(usage)
  BY <1>4 DEF Total
<1>. QED BY <1>6, <1>7

\* A commit or a release lowers the sums.
LEMMA SumsShrink ==
  ASSUME NEW u \in [UsageKeys -> Source!Rows], NEW v \in [UsageKeys -> Source!Rows],
         \A k \in UsageKeys : v[k].month = u[k].month /\ ChargesIn(v)[k] <= ChargesIn(u)[k]
  PROVE  /\ Total(v) <= Total(u)
         /\ \A s, src, m : MonthTotal(v, s, src, m) <= MonthTotal(u, s, src, m)
<1>0. \A k \in UsageKeys : ChargesIn(u)[k] \in Nat /\ ChargesIn(v)[k] \in Nat
  BY TotalTypes
<1>1. Total(v) <= Total(u)
  BY <1>0, SourceFacts, SumGrows DEF Total
<1>2. ASSUME NEW s, NEW src, NEW m PROVE MonthTotal(v, s, src, m) <= MonthTotal(u, s, src, m)
  <2>. DEFINE f == MonthIn(v, s, src, m)
              g == MonthIn(u, s, src, m)
  <2>1. \A k \in UsageKeys : f[k] \in Nat /\ g[k] \in Nat /\ f[k] <= g[k]
    BY <1>0 DEF MonthIn
  <2>. HIDE DEF f, g
  <2>2. SumFunctionOnSet(f, UsageKeys) <= SumFunctionOnSet(g, UsageKeys)
    BY <2>1, SourceFacts, SumGrows
  <2>. QED BY <2>2 DEF MonthTotal, f, g
<1>. QED BY <1>1, <1>2

\* A reservation adds its cost, in its own month only.
LEMMA SumsRise ==
  ASSUME NEW u \in [UsageKeys -> Source!Rows], NEW v \in [UsageKeys -> Source!Rows], NEW e \in UsageKeys, NEW n,
         u[e].status = "NONE", v[e].status = "RESERVED", v[e].month = n, \A k \in UsageKeys \ {e} : v[k] = u[k]
  PROVE  /\ Total(v) = Total(u) + Cost[e]
         /\ MonthTotal(v, ServiceOf[e], SourceOf[e], n) = MonthTotal(u, ServiceOf[e], SourceOf[e], n) + Cost[e]
         /\ \A s, src, m : ~(s = ServiceOf[e] /\ src = SourceOf[e] /\ m = n) =>
              MonthTotal(v, s, src, m) = MonthTotal(u, s, src, m)
<1>0. \A k \in UsageKeys : ChargesIn(u)[k] \in Nat /\ ChargesIn(v)[k] \in Nat
  BY TotalTypes
<1>1. /\ ChargesIn(u)[e] = 0 /\ ChargesIn(v)[e] = Cost[e]
      /\ \A k \in UsageKeys \ {e} : ChargesIn(v)[k] = ChargesIn(u)[k]
  BY DEF ChargesIn
<1>5. IsFiniteSet(UsageKeys)
  BY SourceFacts
<1>2. Total(v) = Total(u) + Cost[e]
  <2>. DEFINE f == ChargesIn(u)
              g == ChargesIn(v)
  <2>1. /\ f[e] = 0 /\ g[e] = Cost[e] /\ (\A k \in UsageKeys \ {e} : g[k] = f[k])
        /\ \A k \in UsageKeys : f[k] \in Nat /\ g[k] \in Nat
    BY <1>0, <1>1
  <2>. HIDE DEF f, g
  <2>2. SumFunctionOnSet(g, UsageKeys) = SumFunctionOnSet(f, UsageKeys) + g[e]
    BY <1>5, <2>1, SumRaise
  <2>. QED BY <2>1, <2>2 DEF Total, f, g
<1>3. MonthTotal(v, ServiceOf[e], SourceOf[e], n) = MonthTotal(u, ServiceOf[e], SourceOf[e], n) + Cost[e]
  <2>. DEFINE f == MonthIn(u, ServiceOf[e], SourceOf[e], n)
              g == MonthIn(v, ServiceOf[e], SourceOf[e], n)
  <2>1. /\ f[e] = 0 /\ g[e] = Cost[e] /\ (\A k \in UsageKeys \ {e} : g[k] = f[k])
        /\ \A k \in UsageKeys : f[k] \in Nat /\ g[k] \in Nat
    BY <1>0, <1>1 DEF MonthIn
  <2>. HIDE DEF f, g
  <2>2. SumFunctionOnSet(g, UsageKeys) = SumFunctionOnSet(f, UsageKeys) + g[e]
    BY <1>5, <2>1, SumRaise
  <2>. QED BY <2>1, <2>2 DEF MonthTotal, f, g
<1>4. ASSUME NEW s, NEW src, NEW m, ~(s = ServiceOf[e] /\ src = SourceOf[e] /\ m = n)
      PROVE  MonthTotal(v, s, src, m) = MonthTotal(u, s, src, m)
  <2>. DEFINE f == MonthIn(u, s, src, m)
              g == MonthIn(v, s, src, m)
  <2>1. \A k \in UsageKeys : f[k] \in Nat /\ g[k] = f[k]
    BY <1>0, <1>1, <1>4 DEF MonthIn
  <2>. HIDE DEF f, g
  <2>2. SumFunctionOnSet(f, UsageKeys) = SumFunctionOnSet(g, UsageKeys)
    BY <2>1, SourceFacts, SumSame
  <2>. QED BY <2>2 DEF MonthTotal, f, g
<1>. QED BY <1>2, <1>3, <1>4

\* Without a row there is nothing to count.
LEMMA SourceInit == Source!Init => SourceInv
<1>. SUFFICES ASSUME Source!Init PROVE SourceInv
  OBVIOUS
<1>1. /\ month = 0 /\ campaign = None /\ adopted = 0 /\ usage = [k \in UsageKeys |-> Source!NoRow]
      /\ task = [x \in Reservers |-> Source!Idle] /\ lock = None /\ cursor = None
  BY DEF Source!Init
<1>2. Source!NoRow \in Source!Rows /\ Source!NoRow.status = "NONE" /\ Source!NoRow.actual = 0
  BY SourceFacts DEF Source!NoRow, Source!Rows, Source!Months
<1>3. usage \in [UsageKeys -> Source!Rows] /\ \A k \in UsageKeys : usage[k].status = "NONE" /\ usage[k].actual = 0
  BY <1>1, <1>2
<1>4. \A x \in Reservers : task[x] \in Source!TaskStates /\ task[x].at = "idle"
  BY <1>1, SourceFacts DEF Source!Idle, Source!TaskStates, Source!Months
<1>5. Source!TypeOK
  <2>1. month \in Source!Months /\ adopted \in Nat /\ campaign \in Adoptions \cup {None} /\ lock \in Reservers \cup {None}
        /\ cursor \in 0..MaxCursor \cup {None}
    BY <1>1, SourceFacts DEF Source!Months
  <2>2. \A k \in UsageKeys : usage[k].actual <= Cost[k] /\ ~(usage[k].actual > 0)
    BY <1>3, SourceFacts
  <2>3. task \in [Reservers -> Source!TaskStates]
    BY <1>1, <1>4
  <2>4. \A x \in Reservers : task[x].at = "checked" <=> lock = x
    BY <1>1, <1>4, SourceFacts
  <2>. QED BY <1>3, <2>1, <2>2, <2>3, <2>4 DEF Source!TypeOK
<1>6. TasksFit /\ CampaignFits
  BY <1>1, <1>4 DEF TasksFit, CampaignFits
<1>7. Total(usage) = 0
  <2>. DEFINE f == ChargesIn(usage)
  <2>1. \A k \in UsageKeys : f[k] = 0
    BY <1>3 DEF ChargesIn
  <2>. HIDE DEF f
  <2>2. SumFunctionOnSet(f, UsageKeys) = 0
    BY <2>1, SourceFacts, SumZero
  <2>. QED BY <2>2 DEF Total, f
<1>8. MonthsFit
  <2>. SUFFICES ASSUME NEW s \in Services, NEW src \in Sources, NEW m \in Source!Months
                PROVE  MonthTotal(usage, s, src, m) <= Monthly[s]
    BY DEF MonthsFit
  <2>1. MonthTotal(usage, s, src, m) \in Nat /\ MonthTotal(usage, s, src, m) <= Total(usage)
    BY <1>3, TotalTypes
  <2>2. Monthly[s] \in Nat
    BY SourceFacts
  <2>. QED BY <1>7, <2>1, <2>2
<1>. QED BY <1>5, <1>6, <1>8 DEF SourceInv

\* A step with rows that count for no more leaves room where there was room.
LEMMA RoomStays ==
  ASSUME Source!TypeOK, usage' \in [UsageKeys -> Source!Rows], campaign' = campaign,
         Total(usage') <= Total(usage),
         \A s, src, m : MonthTotal(usage', s, src, m) <= MonthTotal(usage, s, src, m)
  PROVE  /\ \A k \in UsageKeys, m \in Source!Months : Room(usage, campaign, k, m) => Room(usage', campaign', k, m)
         /\ adopted' = adopted /\ CampaignFits => CampaignFits'
         /\ MonthsFit => MonthsFit'
<1>0. Total(usage) \in Nat /\ Total(usage') \in Nat
  BY TotalTypes DEF Source!TypeOK
<1>1. \A s, src, m : MonthTotal(usage, s, src, m) \in Nat /\ MonthTotal(usage', s, src, m) \in Nat
  BY TotalTypes DEF Source!TypeOK
<1>2. campaign # None => campaign.historical \in Nat /\ campaign.budget \in Nat
  BY SourceFacts DEF Source!TypeOK
<1>. DEFINE t == Total(usage)
            n == Total(usage')
<1>3. t \in Nat /\ n \in Nat /\ n <= t
  BY <1>0
<1>. HIDE DEF t, n
<1>4. ASSUME NEW k \in UsageKeys, NEW m \in Source!Months, Room(usage, campaign, k, m) PROVE Room(usage', campaign', k, m)
  <2>0. Cost[k] \in Nat /\ ServiceOf[k] \in Services /\ Monthly[ServiceOf[k]] \in Nat
    BY SourceFacts
  <2>1. CASE campaign # None
    <3>1. campaign.historical + t + Cost[k] <= Monthly[ServiceOf[k]] /\ campaign.historical + t + Cost[k] <= campaign.budget
      BY <1>4, <2>1 DEF Room, t
    <3>2. campaign.historical + n + Cost[k] <= Monthly[ServiceOf[k]] /\ campaign.historical + n + Cost[k] <= campaign.budget
      BY <1>2, <1>3, <2>0, <2>1, <3>1
    <3>. QED BY <2>1, <3>2 DEF Room, n
  <2>2. CASE campaign = None
    <3>. DEFINE a == MonthTotal(usage, ServiceOf[k], SourceOf[k], m)
                b == MonthTotal(usage', ServiceOf[k], SourceOf[k], m)
    <3>1. a \in Nat /\ b \in Nat /\ b <= a
      BY <1>1
    <3>2. a + Cost[k] <= Monthly[ServiceOf[k]]
      BY <1>4, <2>2 DEF Room
    <3>. HIDE DEF a, b
    <3>3. b + Cost[k] <= Monthly[ServiceOf[k]]
      BY <2>0, <3>1, <3>2
    <3>. QED BY <2>2, <3>3 DEF Room, b
  <2>. QED BY <2>1, <2>2
<1>5. ASSUME adopted' = adopted, CampaignFits PROVE CampaignFits'
  <2>. SUFFICES ASSUME campaign # None
                PROVE  campaign.historical + n <= campaign.budget \/ campaign.historical + n <= adopted
    BY <1>5 DEF CampaignFits, n
  <2>1. campaign.historical + t <= campaign.budget \/ campaign.historical + t <= adopted
    BY <1>5 DEF CampaignFits, t
  <2>2. adopted \in Nat
    BY DEF Source!TypeOK
  <2>. QED BY <1>2, <1>3, <2>1, <2>2
<1>6. ASSUME MonthsFit PROVE MonthsFit'
  <2>. SUFFICES ASSUME NEW s \in Services, NEW src \in Sources, NEW m \in Source!Months
                PROVE  MonthTotal(usage', s, src, m) <= Monthly[s]
    BY DEF MonthsFit, Source!Months
  <2>. DEFINE a == MonthTotal(usage, s, src, m)
              b == MonthTotal(usage', s, src, m)
  <2>1. a \in Nat /\ b \in Nat /\ b <= a /\ a <= Monthly[s] /\ Monthly[s] \in Nat
    BY <1>1, <1>6, SourceFacts DEF MonthsFit
  <2>. HIDE DEF a, b
  <2>2. b <= Monthly[s]
    BY <2>1
  <2>. QED BY <2>2 DEF b
<1>. QED BY <1>4, <1>5, <1>6

\* What a task may do while the rows stay: anything but a check.
LEMMA RowsUntouched ==
  ASSUME SourceInv, usage' = usage, campaign' = campaign, adopted' = adopted, Source!TypeOK',
         \A x \in Reservers : /\ task'[x].at # "idle" => task'[x].key \in UsageKeys
                              /\ task'[x].at = "checked" => task'[x] = task[x]
  PROVE  SourceInv'
<1>0. Source!TypeOK /\ TasksFit /\ CampaignFits /\ MonthsFit
  BY DEF SourceInv
<1>1. CampaignFits' /\ MonthsFit'
  BY <1>0 DEF CampaignFits, MonthsFit, Source!Months
<1>2. ASSUME NEW x \in Reservers, task'[x].at = "checked"
      PROVE  usage[task'[x].key].status = "NONE" /\ Room(usage', campaign', task'[x].key, task'[x].month)
  <2>1. usage[task[x].key].status = "NONE" /\ Room(usage, campaign, task[x].key, task[x].month) /\ task'[x] = task[x]
    BY <1>0, <1>2 DEF TasksFit
  <2>. QED BY <2>1 DEF Room
<1>. QED BY <1>1, <1>2 DEF SourceInv, TasksFit

\* reserve_usage: the question, the check under the lock, and giving up.
LEMMA AskStep ==
  ASSUME SourceInv, NEW x \in Reservers, NEW k \in UsageKeys, Source!Ask(x, k)
  PROVE  SourceInv'
<1>0. Source!TypeOK /\ TasksFit
  BY DEF SourceInv
<1>. DEFINE s == [at |-> "asked", key |-> k, month |-> month]
<1>1. /\ task[x].at = "idle" /\ task' = [task EXCEPT ![x] = s] /\ UNCHANGED <<month, campaign, adopted, usage, lock, cursor>>
  BY DEF Source!Ask
<1>2. s \in Source!TaskStates /\ s.at = "asked" /\ s.key = k
  BY <1>0 DEF Source!TaskStates, Source!TypeOK
<1>. HIDE DEF s
<1>3. task \in [Reservers -> Source!TaskStates]
  BY <1>0 DEF Source!TypeOK
<1>4. task'[x] = s /\ \A y \in Reservers \ {x} : task'[y] = task[y]
  BY <1>1, <1>3
<1>5. Source!TypeOK'
  <2>1. task' \in [Reservers -> Source!TaskStates]
    BY <1>1, <1>2, <1>3
  <2>2. \A y \in Reservers : task'[y].at = "checked" <=> lock' = y
    BY <1>0, <1>1, <1>2, <1>4 DEF Source!TypeOK
  <2>. QED BY <1>0, <1>1, <2>1, <2>2 DEF Source!TypeOK, Source!Months, Source!Rows
<1>6. \A y \in Reservers : /\ task'[y].at # "idle" => task'[y].key \in UsageKeys
                           /\ task'[y].at = "checked" => task'[y] = task[y]
  BY <1>0, <1>2, <1>4 DEF TasksFit
<1>. QED BY <1>1, <1>5, <1>6, RowsUntouched

\* Giving up: the lock, if held, is free again.
LEMMA GiveUpStep ==
  ASSUME SourceInv, NEW x \in Reservers, Source!GiveUp(x)
  PROVE  SourceInv'
<1>0. Source!TypeOK /\ TasksFit
  BY DEF SourceInv
<1>1. /\ task' = [task EXCEPT ![x] = Source!Idle] /\ lock' = (IF lock = x THEN None ELSE lock)
      /\ UNCHANGED <<month, campaign, adopted, usage, cursor>>
  BY DEF Source!GiveUp
<1>2. Source!Idle \in Source!TaskStates /\ Source!Idle.at = "idle"
  BY SourceFacts DEF Source!TaskStates, Source!Idle, Source!Months
<1>3. task \in [Reservers -> Source!TaskStates]
  BY <1>0 DEF Source!TypeOK
<1>4. task'[x].at = "idle" /\ \A y \in Reservers \ {x} : task'[y] = task[y]
  BY <1>1, <1>2, <1>3
<1>5. Source!TypeOK'
  <2>1. task' \in [Reservers -> Source!TaskStates]
    BY <1>1, <1>2, <1>3
  <2>2. \A y \in Reservers : task'[y].at = "checked" <=> lock' = y
    BY <1>0, <1>1, <1>4, SourceFacts DEF Source!TypeOK
  <2>3. lock' \in Reservers \cup {None}
    BY <1>0, <1>1 DEF Source!TypeOK
  <2>. QED BY <1>0, <1>1, <2>1, <2>2, <2>3 DEF Source!TypeOK, Source!Months, Source!Rows
<1>6. \A y \in Reservers : /\ task'[y].at # "idle" => task'[y].key \in UsageKeys
                           /\ task'[y].at = "checked" => task'[y] = task[y]
  BY <1>0, <1>4 DEF TasksFit
<1>. QED BY <1>1, <1>5, <1>6, RowsUntouched

\* The check finds the room that Room says.
LEMMA CheckStep ==
  ASSUME SourceInv, NEW x \in Reservers, Source!Check(x)
  PROVE  SourceInv'
<1>0. Source!TypeOK /\ TasksFit /\ CampaignFits /\ MonthsFit
  BY DEF SourceInv
<1>1. /\ task[x].at = "asked" /\ lock = None /\ usage[task[x].key].status = "NONE"
      /\ Source!Affordable(task[x].key, task[x].month) /\ lock' = x
      /\ task' = [task EXCEPT ![x].at = "checked"] /\ UNCHANGED <<month, campaign, adopted, usage, cursor>>
  BY DEF Source!Check
<1>2. task \in [Reservers -> Source!TaskStates] /\ task[x] \in Source!TaskStates /\ task[x].key \in UsageKeys
  BY <1>0, <1>1 DEF Source!TypeOK, TasksFit
<1>3. /\ task'[x].at = "checked" /\ task'[x].key = task[x].key /\ task'[x].month = task[x].month
      /\ task'[x] \in Source!TaskStates /\ \A y \in Reservers \ {x} : task'[y] = task[y]
  BY <1>1, <1>2 DEF Source!TaskStates
<1>4. Source!TypeOK'
  <2>1. task' \in [Reservers -> Source!TaskStates]
    BY <1>1, <1>2, <1>3
  <2>2. \A y \in Reservers : task'[y].at = "checked" <=> lock' = y
    BY <1>0, <1>1, <1>3, SourceFacts DEF Source!TypeOK
  <2>. QED BY <1>0, <1>1, <2>1, <2>2 DEF Source!TypeOK, Source!Months, Source!Rows
<1>5. Room(usage, campaign, task[x].key, task[x].month)
  <2>. DEFINE k == task[x].key
              m == task[x].month
  <2>1. CASE campaign # None
    <3>1. Source!ChargeOf(UsageKeys) = Total(usage)
      BY <1>0, ChargeSums
    <3>2. \A cap \in {Monthly[ServiceOf[k]], campaign.budget} : campaign.historical + Source!ChargeOf(UsageKeys) + Cost[k] <= cap
      BY <1>1, <2>1 DEF Source!Affordable, Source!CampaignCost
    <3>3. \A cap \in {Monthly[ServiceOf[k]], campaign.budget} : campaign.historical + Total(usage) + Cost[k] <= cap
      BY <3>1, <3>2, Zenon
    <3>. QED BY <2>1, <3>3 DEF Room
  <2>2. CASE campaign = None
    <3>. DEFINE S == {q \in UsageKeys : ServiceOf[q] = ServiceOf[k] /\ SourceOf[q] = SourceOf[k] /\ usage[q].month = m}
    <3>1. Source!ChargeOf(S) = MonthTotal(usage, ServiceOf[k], SourceOf[k], m)
      BY <1>0, ChargeSums
    <3>2. Source!ChargeOf(S) + Cost[k] <= Monthly[ServiceOf[k]]
      BY <1>1, <2>2 DEF Source!Affordable, Source!MonthCost
    <3>. HIDE DEF S
    <3>. QED BY <2>2, <3>1, <3>2 DEF Room
  <2>. QED BY <2>1, <2>2
<1>6. CampaignFits' /\ MonthsFit'
  BY <1>0, <1>1 DEF CampaignFits, MonthsFit, Source!Months
<1>7. ASSUME NEW y \in Reservers
      PROVE  /\ task'[y].at # "idle" => task'[y].key \in UsageKeys
             /\ task'[y].at = "checked" => usage'[task'[y].key].status = "NONE" /\ Room(usage', campaign', task'[y].key, task'[y].month)
  <2>1. CASE y = x
    <3>1. Room(usage, campaign, task[x].key, task[x].month) => Room(usage', campaign', task'[x].key, task'[x].month)
      BY <1>1, <1>3 DEF Room
    <3>. QED BY <1>1, <1>2, <1>3, <1>5, <2>1, <3>1
  <2>2. CASE y # x
    <3>1. task'[y] = task[y] /\ task'[y].at # "checked"
      BY <1>3, <1>4, <1>1, <2>2 DEF Source!TypeOK
    <3>. QED BY <1>0, <3>1 DEF TasksFit
  <2>. QED BY <2>1, <2>2
<1>. QED BY <1>4, <1>6, <1>7 DEF SourceInv, TasksFit

\* A row that is committed or released counts for no more than it was reserved for.
LEMMA ShrinkStep ==
  ASSUME SourceInv, Source!TypeOK', UNCHANGED <<campaign, adopted, task>>,
         NEW k \in UsageKeys, usage[k].status = "RESERVED", usage'[k].status # "RESERVED",
         usage'[k].month = usage[k].month, usage'[k].actual <= Cost[k],
         \A q \in UsageKeys \ {k} : usage'[q] = usage[q]
  PROVE  SourceInv'
<1>0. Source!TypeOK /\ TasksFit /\ CampaignFits /\ MonthsFit
  BY DEF SourceInv
<1>1. usage \in [UsageKeys -> Source!Rows] /\ usage' \in [UsageKeys -> Source!Rows]
  BY <1>0 DEF Source!TypeOK, Source!Rows, Source!Months
<1>2. ASSUME NEW q \in UsageKeys
      PROVE  usage'[q].month = usage[q].month /\ ChargesIn(usage')[q] <= ChargesIn(usage)[q]
  <2>1. CASE q = k
    <3>1. ChargesIn(usage)[q] = Cost[k] /\ Cost[k] \in Nat
      BY <2>1, SourceFacts DEF ChargesIn
    <3>2. ChargesIn(usage')[q] = 0 \/ ChargesIn(usage')[q] = usage'[k].actual
      BY <2>1 DEF ChargesIn
    <3>. QED BY <2>1, <3>1, <3>2
  <2>2. CASE q # k
    <3>1. usage'[q] = usage[q] /\ ChargesIn(usage)[q] \in Nat
      BY <1>1, <2>2, TotalTypes
    <3>2. ChargesIn(usage')[q] = ChargesIn(usage)[q]
      BY <3>1 DEF ChargesIn
    <3>. QED BY <3>1, <3>2
  <2>. QED BY <2>1, <2>2
<1>3. Total(usage') <= Total(usage) /\ \A s, src, m : MonthTotal(usage', s, src, m) <= MonthTotal(usage, s, src, m)
  BY <1>1, <1>2, SumsShrink
<1>4. CampaignFits' /\ MonthsFit'
  BY <1>0, <1>1, <1>3, RoomStays
<1>5. ASSUME NEW x \in Reservers
      PROVE  /\ task'[x].at # "idle" => task'[x].key \in UsageKeys
             /\ task'[x].at = "checked" => usage'[task'[x].key].status = "NONE" /\ Room(usage', campaign', task'[x].key, task'[x].month)
  <2>1. task'[x] = task[x] /\ (task[x].at # "idle" => task[x].key \in UsageKeys)
    BY <1>0 DEF TasksFit
  <2>2. ASSUME task[x].at = "checked"
        PROVE  usage'[task[x].key].status = "NONE" /\ Room(usage', campaign', task[x].key, task[x].month)
    <3>1. task[x].key \in UsageKeys /\ usage[task[x].key].status = "NONE" /\ Room(usage, campaign, task[x].key, task[x].month)
      BY <1>0, <2>2 DEF TasksFit
    <3>2. task[x].month \in Source!Months
      BY <1>0 DEF Source!TypeOK, Source!TaskStates
    <3>3. task[x].key # k
      BY <3>1
    <3>4. Room(usage', campaign', task[x].key, task[x].month)
      BY <1>0, <1>1, <1>3, <3>1, <3>2, RoomStays
    <3>. QED BY <3>1, <3>3, <3>4
  <2>. QED BY <2>1, <2>2
<1>. QED BY <1>4, <1>5 DEF SourceInv, TasksFit

\* commit_usage bills at most what was reserved.
LEMMA CommitStep ==
  ASSUME SourceInv, NEW k \in UsageKeys, NEW a \in Nat, Source!CommitUsage(k, a)
  PROVE  SourceInv'
<1>0. Source!TypeOK
  BY DEF SourceInv
<1>1. /\ usage[k].status = "RESERVED" /\ a <= Cost[k]
      /\ usage' = [usage EXCEPT ![k].status = "COMMITTED", ![k].actual = a]
      /\ UNCHANGED <<month, campaign, adopted, task, lock, cursor>>
  BY DEF Source!CommitUsage, Source!Commits
<1>2. usage \in [UsageKeys -> Source!Rows] /\ usage[k] \in Source!Rows
  BY <1>0 DEF Source!TypeOK
<1>3. /\ usage'[k] \in Source!Rows /\ usage'[k].status = "COMMITTED" /\ usage'[k].actual = a
      /\ usage'[k].month = usage[k].month /\ \A q \in UsageKeys \ {k} : usage'[q] = usage[q]
  BY <1>1, <1>2 DEF Source!Rows
<1>4. Source!TypeOK'
  <2>1. usage' \in [UsageKeys -> Source!Rows]
    BY <1>1, <1>2, <1>3
  <2>2. \A q \in UsageKeys : usage'[q].actual <= Cost[q] /\ (usage'[q].actual > 0 => usage'[q].status = "COMMITTED")
    BY <1>0, <1>1, <1>3 DEF Source!TypeOK
  <2>. QED BY <1>0, <1>1, <2>1, <2>2 DEF Source!TypeOK, Source!Months, Source!TaskStates, Source!Rows
<1>. QED BY <1>1, <1>3, <1>4, ShrinkStep

\* release_usage gives the reserved amount back.
LEMMA ReleaseStep ==
  ASSUME SourceInv, NEW k \in UsageKeys, Source!ReleaseUsage(k)
  PROVE  SourceInv'
<1>0. Source!TypeOK
  BY DEF SourceInv
<1>1. /\ usage[k].status = "RESERVED" /\ usage' = [usage EXCEPT ![k].status = "RELEASED"]
      /\ UNCHANGED <<month, campaign, adopted, task, lock, cursor>>
  BY DEF Source!ReleaseUsage
<1>2. /\ usage \in [UsageKeys -> Source!Rows] /\ usage[k] \in Source!Rows
      /\ usage[k].actual <= Cost[k] /\ ~(usage[k].actual > 0)
  BY <1>0, <1>1 DEF Source!TypeOK
<1>3. /\ usage'[k] \in Source!Rows /\ usage'[k].status = "RELEASED" /\ usage'[k].actual = usage[k].actual
      /\ usage'[k].month = usage[k].month /\ \A q \in UsageKeys \ {k} : usage'[q] = usage[q]
  BY <1>1, <1>2 DEF Source!Rows
<1>4. Source!TypeOK'
  <2>1. usage' \in [UsageKeys -> Source!Rows]
    BY <1>1, <1>2, <1>3
  <2>2. \A q \in UsageKeys : usage'[q].actual <= Cost[q] /\ (usage'[q].actual > 0 => usage'[q].status = "COMMITTED")
    BY <1>0, <1>2, <1>3 DEF Source!TypeOK
  <2>. QED BY <1>0, <1>1, <2>1, <2>2 DEF Source!TypeOK, Source!Months, Source!TaskStates, Source!Rows
<1>. QED BY <1>1, <1>2, <1>3, <1>4, ShrinkStep

\* The calendar and the cursor touch no reservation.
LEMMA ClockStep ==
  ASSUME SourceInv, Source!NextMonth \/ \E v \in 0..MaxCursor : Source!AdvanceCursor(v)
  PROVE  SourceInv'
<1>0. Source!TypeOK /\ TasksFit
  BY DEF SourceInv
<1>1. /\ UNCHANGED <<campaign, adopted, usage, task, lock>>
      /\ (month' = month \/ (month < MaxMonth /\ month' = month + 1))
      /\ (cursor' = cursor \/ cursor' \in 0..MaxCursor)
  BY DEF Source!NextMonth, Source!AdvanceCursor
<1>2. month' \in Source!Months /\ cursor' \in 0..MaxCursor \cup {None}
  BY <1>0, <1>1, SourceFacts DEF Source!TypeOK, Source!Months
<1>3. Source!TypeOK'
  BY <1>0, <1>1, <1>2 DEF Source!TypeOK, Source!Months, Source!TaskStates, Source!Rows
<1>4. \A x \in Reservers : /\ task'[x].at # "idle" => task'[x].key \in UsageKeys
                           /\ task'[x].at = "checked" => task'[x] = task[x]
  BY <1>0, <1>1 DEF TasksFit
<1>. QED BY <1>1, <1>3, <1>4, RowsUntouched

\* register_campaign finds the lock free, so no check is out; it remembers what was charged.
LEMMA RegisterStep ==
  ASSUME SourceInv, NEW c \in Adoptions, Source!Register(c)
  PROVE  SourceInv'
<1>0. Source!TypeOK /\ TasksFit /\ MonthsFit
  BY DEF SourceInv
<1>1. /\ lock = None /\ campaign' = c /\ adopted' = c.historical + Source!ChargeOf(UsageKeys)
      /\ UNCHANGED <<month, usage, task, lock, cursor>>
  BY DEF Source!Register
<1>2. adopted' = c.historical + Total(usage)
  BY <1>0, <1>1, ChargeSums
<1>3. Total(usage) \in Nat /\ c.historical \in Nat
  BY <1>0, TotalTypes, SourceFacts DEF Source!TypeOK
<1>4. Source!TypeOK'
  <2>1. adopted' \in Nat /\ campaign' \in Adoptions \cup {None}
    BY <1>1, <1>2, <1>3
  <2>. QED BY <1>0, <1>1, <2>1 DEF Source!TypeOK, Source!Months, Source!TaskStates, Source!Rows
<1>5. CampaignFits'
  BY <1>1, <1>2, <1>3 DEF CampaignFits
<1>6. MonthsFit'
  BY <1>0, <1>1 DEF MonthsFit, Source!Months
<1>7. \A x \in Reservers : (task[x].at # "idle" => task[x].key \in UsageKeys) /\ task[x].at # "checked"
  BY <1>0, <1>1, SourceFacts DEF TasksFit, Source!TypeOK
<1>8. TasksFit'
  BY <1>1, <1>7 DEF TasksFit
<1>. QED BY <1>4, <1>5, <1>6, <1>8 DEF SourceInv

\* The row that is stored is the one that was checked, and nobody else has checked one.
LEMMA StoreStep ==
  ASSUME SourceInv, NEW x \in Reservers, Source!Store(x)
  PROVE  SourceInv'
<1>0. Source!TypeOK /\ TasksFit /\ CampaignFits /\ MonthsFit
  BY DEF SourceInv
<1>. DEFINE e == task[x].key
            n == task[x].month
            r == [Source!NoRow EXCEPT !.status = "RESERVED", !.month = task[x].month]
<1>1. /\ task[x].at = "checked" /\ usage' = [usage EXCEPT ![e] = r] /\ lock' = None
      /\ task' = [task EXCEPT ![x] = Source!Idle] /\ UNCHANGED <<month, campaign, adopted, cursor>>
  BY DEF Source!Store
<1>2. task \in [Reservers -> Source!TaskStates] /\ usage \in [UsageKeys -> Source!Rows] /\ n \in Source!Months
  BY <1>0 DEF Source!TypeOK, Source!TaskStates
<1>3. e \in UsageKeys /\ usage[e].status = "NONE" /\ Room(usage, campaign, e, n)
  BY <1>0, <1>1 DEF TasksFit
<1>4. r \in Source!Rows /\ r.status = "RESERVED" /\ r.month = n /\ r.actual = 0
  BY <1>2, SourceFacts DEF Source!NoRow, Source!Rows, Source!Months
<1>5. Source!Idle \in Source!TaskStates /\ Source!Idle.at = "idle"
  BY SourceFacts DEF Source!TaskStates, Source!Idle, Source!Months
<1>. HIDE DEF e, n, r
<1>6. usage' \in [UsageKeys -> Source!Rows] /\ usage'[e] = r /\ \A q \in UsageKeys \ {e} : usage'[q] = usage[q]
  BY <1>1, <1>2, <1>3, <1>4
<1>7. task' \in [Reservers -> Source!TaskStates] /\ task'[x].at = "idle" /\ \A y \in Reservers \ {x} : task'[y] = task[y]
  BY <1>1, <1>2, <1>5
<1>8. \A y \in Reservers : task'[y].at # "checked"
  BY <1>0, <1>1, <1>7 DEF Source!TypeOK
<1>9. Source!TypeOK'
  <2>1. \A q \in UsageKeys : usage'[q].actual <= Cost[q] /\ (usage'[q].actual > 0 => usage'[q].status = "COMMITTED")
    BY <1>0, <1>4, <1>6, SourceFacts DEF Source!TypeOK
  <2>2. \A y \in Reservers : task'[y].at = "checked" <=> lock' = y
    BY <1>1, <1>8, SourceFacts
  <2>. QED BY <1>0, <1>1, <1>6, <1>7, <2>1, <2>2 DEF Source!TypeOK, Source!Months, Source!TaskStates, Source!Rows
<1>10. TasksFit'
  BY <1>0, <1>7, <1>8 DEF TasksFit
<1>11. /\ Total(usage') = Total(usage) + Cost[e]
       /\ MonthTotal(usage', ServiceOf[e], SourceOf[e], n) = MonthTotal(usage, ServiceOf[e], SourceOf[e], n) + Cost[e]
       /\ \A s, src, m : ~(s = ServiceOf[e] /\ src = SourceOf[e] /\ m = n) =>
            MonthTotal(usage', s, src, m) = MonthTotal(usage, s, src, m)
  BY <1>2, <1>3, <1>4, <1>6, SumsRise
<1>12. /\ Total(usage) \in Nat /\ Total(usage') \in Nat
       /\ \A s, src, m : /\ MonthTotal(usage, s, src, m) \in Nat /\ MonthTotal(usage', s, src, m) \in Nat
                         /\ MonthTotal(usage', s, src, m) <= Total(usage')
  BY <1>2, <1>6, TotalTypes
<1>13. /\ Cost[e] \in Nat /\ ServiceOf[e] \in Services /\ Monthly[ServiceOf[e]] \in Nat
       /\ campaign # None => campaign.historical \in Nat /\ campaign.budget \in Nat
  BY <1>0, <1>3, SourceFacts DEF Source!TypeOK
<1>14. CampaignFits'
  <2>. SUFFICES ASSUME campaign # None PROVE campaign.historical + Total(usage') <= campaign.budget
    BY <1>1 DEF CampaignFits
  <2>1. campaign.historical + Total(usage) + Cost[e] <= campaign.budget
    BY <1>3 DEF Room
  <2>. QED BY <1>11, <1>12, <1>13, <2>1
<1>15. MonthTotal(usage', ServiceOf[e], SourceOf[e], n) <= Monthly[ServiceOf[e]]
  <2>1. CASE campaign # None
    <3>1. campaign.historical + Total(usage) + Cost[e] <= Monthly[ServiceOf[e]]
      BY <1>3, <2>1 DEF Room
    <3>2. MonthTotal(usage', ServiceOf[e], SourceOf[e], n) <= Total(usage')
      BY <1>12
    <3>3. MonthTotal(usage', ServiceOf[e], SourceOf[e], n) \in Nat
      BY <1>12
    <3>. QED BY <1>11, <1>12, <1>13, <2>1, <3>1, <3>2, <3>3
  <2>2. CASE campaign = None
    BY <1>3, <1>11, <2>2 DEF Room
  <2>. QED BY <2>1, <2>2
<1>16. MonthsFit'
  <2>. SUFFICES ASSUME NEW s \in Services, NEW src \in Sources, NEW m \in Source!Months
                PROVE  MonthTotal(usage', s, src, m) <= Monthly[s]
    BY DEF MonthsFit, Source!Months
  <2>1. CASE s = ServiceOf[e] /\ src = SourceOf[e] /\ m = n
    BY <1>15, <2>1
  <2>2. CASE ~(s = ServiceOf[e] /\ src = SourceOf[e] /\ m = n)
    <3>1. MonthTotal(usage, s, src, m) <= Monthly[s]
      BY <1>0 DEF MonthsFit
    <3>. QED BY <1>11, <2>2, <3>1
  <2>. QED BY <2>1, <2>2
<1>. QED BY <1>9, <1>10, <1>14, <1>16 DEF SourceInv

\* Every step of the sources keeps the invariant.
LEMMA SourceStep ==
  ASSUME SourceInv, Source!Next
  PROVE  SourceInv'
<1>1. CASE Source!NextMonth \/ \E v \in 0..MaxCursor : Source!AdvanceCursor(v)
  BY <1>1, ClockStep
<1>2. CASE \E x \in Reservers : Source!Check(x) \/ Source!Store(x) \/ Source!GiveUp(x) \/ \E k \in UsageKeys : Source!Ask(x, k)
  BY <1>2, CheckStep, StoreStep, GiveUpStep, AskStep
<1>3. CASE \E k \in UsageKeys : Source!ReleaseUsage(k) \/ \E a \in 0..(Cost[k] + 1) : Source!CommitUsage(k, a)
  <2>1. PICK k \in UsageKeys : Source!ReleaseUsage(k) \/ \E a \in 0..(Cost[k] + 1) : Source!CommitUsage(k, a)
    BY <1>3
  <2>2. ASSUME NEW a \in 0..(Cost[k] + 1), Source!CommitUsage(k, a) PROVE SourceInv'
    <3>1. a \in Nat
      BY SourceFacts
    <3>. QED BY <2>2, <3>1, CommitStep
  <2>. QED BY <2>1, <2>2, ReleaseStep
<1>4. CASE \E c \in Adoptions : Source!Register(c)
  BY <1>4, RegisterStep
<1>. QED BY <1>1, <1>2, <1>3, <1>4 DEF Source!Next

\* The invariant of the sources.
LEMMA SourceInvariant == Spec => []SourceInv
<1>1. Init => SourceInv
  BY SourceInit DEF Init
<1>2. ASSUME SourceInv, UNCHANGED sourceVars PROVE SourceInv'
  <2>1. UNCHANGED <<month, campaign, adopted, usage, task, lock, cursor>>
    BY <1>2 DEF sourceVars
  <2>2. Source!TypeOK /\ TasksFit
    BY <1>2 DEF SourceInv
  <2>3. Source!TypeOK'
    BY <2>1, <2>2 DEF Source!TypeOK, Source!Months, Source!TaskStates, Source!Rows
  <2>4. \A x \in Reservers : /\ task'[x].at # "idle" => task'[x].key \in UsageKeys
                             /\ task'[x].at = "checked" => task'[x] = task[x]
    BY <2>1, <2>2 DEF TasksFit
  <2>. QED BY <1>2, <2>1, <2>3, <2>4, RowsUntouched
<1>3. ASSUME [Next]_vars PROVE Source!Next \/ UNCHANGED sourceVars
  BY <1>3 DEF Next, TradeNext, EquityNext, SourceNext, NewsNext, vars
<1>4. SourceInv /\ [Next]_vars => SourceInv'
  BY <1>2, <1>3, SourceStep
<1>. QED BY <1>1, <1>4, PTL DEF Spec

\* reserve_usage, commit_usage, release_usage and register_campaign in any order, from any number
\* of tasks, across months and the adoption of a campaign: what is reserved and committed stays
\* within the monthly budget of each service and source, and within the campaign's budget or
\* what had been charged when it was adopted.
THEOREM BudgetsAreKept == Spec => []BudgetsHold
<1>1. ASSUME SourceInv PROVE BudgetsHold
  <2>0. Source!TypeOK /\ CampaignFits /\ MonthsFit
    BY <1>1 DEF SourceInv
  <2>1. Source!ChargeOf(UsageKeys) = Total(usage)
    BY <2>0, ChargeSums
  <2>2. Source!CampaignCap
    <3>1. ASSUME campaign # None
          PROVE  \E cap \in {campaign.budget, adopted} : campaign.historical + Total(usage) <= cap
      BY <2>0, <3>1 DEF CampaignFits
    <3>. QED BY <2>1, <3>1 DEF Source!CampaignCap
  <2>3. Source!MonthlyCap
    <3>. SUFFICES ASSUME NEW s \in Services, NEW src \in Sources, NEW m \in Source!Months
                  PROVE  Source!ChargeOf({k \in UsageKeys : ServiceOf[k] = s /\ SourceOf[k] = src /\ usage[k].month = m}) <= Monthly[s]
      BY DEF Source!MonthlyCap
    <3>. DEFINE S == {k \in UsageKeys : ServiceOf[k] = s /\ SourceOf[k] = src /\ usage[k].month = m}
    <3>1. Source!ChargeOf(S) = MonthTotal(usage, s, src, m)
      BY <2>0, ChargeSums
    <3>2. MonthTotal(usage, s, src, m) <= Monthly[s]
      BY <2>0 DEF MonthsFit
    <3>. HIDE DEF S
    <3>3. Source!ChargeOf(S) <= Monthly[s]
      BY <3>1, <3>2
    <3>. QED BY <3>3 DEF S
  <2>. QED BY <2>2, <2>3 DEF BudgetsHold, Source!BudgetsHold
<1>. QED BY <1>1, SourceInvariant, PTL

-----------------------------------------------------------------------------
(***************************************************************************)
(* The types.  Those of trades, claims and sources are part of their       *)
(* invariants; the row of a day needs that it counts arrivals.             *)
(***************************************************************************)
DayTypes == Equity!TypeOK /\ Len(arrivals) <= MaxArrivals /\ \A d \in DOMAIN equity : equity[d].seq <= Len(arrivals)

\* The upsert keeps the CHECK constraints of the row.
LEMMA UpsertedType ==
  ASSUME NEW old, NEW s \in Equity!Snapshots, old \in Equity!RowType, old.seq + 1 <= MaxArrivals,
         old.firstAt <= old.lastAt, old.peak >= old.start, old.peak >= old.last
  PROVE  /\ Equity!Upserted(old, s) \in Equity!RowType
         /\ Equity!Upserted(old, s).seq = old.seq + 1
         /\ Equity!Upserted(old, s).firstAt <= Equity!Upserted(old, s).lastAt
         /\ Equity!Upserted(old, s).peak >= Equity!Upserted(old, s).start
         /\ Equity!Upserted(old, s).peak >= Equity!Upserted(old, s).last
<1>0. Instants \subseteq Nat /\ Equities \subseteq Nat /\ MaxArrivals \in Nat
  BY LedgerConstants DEF Equity!EquityConstants
<1>1. /\ old.start \in Equities /\ old.peak \in Equities /\ old.last \in Equities /\ old.firstAt \in Instants
      /\ old.lastAt \in Instants /\ old.seq \in 1..MaxArrivals /\ s.at \in Instants /\ s.equity \in Equities
  BY DEF Equity!RowType, Equity!Snapshots
<1>n. /\ old.start \in Nat /\ old.peak \in Nat /\ old.last \in Nat /\ old.firstAt \in Nat
      /\ old.lastAt \in Nat /\ s.at \in Nat /\ s.equity \in Nat
  BY <1>0, <1>1
<1>. DEFINE p == Equity!Max({old.peak, s.equity})
            f == Equity!Min({old.firstAt, s.at})
            l == Equity!Max({old.lastAt, s.at})
<1>2. p \in Equities /\ p >= old.peak /\ p >= s.equity
  <2>1. CASE old.peak <= s.equity
    <3>1. p = s.equity
      BY <1>n, <2>1, ExtremeOfTwo
    <3>. HIDE DEF p
    <3>. QED BY <1>1, <1>n, <2>1, <3>1
  <2>2. CASE s.equity <= old.peak
    <3>1. p = old.peak
      BY <1>n, <2>2, ExtremeOfTwo
    <3>. HIDE DEF p
    <3>. QED BY <1>1, <1>n, <2>2, <3>1
  <2>. QED BY <1>n, <2>1, <2>2
<1>3. f \in Instants /\ f <= s.at
  <2>1. CASE old.firstAt <= s.at
    <3>1. f = old.firstAt
      BY <1>n, <2>1, ExtremeOfTwo
    <3>. HIDE DEF f
    <3>. QED BY <1>1, <1>n, <2>1, <3>1
  <2>2. CASE s.at <= old.firstAt
    <3>1. f = s.at
      BY <1>n, <2>2, ExtremeOfTwo
    <3>. HIDE DEF f
    <3>. QED BY <1>1, <1>n, <2>2, <3>1
  <2>. QED BY <1>n, <2>1, <2>2
<1>4. l \in Instants /\ s.at <= l
  <2>1. CASE old.lastAt <= s.at
    <3>1. l = s.at
      BY <1>n, <2>1, ExtremeOfTwo
    <3>. HIDE DEF l
    <3>. QED BY <1>1, <1>n, <2>1, <3>1
  <2>2. CASE s.at <= old.lastAt
    <3>1. l = old.lastAt
      BY <1>n, <2>2, ExtremeOfTwo
    <3>. HIDE DEF l
    <3>. QED BY <1>1, <1>n, <2>2, <3>1
  <2>. QED BY <1>n, <2>1, <2>2
<1>5. Equity!Upserted(old, s) =
        [start |-> IF s.at < old.firstAt THEN s.equity ELSE old.start, peak |-> p,
         last |-> IF s.at >= old.lastAt THEN s.equity ELSE old.last, firstAt |-> f, lastAt |-> l, seq |-> old.seq + 1]
  BY DEF Equity!Upserted
<1>. HIDE DEF p, f, l
<1>m. p \in Nat /\ f \in Nat /\ l \in Nat
  BY <1>0, <1>2, <1>3, <1>4
<1>6. f <= l
  BY <1>m, <1>n, <1>3, <1>4
<1>7. (IF s.at < old.firstAt THEN s.equity ELSE old.start) \in Equities /\ (IF s.at >= old.lastAt THEN s.equity ELSE old.last) \in Equities
  BY <1>1
<1>8. p >= (IF s.at < old.firstAt THEN s.equity ELSE old.start) /\ p >= (IF s.at >= old.lastAt THEN s.equity ELSE old.last)
  BY <1>2, <1>m, <1>n
<1>9. old.seq + 1 \in 1..MaxArrivals
  BY <1>0, <1>1
<1>. QED BY <1>2, <1>3, <1>4, <1>5, <1>6, <1>7, <1>8, <1>9 DEF Equity!RowType

\* record_equity keeps the rows typed.
LEMMA DayTypesStep ==
  ASSUME DayTypes, NEW s \in Equity!Snapshots, Equity!RecordEquity(s)
  PROVE  DayTypes'
<1>. DEFINE d == Equity!TradingDay(s.at)
            new == IF d \in DOMAIN equity THEN Equity!Upserted(equity[d], s) ELSE Equity!FirstRow(s)
<1>0. Instants \subseteq Nat /\ Equities \subseteq Nat /\ MaxArrivals \in Nat
  BY LedgerConstants DEF Equity!EquityConstants
<1>1. /\ arrivals \in Seq(Equity!Snapshots) /\ arrivals' = Append(arrivals, s) /\ Len(arrivals) < MaxArrivals
      /\ equity' = [x \in DOMAIN equity \cup {d} |-> IF x = d THEN new ELSE equity[x]]
  BY DEF DayTypes, Equity!TypeOK, Equity!RecordEquity
<1>2. d \in Equity!Days
  BY DEF Equity!Days, Equity!Snapshots
<1>3. arrivals' \in Seq(Equity!Snapshots) /\ Len(arrivals') = Len(arrivals) + 1 /\ Len(arrivals) \in Nat
  BY <1>1
<1>4. /\ new \in Equity!RowType /\ new.seq <= Len(arrivals) + 1 /\ new.firstAt <= new.lastAt
      /\ new.peak >= new.start /\ new.peak >= new.last
  <2>1. CASE d \in DOMAIN equity
    <3>. DEFINE old == equity[d]
    <3>1. /\ old \in Equity!RowType /\ old.firstAt <= old.lastAt /\ old.peak >= old.start /\ old.peak >= old.last
          /\ old.seq <= Len(arrivals)
      BY <2>1 DEF DayTypes, Equity!TypeOK
    <3>2. new = Equity!Upserted(old, s)
      BY <2>1
    <3>3. old.seq \in 1..MaxArrivals
      BY <3>1 DEF Equity!RowType
    <3>. HIDE DEF old, new
    <3>4. old.seq + 1 <= MaxArrivals /\ old.seq + 1 <= Len(arrivals) + 1
      BY <1>0, <1>1, <1>3, <3>1, <3>3
    <3>. QED BY <3>1, <3>2, <3>4, UpsertedType
  <2>2. CASE d \notin DOMAIN equity
    <3>1. new = Equity!FirstRow(s)
      BY <2>2
    <3>. HIDE DEF new
    <3>2. s.at \in Instants /\ s.equity \in Equities /\ 1 \in 1..MaxArrivals
      BY <1>0, <1>1, <1>3 DEF Equity!Snapshots
    <3>3. s.at \in Nat /\ s.equity \in Nat
      BY <1>0, <3>2
    <3>. QED BY <1>3, <3>1, <3>2, <3>3 DEF Equity!FirstRow, Equity!RowType
  <2>. QED BY <2>1, <2>2
<1>. HIDE DEF new
<1>5. DOMAIN equity' = DOMAIN equity \cup {d} /\ equity'[d] = new /\ \A x \in DOMAIN equity \ {d} : equity'[x] = equity[x]
  BY <1>1
<1>. HIDE DEF d
<1>6. ASSUME NEW x \in DOMAIN equity'
      PROVE  /\ equity'[x] \in Equity!RowType /\ equity'[x].seq <= Len(arrivals) + 1
             /\ equity'[x].firstAt <= equity'[x].lastAt /\ equity'[x].peak >= equity'[x].start
             /\ equity'[x].peak >= equity'[x].last
  <2>1. CASE x = d
    BY <1>4, <1>5, <2>1
  <2>2. CASE x # d
    <3>1. x \in DOMAIN equity /\ equity'[x] = equity[x]
      BY <1>5, <2>2
    <3>2. /\ equity[x] \in Equity!RowType /\ equity[x].firstAt <= equity[x].lastAt
          /\ equity[x].peak >= equity[x].start /\ equity[x].peak >= equity[x].last /\ equity[x].seq <= Len(arrivals)
      BY <3>1 DEF DayTypes, Equity!TypeOK
    <3>3. equity[x].seq \in 1..MaxArrivals
      BY <3>2 DEF Equity!RowType
    <3>4. equity[x].seq <= Len(arrivals) + 1
      BY <1>0, <1>3, <3>2, <3>3
    <3>. QED BY <3>1, <3>2, <3>4
  <2>. QED BY <2>1, <2>2
<1>7. DOMAIN equity \subseteq Equity!Days
  BY DEF DayTypes, Equity!TypeOK
<1>8. Equity!TypeOK'
  BY <1>2, <1>3, <1>5, <1>6, <1>7 DEF Equity!TypeOK, Equity!Days, Equity!Snapshots, Equity!RowType, Equity!TradingDay
<1>9. Len(arrivals') <= MaxArrivals
  BY <1>0, <1>1, <1>3
<1>. QED BY <1>3, <1>6, <1>8, <1>9 DEF DayTypes

\* The rows of the four ledgers keep their types and the CHECK constraints of their tables,
\* whatever is called, in any order: a commit within its reservation, one holder of the usage lock
\* and of each claim, a day's peak above its values.
THEOREM LedgerTypes == Spec => []TypeOK
<1>1. Init => DayTypes
  <2>1. ASSUME Init PROVE equity = <<>> /\ arrivals = <<>> /\ DOMAIN equity = {} /\ Len(arrivals) = 0
    BY <2>1 DEF Init, Equity!Init
  <2>2. MaxArrivals \in Nat
    BY LedgerConstants DEF Equity!EquityConstants
  <2>. QED BY <2>1, <2>2 DEF DayTypes, Equity!TypeOK
<1>2. ASSUME DayTypes, UNCHANGED equityVars PROVE DayTypes'
  <2>1. equity' = equity /\ arrivals' = arrivals
    BY <1>2 DEF equityVars
  <2>. QED BY <1>2, <2>1 DEF DayTypes, Equity!TypeOK, Equity!Days, Equity!Snapshots, Equity!RowType, Equity!TradingDay
<1>3. ASSUME [Next]_vars PROVE Equity!Next \/ UNCHANGED equityVars
  BY <1>3 DEF Next, TradeNext, EquityNext, SourceNext, NewsNext, vars
<1>4. DayTypes /\ [Next]_vars => DayTypes'
  BY <1>2, <1>3, DayTypesStep DEF Equity!Next
<1>5. Spec => []DayTypes
  BY <1>1, <1>4, PTL DEF Spec
<1>6. StoryInv /\ DayTypes /\ SourceInv /\ NewsInv => TypeOK
  BY DEF StoryInv, DayTypes, SourceInv, NewsInv, TypeOK
<1>. QED BY <1>5, <1>6, StoryHolds, SourceInvariant, NewsInvariant, PTL

=============================================================================
