--------------------------- MODULE TradeLifecycle ---------------------------
(***************************************************************************)
(* The durable life of a trade in trade_lifecycle.py: the row of           *)
(* execution_trades with its state machine, the append-only journal        *)
(* execution_trade_events, and the public facts that are written with a    *)
(* transition and put into the outbox.                                     *)
(*                                                                         *)
(* Every call is one transaction that first takes the transaction-level    *)
(* advisory lock of the trade, so a call is one step.  What can go wrong   *)
(* is the order of the calls: executor tasks that saw a STOP, a TARGET and *)
(* a timeout race, a caller whose answer was lost repeats its call after   *)
(* others moved the trade on, and a fact key is used for another request.  *)
(* A call that raises changes nothing and is not a step.                   *)
(***************************************************************************)
EXTENDS Naturals, Sequences, FiniteSets

CONSTANTS
  Trades,       \* trade ids
  Symbol,       \* the (environment, account, symbol) of a trade
  Quantity,     \* the ordered quantity of a trade
  FactKeys,     \* fact_key values
  Slots,        \* venue identifiers a trade collects
  UniqueSlots,  \* those with a unique index over the trades of an account
  Ids,          \* identifier values
  Bodies,       \* what an event says besides its state and sequence number
  Requests,     \* the transition requests that callers make
  Reports,      \* the events they attach to a creation or report on their own
  LegacyCalls,  \* the trades for which next_event_sequence is still called
  MaxVersion,   \* bound on the state version of each trade
  MaxSeq,       \* bound on the event sequence of a trade
  None          \* SQL NULL

States == {"RECEIVED", "ENTRY_PENDING", "PROTECTING", "ACTIVE", "EXITING_STOP",
           "EXITING_TARGET", "EXITING_TIMEOUT", "EXITING_EMERGENCY", "FLAT",
           "CANCELLED", "FAILED_BLOCKED"}
Terminal == {"FLAT", "CANCELLED"}
Exits == {"EXITING_STOP", "EXITING_TARGET", "EXITING_TIMEOUT", "EXITING_EMERGENCY"}

Fills == UNION {0..Quantity[t] : t \in Trades}
FillTimes == Nat \cup {None}
Identifiers == [Slots -> Ids \cup {None}]

\* The arguments of a transition: None leaves the recorded value alone.  said is
\* the lifecycle state that the caller's builder puts into the public event.
RequestType ==
  [trade : Trades, key : FactKeys, target : States, said : States,
   filled : Nat \cup {None}, firstFill : FillTimes, ids : Identifiers,
   body : Bodies]

TradeConstants ==
  /\ Quantity \in [Trades -> Nat \ {0}]
  /\ UniqueSlots \subseteq Slots
  /\ Requests \subseteq RequestType
  /\ Reports \subseteq [trade : Trades, key : FactKeys, body : Bodies]
  /\ LegacyCalls \subseteq Trades
  /\ MaxVersion \in [Trades -> Nat] /\ MaxSeq \in Nat
  /\ None \notin Nat \cup Ids \cup States \cup FactKeys

VARIABLES
  row,      \* the row of execution_trades
  journal,  \* execution_trade_events of a trade, in sequence order
  facts,    \* public_execution_events of a trade
  outbox,   \* events of a trade in audit log and outbox, in order of arrival
  applied   \* history: the requests that advanced a trade together with a fact

vars == <<row, journal, facts, outbox, applied>>

-----------------------------------------------------------------------------
(***************************************************************************)
(* Records.                                                                *)
(***************************************************************************)
NoIds == [s \in Slots |-> None]

NoRow == [exists |-> FALSE, state |-> "RECEIVED", version |-> 0, filled |-> 0,
          firstFill |-> None, ids |-> NoIds, nextSeq |-> 1, reconciled |-> FALSE]

Rows == [exists : BOOLEAN, state : States, version : Nat,
         filled : Fills, firstFill : FillTimes, ids : Identifiers,
         nextSeq : 1..(MaxSeq + 1), reconciled : BOOLEAN]

\* cause is history: the fact key of the call that wrote the entry.
Entries == [from : States \cup {None}, to : States, body : Bodies \cup {None},
            filled : Fills, firstFill : FillTimes, ids : Identifiers,
            cause : FactKeys \cup {None}]

Facts == [key : FactKeys, seq : 1..MaxSeq, version : Nat,
          state : States, body : Bodies]

Event(f) == [seq |-> f.seq, state |-> f.state, body |-> f.body]
Events == [seq : 1..MaxSeq, state : States, body : Bodies]

\* Rows, journal entries and facts have their types, fills within the quantity.
TypeOK ==
  /\ row \in [Trades -> Rows]
  /\ journal \in [Trades -> Seq(Entries)]
  /\ facts \in [Trades -> SUBSET Facts]
  /\ outbox \in [Trades -> Seq(Events)]
  /\ applied \subseteq Requests

Init ==
  /\ row = [t \in Trades |-> NoRow]
  /\ journal = [t \in Trades |-> <<>>]
  /\ facts = [t \in Trades |-> {}]
  /\ outbox = [t \in Trades |-> <<>>]
  /\ applied = {}

-----------------------------------------------------------------------------
(***************************************************************************)
(* The state machine.                                                      *)
(***************************************************************************)
\* Faulty variant: a target that fills during a stop exit takes the exit over.
AllowedTakeover(s) ==
  CASE s = "RECEIVED" -> {"ENTRY_PENDING", "CANCELLED", "FAILED_BLOCKED"}
    [] s = "ENTRY_PENDING" ->
         {"ENTRY_PENDING", "PROTECTING", "CANCELLED", "FAILED_BLOCKED"}
    [] s = "PROTECTING" ->
         {"PROTECTING", "ACTIVE", "FAILED_BLOCKED"} \cup (Exits \ {"EXITING_TIMEOUT"})
    [] s = "ACTIVE" -> {"ACTIVE", "FAILED_BLOCKED"} \cup Exits
    [] s \in Exits -> {"FLAT", "FAILED_BLOCKED", "EXITING_TARGET"}
    [] s = "FAILED_BLOCKED" -> {"EXITING_EMERGENCY", "FLAT"}
    [] s \in Terminal -> {}

\* Faulty variant: a flat trade that fills late is blocked again.
AllowedReopen(s) ==
  IF s = "FLAT" THEN {"FAILED_BLOCKED"} ELSE AllowedTakeover(s)

Allowed(s) ==
  CASE s = "RECEIVED" -> {"ENTRY_PENDING", "CANCELLED", "FAILED_BLOCKED"}
    [] s = "ENTRY_PENDING" ->
         {"ENTRY_PENDING", "PROTECTING", "CANCELLED", "FAILED_BLOCKED"}
    [] s = "PROTECTING" ->
         {"PROTECTING", "ACTIVE", "FAILED_BLOCKED"} \cup (Exits \ {"EXITING_TIMEOUT"})
    [] s = "ACTIVE" -> {"ACTIVE", "FAILED_BLOCKED"} \cup Exits
    [] s \in Exits -> {"FLAT", "FAILED_BLOCKED"}
    [] s = "FAILED_BLOCKED" -> {"EXITING_EMERGENCY", "FLAT"}
    [] s \in Terminal -> {}

Given(supplied, recorded) == IF supplied = None THEN recorded ELSE supplied

\* What a request makes of recorded values: the fill given, the first fill
\* time recorded first, and the identifiers given or recorded.
Effective(r, old) ==
  [filled |-> Given(r.filled, old.filled),
   firstFill |-> Given(old.firstFill, r.firstFill),
   ids |-> [s \in Slots |-> Given(r.ids[s], old.ids[s])]]

\* first_fill_at and identifiers do not change once they are recorded.
Mergeable(r, old) ==
  /\ r.firstFill = None \/ old.firstFill = None \/ r.firstFill = old.firstFill
  /\ \A s \in Slots : r.ids[s] = None \/ old.ids[s] = None \/ r.ids[s] = old.ids[s]

FillFits(target, filled, firstFill) ==
  /\ (filled > 0) <=> (firstFill # None)
  /\ target = "CANCELLED" => filled = 0
  /\ target \in {"PROTECTING", "ACTIVE"} \cup Exits => filled > 0

\* The unique indexes over client order ids, checked by the UPDATE.
IdsFree(t, ids) ==
  \A u \in Trades \ {t}, s \in UniqueSlots : ids[s] = None \/ row[u].ids[s] # ids[s]

\* Faulty variant: the fill is not held against the ordered quantity.
MayTransitionOverfill(r) ==
  LET old == row[r.trade]
      new == Effective(r, old)
  IN  /\ old.exists
      /\ r.target \in Allowed(old.state)
      /\ old.filled <= new.filled
      /\ Mergeable(r, old)
      /\ FillFits(r.target, new.filled, new.firstFill)
      /\ IdsFree(r.trade, new.ids)

MayTransition(r) ==
  LET old == row[r.trade]
      new == Effective(r, old)
  IN  /\ old.exists
      /\ r.target \in Allowed(old.state)
      /\ old.filled <= new.filled /\ new.filled <= Quantity[r.trade]
      /\ Mergeable(r, old)
      /\ FillFits(r.target, new.filled, new.firstFill)
      /\ IdsFree(r.trade, new.ids)

RowAfter(r) ==
  LET old == row[r.trade]
      new == Effective(r, old)
  IN  [exists |-> old.exists, state |-> r.target, version |-> old.version + 1,
       filled |-> new.filled, firstFill |-> new.firstFill, ids |-> new.ids,
       nextSeq |-> old.nextSeq, reconciled |-> old.reconciled]

EntryAfter(r, cause) ==
  LET new == Effective(r, row[r.trade])
  IN  [from |-> row[r.trade].state, to |-> r.target, body |-> r.body,
       filled |-> new.filled, firstFill |-> new.firstFill, ids |-> new.ids,
       cause |-> cause]

CreatedEntry ==
  [from |-> None, to |-> "RECEIVED", body |-> None, filled |-> 0,
   firstFill |-> None, ids |-> NoIds, cause |-> None]

\* The unique index on the open trades of a symbol.
SymbolFree(t) ==
  \A u \in Trades \ {t} :
    row[u].exists /\ Symbol[u] = Symbol[t] => row[u].state \in Terminal

FactOf(t, k) == {f \in facts[t] : f.key = k}

\* _append_execution_event_locked for a new fact: take the next number of the
\* trade, insert the fact, advance the number, append to audit log and outbox.
NewFact(t, k, state, body, version) ==
  [key |-> k, seq |-> row[t].nextSeq, version |-> version, state |-> state, body |-> body]

RecordFact(f, t) ==
  /\ facts' = [facts EXCEPT ![t] = @ \cup {f}]
  /\ outbox' = [outbox EXCEPT ![t] = Append(@, Event(f))]

-----------------------------------------------------------------------------
(***************************************************************************)
(* The calls.                                                              *)
(***************************************************************************)
\* _create_locked inserts a trade once; a repeat with the same immutable content
\* finds it and one with other content is refused.
CreateLocked(t) == ~row[t].exists /\ SymbolFree(t)

\* create: the trade and its first journal entry.
Create(t) ==
  /\ CreateLocked(t)
  /\ row' = [row EXCEPT ![t].exists = TRUE]
  /\ journal' = [journal EXCEPT ![t] = <<CreatedEntry>>]
  /\ UNCHANGED <<facts, outbox, applied>>

\* create_with_execution_event: also for a trade that exists at version 0
\* without the fact.  A replay of the fact changes nothing.
CreateWithExecutionEvent(t, k, b) ==
  /\ row[t].nextSeq <= MaxSeq
  /\ CreateLocked(t) \/ (row[t].exists /\ row[t].version = 0)
  /\ FactOf(t, k) = {}
  /\ row' = [row EXCEPT ![t].exists = TRUE, ![t].nextSeq = @ + 1]
  /\ journal' = [journal EXCEPT ![t] = <<CreatedEntry>>]
  /\ RecordFact(NewFact(t, k, "RECEIVED", b, 0), t)
  /\ UNCHANGED applied

\* transition: the state machine and its journal alone.
Transition(r) ==
  /\ MayTransition(r) /\ row[r.trade].version < MaxVersion[r.trade]
  /\ row' = [row EXCEPT ![r.trade] = RowAfter(r)]
  /\ journal' = [journal EXCEPT ![r.trade] = Append(@, EntryAfter(r, None))]
  /\ UNCHANGED <<facts, outbox, applied>>

\* transition_with_execution_event for a new fact: both or neither.
TransitionWithExecutionEvent(r) ==
  /\ FactOf(r.trade, r.key) = {}
  /\ MayTransition(r) /\ r.said = r.target
  /\ row[r.trade].version < MaxVersion[r.trade] /\ row[r.trade].nextSeq <= MaxSeq
  /\ row' = [row EXCEPT ![r.trade] = [RowAfter(r) EXCEPT !.nextSeq = @ + 1]]
  /\ journal' = [journal EXCEPT ![r.trade] = Append(@, EntryAfter(r, r.key))]
  /\ RecordFact(NewFact(r.trade, r.key, r.target, r.body, row[r.trade].version + 1), r.trade)
  /\ applied' = applied \cup {r}

\* Faulty variant: the request is compared with what it would do to the row as
\* it is now.
ReplayAgreesWithRow(r, f) ==
  LET now == row[r.trade]
      new == Effective(r, now)
      stored == journal[r.trade][f.version + 1]
  IN  /\ Mergeable(r, now)
      /\ stored.to = r.target /\ stored.body = r.body
      /\ new = [filled |-> stored.filled, firstFill |-> stored.firstFill, ids |-> stored.ids]

\* _validate_transition_replay: the request, merged with the journal entry
\* before the fact's version, must give the entry of that version.
ReplayAgrees(r, f) ==
  LET before == journal[r.trade][f.version]
      stored == journal[r.trade][f.version + 1]
      new == Effective(r, before)
  IN  /\ stored.from = before.to
      /\ stored.to = r.target /\ stored.body = r.body
      /\ Mergeable(r, before)
      /\ new = [filled |-> stored.filled, firstFill |-> stored.firstFill, ids |-> stored.ids]

\* A request whose fact exists is answered with that fact, whatever the state
\* of the trade is now, or refused as a conflict.  An answer appends the event
\* to audit log and outbox again, where it is a duplicate.
ReplayAnswered(r) ==
  \E f \in FactOf(r.trade, r.key) :
    /\ f.state = r.target /\ f.version > 0
    /\ ReplayAgrees(r, f)
    /\ r.said = f.state /\ r.body = f.body

ReplayTransition(r) ==
  /\ ReplayAnswered(r)
  /\ applied' = applied \cup {r}
  /\ UNCHANGED <<row, journal, facts, outbox>>

\* append_execution_event: a fact of its own about the version the caller saw.
AppendExecutionEvent(t, k, state, body, version) ==
  /\ row[t].exists /\ FactOf(t, k) = {}
  /\ row[t].version = version /\ row[t].state = state /\ row[t].nextSeq <= MaxSeq
  /\ row' = [row EXCEPT ![t].nextSeq = @ + 1]
  /\ RecordFact(NewFact(t, k, state, body, version), t)
  /\ UNCHANGED <<journal, applied>>

\* next_event_sequence: a number is drawn and no fact is written.
NextEventSequence(t) ==
  /\ t \in LegacyCalls /\ row[t].exists /\ row[t].nextSeq <= MaxSeq
  /\ row' = [row EXCEPT ![t].nextSeq = @ + 1]
  /\ UNCHANGED <<journal, facts, outbox, applied>>

\* mark_reconciled, in any state.
MarkReconciled(t) ==
  /\ row[t].exists /\ ~row[t].reconciled
  /\ row' = [row EXCEPT ![t].reconciled = TRUE]
  /\ UNCHANGED <<journal, facts, outbox, applied>>

Call(t) ==
  \/ Create(t) \/ NextEventSequence(t) \/ MarkReconciled(t)
  \/ \E e \in Reports :
       /\ e.trade = t
       /\ \/ CreateWithExecutionEvent(t, e.key, e.body)
          \/ \E s \in States, v \in 0..MaxVersion[t] : AppendExecutionEvent(t, e.key, s, e.body, v)
  \/ \E r \in Requests :
       /\ r.trade = t
       /\ Transition(r) \/ TransitionWithExecutionEvent(r) \/ ReplayTransition(r)

Next == \E t \in Trades : Call(t)

Spec == Init /\ [][Next]_vars

-----------------------------------------------------------------------------
(***************************************************************************)
(* Properties.                                                             *)
(***************************************************************************)
\* What verify_chain and every restart rely on: the row is the sum of the
\* journal (one entry per version, each starting in the state the one before it
\* reached, the last one with the row's values), although calls with and without
\* facts, replays and reconciliations interleave.
RowIsJournalHead ==
  \A t \in Trades : row[t].exists =>
    LET j == journal[t]
        head == j[Len(j)]
    IN  /\ Len(j) = row[t].version + 1
        /\ \A i \in 1..(Len(j) - 1) : j[i + 1].from = j[i].to
        /\ row[t].state = head.to /\ row[t].filled = head.filled
        /\ row[t].firstFill = head.firstFill /\ row[t].ids = head.ids

\* A fact key advances a trade at most once, however often and however late its
\* call is repeated, and never without its fact: transition_with_execution_event
\* is all or nothing.
OneAdvancePerFact ==
  \A t \in Trades : \A i \in DOMAIN journal[t] :
    LET k == journal[t][i].cause
    IN  k # None =>
          /\ \A h \in DOMAIN journal[t] : journal[t][h].cause = k => h = i
          /\ \E f \in FactOf(t, k) : f.version = i - 1

\* Public facts tell the story of the journal in its order: a fact names the
\* state its version had, numbers grow with versions, no number is used twice,
\* and the outbox holds the events in the order of their numbers.
FactsFollowJournal ==
  \A t \in Trades :
    /\ \A f \in facts[t] :
         /\ f.version < Len(journal[t]) /\ journal[t][f.version + 1].to = f.state
         /\ \A g \in facts[t] : f.seq = g.seq \/ f.key = g.key => f = g
         /\ \A g \in facts[t] : f.seq < g.seq => f.version <= g.version
         /\ \E i \in DOMAIN outbox[t] : outbox[t][i] = Event(f)
    /\ \A i, h \in DOMAIN outbox[t] : i < h => outbox[t][i].seq < outbox[t][h].seq

\* Without the legacy call the numbers of a trade's facts have no gap, so a
\* consumer that waits for the next number never waits for ever.
NoGapInFacts ==
  \A t \in Trades \ LegacyCalls : {f.seq : f \in facts[t]} = 1..(row[t].nextSeq - 1)

\* A caller whose answer was lost can repeat its call for ever: a request that
\* advanced the trade stays answerable through every later transition.
RetryStaysAnswerable == \A r \in applied : ReplayAnswered(r)

\* What a call was answered for is what is recorded: no request with other
\* values than the journal holds for its fact is ever answered.
AnswersAreRecorded ==
  \A r \in applied : \E f \in FactOf(r.trade, r.key) :
    LET e == journal[r.trade][f.version + 1]
    IN  /\ r.target = e.to /\ r.filled \in {None, e.filled}
        /\ r.firstFill \in {None, e.firstFill}
        /\ \A s \in Slots : r.ids[s] \in {None, e.ids[s]}

\* What a restart, a consumer and a caller that repeats a call rely on.
StoryIsExact ==
  /\ RowIsJournalHead /\ OneAdvancePerFact /\ FactsFollowJournal /\ NoGapInFacts
  /\ RetryStaysAnswerable /\ AnswersAreRecorded

\* Handlers of a stop, a target and a timeout race: one of them opens the exit.
\* A second exit is an emergency exit and only after FAILED_BLOCKED.  A trade
\* that ever had a fill ends through an exit or a block, never by cancellation
\* and never as a trade without fill.
OneExit ==
  \A t \in Trades : \A i, h \in DOMAIN journal[t] :
    /\ i < h /\ journal[t][i].to \in Exits /\ journal[t][h].to \in Exits =>
         /\ journal[t][h].to = "EXITING_EMERGENCY"
         /\ \E m \in i..h : journal[t][m].to = "FAILED_BLOCKED"
    /\ journal[t][i].filled > 0 /\ row[t].state \in Terminal =>
         /\ row[t].state = "FLAT" /\ row[t].filled > 0 /\ row[t].firstFill # None
         /\ \E m \in DOMAIN journal[t] : journal[t][m].to \in Exits \cup {"FAILED_BLOCKED"}

\* An account has one open trade per symbol, and no client order id serves two
\* trades, although trades end, others take the symbol over and late calls for
\* the ended ones still arrive.
OneOpenTrade ==
  \A t, u \in Trades :
    t # u /\ row[t].exists /\ row[u].exists =>
      /\ Symbol[t] = Symbol[u] => {row[t].state, row[u].state} \cap Terminal # {}
      /\ \A s \in UniqueSlots : row[t].ids[s] = None \/ row[t].ids[s] # row[u].ids[s]
=============================================================================
