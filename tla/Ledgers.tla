-------------------------------- MODULE Ledgers --------------------------------
(***************************************************************************)
(* TradeLifecycle, AccountEquity, SourceState and NewsProcessing side by    *)
(* side: what was done, spent and claimed.  They share no row.  A behaviour *)
(* is one of a single part, which Init chooses, and leaves the rows of the  *)
(* others as they were; the trades form parts of their own, too.            *)
(***************************************************************************)
EXTENDS Naturals, Sequences, TLC

CONSTANTS
  Trades, Symbol, Quantity, FactKeys, Slots, UniqueSlots, Ids, Bodies,      \* of TradeLifecycle
  Requests, Reports, LegacyCalls, MaxVersion, MaxSeq,
  Focus,                                         \* the trades of each part that is about trades
  Instants, DayLength, Equities, MaxArrivals,                               \* of AccountEquity
  UsageKeys, Services, Sources, ServiceOf, SourceOf, Cost, Monthly,         \* of SourceState
  InCampaign, Adoptions, Reservers, MaxCursor, MaxMonth,
  NewsKeys, Batches, Callers, Attempts, AttemptOf,                          \* of NewsProcessing
  None

VARIABLES part,
          row, journal, facts, outbox, applied,
          equity, arrivals,
          month, campaign, adopted, usage, task, lock, cursor,
          claim, caller, calls

tradeVars == <<row, journal, facts, outbox, applied>>
equityVars == <<equity, arrivals>>
sourceVars == <<month, campaign, adopted, usage, task, lock, cursor>>
newsVars == <<claim, caller, calls>>
vars == <<part, tradeVars, equityVars, sourceVars, newsVars>>

-----------------------------------------------------------------------------
Trade == INSTANCE TradeLifecycle
Equity == INSTANCE AccountEquity WITH rows <- equity
Source == INSTANCE SourceState WITH Keys <- UsageKeys, Tasks <- Reservers, row <- usage
News == INSTANCE NewsProcessing WITH Keys <- NewsKeys, Tasks <- Callers, row <- claim, task <- caller

TradeParts == DOMAIN Focus

ASSUME LedgerConstants ==
  /\ Trade!TradeConstants /\ Equity!EquityConstants /\ Source!SourceConstants /\ News!NewsConstants
  /\ \A p \in TradeParts : Focus[p] \subseteq Trades
  /\ TradeParts \cap {"equity", "source", "news"} = {}

-----------------------------------------------------------------------------
Init ==
  /\ part \in TradeParts \cup {"equity", "source", "news"}
  /\ Trade!Init /\ Equity!Init /\ Source!Init /\ News!Init

TradeNext ==
  /\ part \in TradeParts /\ \E t \in Focus[part] : Trade!Call(t)
  /\ UNCHANGED <<part, equityVars, sourceVars, newsVars>>
EquityNext == part = "equity" /\ Equity!Next /\ UNCHANGED <<part, tradeVars, sourceVars, newsVars>>
SourceNext == part = "source" /\ Source!Next /\ UNCHANGED <<part, tradeVars, equityVars, newsVars>>
NewsNext == part = "news" /\ News!Next /\ UNCHANGED <<part, tradeVars, equityVars, sourceVars>>

Next == TradeNext \/ EquityNext \/ SourceNext \/ NewsNext

Spec == Init /\ [][Next]_vars

-----------------------------------------------------------------------------
\* Rows, journals, facts, reservations and claims have their types, the CHECK constraints of the
\* tables included.
TypeOK == Trade!TypeOK /\ Equity!TypeOK /\ Source!TypeOK /\ News!TypeOK

\* A trade's row, journal, facts and outbox tell one story, however often and
\* however late transition_with_execution_event is repeated.
StoryIsExact == Trade!StoryIsExact

\* Of the handlers that race for the exit of a trade one opens it, and a trade
\* with a fill is neither cancelled nor closed without an exit.
OneExit == Trade!OneExit

\* An account has one open trade per symbol and a client order id one trade.
OneOpenTrade == Trade!OneOpenTrade

\* record_equity keeps the summary of the day whatever the order of arrival.
RowIsSummary == Equity!RowIsSummary

\* No reservation crosses a monthly or a campaign budget.
BudgetsHold == Source!BudgetsHold

\* Every news event is claimed by one caller, paid for once and lost by nobody.
ClaimedOnce == News!ClaimedOnce
=============================================================================
