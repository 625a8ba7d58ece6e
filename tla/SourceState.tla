----------------------------- MODULE SourceState -----------------------------
(***************************************************************************)
(* Paid sources: source_state.py with the adapters of usage_budget.py and  *)
(* the adoption of campaign_adoption.py, for one provider.  Services       *)
(* reserve before they pay, commit what was billed or release; months      *)
(* pass; at some time an operator adopts a campaign whose budget counts    *)
(* everything, under every alias of the provider, for ever.                *)
(*                                                                         *)
(* reserve_usage is three steps: the billing month is read, the sum is     *)
(* taken under the provider's lock, the row is stored.  commit_usage and   *)
(* release_usage take the row only and may fall between them.              *)
(***************************************************************************)
EXTENDS Naturals, FiniteSets, Functions

CONSTANTS
  Keys,      \* reservation keys: service, source and reservation id
  Services, ServiceOf, \* the service of a key
  Sources, SourceOf,   \* the alias of the provider a key is booked under
  Cost,      \* reserved units times unit cost of a key
  Monthly,   \* monthly_budget_microusd a service passes
  InCampaign,\* the services whose repository has the campaign id
  Adoptions, \* (budget, historical cost) receipts an operator may register
  Tasks,     \* tasks of the services
  MaxCursor, \* 2^64 - 1
  MaxMonth,  \* bound on the calendar
  None       \* SQL NULL, no task, no key

SourceConstants ==
  /\ IsFiniteSet(Keys) /\ ServiceOf \in [Keys -> Services] /\ SourceOf \in [Keys -> Sources]
  /\ Cost \in [Keys -> Nat] /\ Monthly \in [Services -> Nat]
  /\ InCampaign \subseteq Services
  /\ Adoptions \subseteq [budget : Nat \ {0}, historical : Nat]
  /\ MaxCursor \in Nat /\ MaxMonth \in Nat
  /\ None \notin Keys \cup Tasks /\ None \notin Adoptions

VARIABLES
  month,    \* the calendar month
  campaign, \* the provider's row of campaign_source_budgets, or None
  adopted,  \* history: everything charged when the campaign was adopted
  row,      \* rows of source_usage_reservations
  task,     \* where each task is in reserve_usage
  lock,     \* the task that holds the provider's transaction lock, or None
  cursor    \* a row of source_cursors, or None

vars == <<month, campaign, adopted, row, task, lock, cursor>>

-----------------------------------------------------------------------------
Months == 0..MaxMonth
NoRow == [status |-> "NONE", month |-> 0, actual |-> 0]
Rows == [status : {"NONE", "RESERVED", "COMMITTED", "RELEASED"}, month : Months, actual : Nat]
Idle == [at |-> "idle", key |-> None, month |-> 0]
TaskStates == [at : {"idle", "asked", "checked"}, key : Keys \cup {None}, month : Months]

\* A commit stays within its reservation; the task that checked has the lock.
TypeOK ==
  /\ month \in Months /\ adopted \in Nat
  /\ campaign \in Adoptions \cup {None}
  /\ row \in [Keys -> Rows]
  /\ \A k \in Keys : row[k].actual <= Cost[k] /\ (row[k].actual > 0 => row[k].status = "COMMITTED")
  /\ task \in [Tasks -> TaskStates]
  /\ lock \in Tasks \cup {None}
  /\ \A x \in Tasks : task[x].at = "checked" <=> lock = x
  /\ cursor \in 0..MaxCursor \cup {None}

Init ==
  /\ month = 0 /\ campaign = None /\ adopted = 0
  /\ row = [k \in Keys |-> NoRow]
  /\ task = [x \in Tasks |-> Idle]
  /\ lock = None /\ cursor = None

NextMonth ==
  /\ month < MaxMonth
  /\ month' = month + 1
  /\ UNCHANGED <<campaign, adopted, row, task, lock, cursor>>

-----------------------------------------------------------------------------
\* What a row counts for: the amount billed, or the amount that may be.
Charge(k) == IF row[k].status = "RESERVED" THEN Cost[k] ELSE IF row[k].status = "COMMITTED" THEN row[k].actual ELSE 0

ChargeOf(ks) == SumFunctionOnSet([k \in Keys |-> Charge(k)], ks)

\* Faulty variant: only the alias at hand is summed.
CampaignCostOfAlias(k) ==
  campaign.historical + ChargeOf({q \in Keys : SourceOf[q] = SourceOf[k]})

\* The provider's aliases, services and months all count.
CampaignCost(k) == campaign.historical + ChargeOf(Keys)

MonthCost(k, m) ==
  ChargeOf({q \in Keys : ServiceOf[q] = ServiceOf[k] /\ SourceOf[q] = SourceOf[k] /\ row[q].month = m})

Affordable(k, m) ==
  IF campaign # None
  THEN \A cap \in {Monthly[ServiceOf[k]], campaign.budget} : CampaignCost(k) + Cost[k] <= cap
  ELSE ServiceOf[k] \notin InCampaign /\ MonthCost(k, m) + Cost[k] <= Monthly[ServiceOf[k]]

\* reserve_usage of a key without a row; with one it returns the row as it is.
Ask(x, k) ==
  /\ task[x].at = "idle" /\ row[k].status = "NONE"
  /\ task' = [task EXCEPT ![x] = [at |-> "asked", key |-> k, month |-> month]]
  /\ UNCHANGED <<month, campaign, adopted, row, lock, cursor>>

Check(x) ==
  /\ task[x].at = "asked" /\ lock = None
  /\ row[task[x].key].status = "NONE" /\ Affordable(task[x].key, task[x].month)
  /\ lock' = x
  /\ task' = [task EXCEPT ![x].at = "checked"]
  /\ UNCHANGED <<month, campaign, adopted, row, cursor>>

Store(x) ==
  /\ task[x].at = "checked"
  /\ row' = [row EXCEPT ![task[x].key] = [NoRow EXCEPT !.status = "RESERVED", !.month = task[x].month]]
  /\ lock' = None
  /\ task' = [task EXCEPT ![x] = Idle]
  /\ UNCHANGED <<month, campaign, adopted, cursor>>

\* The caller is refused, finds the row, fails or dies; a transaction rolls back.
GiveUp(x) ==
  /\ task[x].at # "idle"
  /\ lock' = IF lock = x THEN None ELSE lock
  /\ task' = [task EXCEPT ![x] = Idle]
  /\ UNCHANGED <<month, campaign, adopted, row, cursor>>

Commits(k, a) == row[k].status = "RESERVED" /\ a <= Cost[k]

CommitUsage(k, a) ==
  /\ Commits(k, a)
  /\ row' = [row EXCEPT ![k].status = "COMMITTED", ![k].actual = a]
  /\ UNCHANGED <<month, campaign, adopted, task, lock, cursor>>

ReleaseUsage(k) ==
  /\ row[k].status = "RESERVED"
  /\ row' = [row EXCEPT ![k].status = "RELEASED"]
  /\ UNCHANGED <<month, campaign, adopted, task, lock, cursor>>

\* register_campaign: once; the same receipt again changes nothing.
Register(c) ==
  /\ campaign = None /\ lock = None
  /\ campaign' = c /\ adopted' = c.historical + ChargeOf(Keys)
  /\ UNCHANGED <<month, row, task, lock, cursor>>

-----------------------------------------------------------------------------
Advances(v) == cursor # None => v > cursor

\* advance_cursor: a lower value is refused, the same one changes nothing.
AdvanceCursor(v) ==
  /\ Advances(v)
  /\ cursor' = v
  /\ UNCHANGED <<month, campaign, adopted, row, task, lock>>

Next ==
  \/ NextMonth
  \/ \E x \in Tasks : Check(x) \/ Store(x) \/ GiveUp(x) \/ \E k \in Keys : Ask(x, k)
  \/ \E k \in Keys : ReleaseUsage(k) \/ \E a \in 0..(Cost[k] + 1) : CommitUsage(k, a)
  \/ \E c \in Adoptions : Register(c)
  \/ \E v \in 0..MaxCursor : AdvanceCursor(v)

Spec == Init /\ [][Next]_vars

-----------------------------------------------------------------------------
\* The campaign's budget is never crossed by a reservation: history, all aliases,
\* services and months together stay within it, or within what was charged
\* already when it was adopted, also when reservations were under way then.
CampaignCap ==
  campaign # None =>
    \E cap \in {campaign.budget, adopted} : campaign.historical + ChargeOf(Keys) <= cap

\* No service spends more in a month under one source than its monthly budget,
\* with or without a campaign, also for requests that wait across the month's end.
MonthlyCap ==
  \A s \in Services, src \in Sources, m \in Months :
    ChargeOf({k \in Keys : ServiceOf[k] = s /\ SourceOf[k] = src /\ row[k].month = m}) <= Monthly[s]

\* Reserved and committed usage stays within the monthly and the campaign budget,
\* whichever alias or service asked.
BudgetsHold == CampaignCap /\ MonthlyCap
=============================================================================
