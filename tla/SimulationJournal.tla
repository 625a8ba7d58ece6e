-------------------------- MODULE SimulationJournal --------------------------
(***************************************************************************)
(* One session of the simulator over a sealed tape: decisions, admissions, *)
(* trades with their event chains, prepared model commands, receipts, the  *)
(* snapshot of the depth the model has consumed, results and the session   *)
(* receipt (simulation_repository.py).  Every operation is one transaction *)
(* under the session's and the trade's lock; between them a controller     *)
(* holds what it read.  It may crash anywhere and come back, and a COMMIT  *)
(* it had sent may still happen afterwards (LateCalls): until then that    *)
(* transaction keeps both locks, which plain reads do not wait for.        *)
(* The commands of a session are for one symbol: they share one depth.     *)
(***************************************************************************)
EXTENDS Naturals, Sequences

CONSTANTS
  Trades, Commands,
  TradeOf,    \* the trade a command is for
  Moves,      \* external: transitions SimulationTradeEventV2 of kairos_core admits
  Controllers,
  LateCalls,  \* the COMMIT a controller sent may outlive it
  MaxCrashes, \* bound on crashes
  None

\* What is in a sequence, and its end.
ToSet(s) == {s[i] : i \in 1..Len(s)}
Last(s) == s[Len(s)]

Terminal == {"FLAT", "UNRESOLVED", "NO_FILL", "BLOCKED"}
States == {"PENDING", "ACTIVE"} \cup Terminal

\* An identity is the content it covers; events, journals, receipts and calls.
EventIds == Seq(States \X (Commands \cup {None}))
Events == [seq : Nat, prev : EventIds, to : States, cmd : Commands \cup {None}, from : States \cup {None}]
TradeRows == [state : States, next : Nat, count : Nat, head : EventIds, log : Seq(Events)]
Receipts == [base : SUBSET Commands, evs : Seq(Events)]
Calls == [trade : Trades, cmd : Commands \cup {None}, base : SUBSET Commands, evs : Seq(Events) \cup {None}]

JournalConstants ==
  /\ TradeOf \in [Commands -> Trades] /\ LateCalls \in BOOLEAN /\ MaxCrashes \in Nat
  /\ Moves \subseteq {"PENDING", "ACTIVE"} \X States
  /\ None \notin States /\ None \notin Commands /\ None \notin EventIds /\ None \notin Seq(Events)
  /\ None \notin TradeRows /\ None \notin Receipts /\ None \notin Calls

VARIABLES
  session,   \* sim_sessions: its state
  sealed,    \* sim_session_receipts: the journal heads the receipt names
  decisions, \* sim_risk_decisions, by the trade they would lead to
  admitted,  \* sim_admissions
  trade,     \* sim_trades and, as log, its rows of sim_trade_events
  command,   \* sim_commands: their status
  receipt,   \* sim_command_receipts, with the events stored beside them
  liquidity, \* sim_liquidity_states: the commands whose depth it accounts for
  result,    \* sim_results: the terminal event
  ctl,       \* of every controller, the call it prepares
  late,      \* the call whose COMMIT is under way without its controller
  crashes

rows == <<session, sealed, decisions, admitted, trade, command, receipt, liquidity, result>>
vars == <<rows, ctl, late, crashes>>

-----------------------------------------------------------------------------
\* The identity of an event covers its own content and that of every one before.
EventId(e) == Append(e.prev, <<e.to, e.cmd>>)

NewTrade == [state |-> "PENDING", next |-> 1, count |-> 0, head |-> <<>>, log |-> <<>>]

Created == {t \in Trades : trade[t] # None}

\* A call has its events only once the controller has read the journal.
TypeOK ==
  /\ session \in {"NONE", "OPEN", "COMPLETED", "BLOCKED"} /\ (sealed # None => session \in {"COMPLETED", "BLOCKED"})
  /\ decisions \in [Trades -> SUBSET {"APPROVED", "REJECTED"}] /\ admitted \subseteq Trades
  /\ trade \in [Trades -> TradeRows \cup {None}] /\ Created \subseteq admitted
  /\ command \in [Commands -> {"NONE", "PREPARED", "COMPLETED"}] /\ liquidity \subseteq Commands
  /\ receipt \in [Commands -> Receipts \cup {None}] /\ result \in [Trades -> EventIds \cup {None}]
  /\ \A c \in Commands : command[c] # "NONE" => TradeOf[c] \in Created
  /\ ctl \in [Controllers -> Calls \cup {None}] /\ late \in Calls \cup {None}
  /\ \A call \in ({ctl[p] : p \in Controllers} \cup {late}) \ {None} : call.trade \in Created
  /\ crashes \in 0..MaxCrashes

Init ==
  /\ session = "NONE" /\ sealed = None /\ decisions = [t \in Trades |-> {}] /\ admitted = {}
  /\ trade = [t \in Trades |-> None] /\ command = [c \in Commands |-> "NONE"]
  /\ receipt = [c \in Commands |-> None] /\ liquidity = {} /\ result = [t \in Trades |-> None]
  /\ ctl = [p \in Controllers |-> None] /\ late = None /\ crashes = 0

-----------------------------------------------------------------------------
(* What needs no more than the rows it checks. A replay changes nothing. *)

\* Nobody holds _session_lock, or _trade_lock of t.
SessionFree == late = None
TradeFree(t) == late # None => late.trade # t

\* create_session: over an exact sealed tape.
CreateSession ==
  /\ session = "NONE" /\ session' = "OPEN"
  /\ UNCHANGED <<sealed, decisions, admitted, trade, command, receipt, liquidity, result, ctl, late, crashes>>

RecordRiskDecision(t, d) ==
  /\ SessionFree /\ session # "NONE" /\ decisions' = [decisions EXCEPT ![t] = @ \cup {d}]
  /\ UNCHANGED <<session, sealed, admitted, trade, command, receipt, liquidity, result, ctl, late, crashes>>

\* create_admission: only an approved decision has a quantity and a price cap.
CreateAdmission(t) ==
  /\ SessionFree /\ "APPROVED" \in decisions[t] /\ admitted' = admitted \cup {t}
  /\ UNCHANGED <<session, sealed, decisions, trade, command, receipt, liquidity, result, ctl, late, crashes>>

CreateTrade(t) ==
  /\ SessionFree /\ t \in admitted \ Created /\ trade' = [trade EXCEPT ![t] = NewTrade]
  /\ UNCHANGED <<session, sealed, decisions, admitted, command, receipt, liquidity, result, ctl, late, crashes>>

\* Faulty variant: the trade need not be there.
PrepareCommandUnbound(c) ==
  /\ SessionFree /\ session = "OPEN" /\ command[c] = "NONE"
  /\ command' = [command EXCEPT ![c] = "PREPARED"]
  /\ UNCHANGED <<session, sealed, decisions, admitted, trade, receipt, liquidity, result, ctl, late, crashes>>

PrepareCommand(c) ==
  /\ SessionFree /\ TradeOf[c] \in Created /\ command[c] = "NONE"
  /\ command' = [command EXCEPT ![c] = "PREPARED"]
  /\ UNCHANGED <<session, sealed, decisions, admitted, trade, receipt, liquidity, result, ctl, late, crashes>>

\* record_result, for a trade list_terminal_trades_without_result names.
RecordResult(t) ==
  /\ SessionFree /\ t \in Created /\ trade[t].state \in Terminal /\ result[t] = None
  /\ \E i \in 1..Len(trade[t].log) :
       /\ trade[t].log[i].to = trade[t].state
       /\ result' = [result EXCEPT ![t] = EventId(trade[t].log[i])]
  /\ UNCHANGED <<session, sealed, decisions, admitted, trade, command, receipt, liquidity, ctl, late, crashes>>

\* record_session_receipt: heads that are not those of the rows are refused.
RecordSessionReceipt(state) ==
  /\ SessionFree /\ session = "OPEN" /\ sealed = None
  /\ state = "COMPLETED" => \A t \in Created : trade[t].state \in Terminal
  /\ sealed' = [t \in Created |-> [state |-> trade[t].state, count |-> trade[t].count, head |-> trade[t].head]]
  /\ session' = state
  /\ UNCHANGED <<decisions, admitted, trade, command, receipt, liquidity, result, ctl, late, crashes>>

-----------------------------------------------------------------------------
(* Calls made of what a controller read before. *)

\* The conditions of _append_trade_event_locked on the place of an event.
Fits(row, e) ==
  /\ e.seq = row.next /\ e.prev = row.head
  /\ IF e.seq = 1 THEN e.from = None /\ e.to = row.state ELSE e.from = row.state

\* _append_trade_event_locked; None stands for an exception.
Appended(row, e) ==
  IF row = None THEN None
  ELSE IF e \in ToSet(row.log) THEN row
  ELSE IF ~Fits(row, e) THEN None
  ELSE [state |-> e.to, next |-> row.next + 1, count |-> row.count + 1,
        head |-> EventId(e), log |-> Append(row.log, e)]

\* One after the other; after[n] is the row after n of them.
AppendedAll(row, evs) ==
  LET after[n \in 0..Len(evs)] == IF n = 0 THEN row ELSE Appended(after[n - 1], evs[n])
  IN after[Len(evs)]

\* The next event a controller makes from a journal, for one command or none.
NextEvents(row, c) ==
  {[seq |-> row.next, prev |-> row.head, to |-> s, cmd |-> c,
    from |-> IF row.next = 1 THEN None ELSE row.state] :
     s \in IF row.next = 1 THEN {row.state} ELSE {s \in States : <<row.state, s>> \in Moves}}

\* The events a completed command may bring: none, one, or two in a row.
Plans(row, c) ==
  {<<>>} \cup {<<e>> : e \in NextEvents(row, c)}
  \cup UNION {{<<e, f>> : f \in NextEvents(Appended(row, e), c)} : e \in NextEvents(row, c)}

\* load_trade_journal, for an event of its own or of a command with a receipt.
PlanEvent(p, t, c) ==
  /\ ctl[p] = None /\ t \in Created /\ TradeFree(t)
  /\ c # None => TradeOf[c] = t /\ receipt[c] # None
  /\ \E e \in NextEvents(trade[t], c) :
       ctl' = [ctl EXCEPT ![p] = [trade |-> t, cmd |-> None, base |-> {}, evs |-> <<e>>]]
  /\ UNCHANGED <<rows, late, crashes>>

\* list_prepared_commands and load_liquidity_state: plain reads, without a lock.
Resume(p, c) ==
  /\ ctl[p] = None /\ command[c] = "PREPARED"
  /\ ctl' = [ctl EXCEPT ![p] = [trade |-> TradeOf[c], cmd |-> c, base |-> liquidity, evs |-> None]]
  /\ UNCHANGED <<rows, late, crashes>>

\* load_trade_journal, and the kernel run on what was read.
RunKernel(p) ==
  /\ ctl[p] # None /\ ctl[p].evs = None /\ TradeFree(ctl[p].trade)
  /\ \E evs \in Plans(trade[ctl[p].trade], ctl[p].cmd) : ctl' = [ctl EXCEPT ![p].evs = evs]
  /\ UNCHANGED <<rows, late, crashes>>

\* An event of a command needs the command's receipt, of the same trade.
HasLineage(call) ==
  \A i \in DOMAIN call.evs :
    call.evs[i].cmd # None => receipt[call.evs[i].cmd] # None /\ TradeOf[call.evs[i].cmd] = call.trade

\* append_trade_event.
AppendTradeEvent(call) ==
  LET row == AppendedAll(trade[call.trade], call.evs)
  IN trade' = [trade EXCEPT ![call.trade] = IF row # None /\ HasLineage(call) THEN row ELSE @]

\* Faulty variant: the receipt is kept when an event is refused.
CompleteCommandPiecewise(call) ==
  LET row == AppendedAll(trade[call.trade], call.evs)
  IN IF command[call.cmd] = "PREPARED"
     THEN /\ receipt' = [receipt EXCEPT ![call.cmd] = [base |-> call.base, evs |-> call.evs]]
          /\ liquidity' = call.base \cup {call.cmd}
          /\ trade' = [trade EXCEPT ![call.trade] = IF row = None THEN @ ELSE row]
          /\ command' = [command EXCEPT ![call.cmd] = IF row = None THEN @ ELSE "COMPLETED"]
     ELSE UNCHANGED <<receipt, liquidity, trade, command>>

\* complete_command: receipt, snapshot, events and status, or none of them. A
\* command with a receipt answers with it, or refuses another one.
CompleteCommand(call) ==
  LET row == AppendedAll(trade[call.trade], call.evs)
  IN IF command[call.cmd] = "PREPARED" /\ receipt[call.cmd] = None /\ row # None
     THEN /\ receipt' = [receipt EXCEPT ![call.cmd] = [base |-> call.base, evs |-> call.evs]]
          /\ liquidity' = call.base \cup {call.cmd}
          /\ trade' = [trade EXCEPT ![call.trade] = row]
          /\ command' = [command EXCEPT ![call.cmd] = "COMPLETED"]
     ELSE UNCHANGED <<receipt, liquidity, trade, command>>

Transaction(call) ==
  /\ IF call.cmd = None
     THEN AppendTradeEvent(call) /\ UNCHANGED <<receipt, liquidity, command>>
     ELSE CompleteCommand(call)
  /\ UNCHANGED <<session, sealed, decisions, admitted, result>>

Submit(p) ==
  /\ SessionFree /\ ctl[p] # None /\ ctl[p].evs # None
  /\ Transaction(ctl[p]) /\ ctl' = [ctl EXCEPT ![p] = None]
  /\ UNCHANGED <<late, crashes>>

\* A controller stops; the COMMIT it had sent may be under way.
Crash(p) ==
  /\ ctl[p] # None /\ crashes < MaxCrashes /\ crashes' = crashes + 1
  /\ ctl' = [ctl EXCEPT ![p] = None]
  /\ \/ UNCHANGED late
     \/ LateCalls /\ ctl[p].evs # None /\ SessionFree /\ late' = ctl[p]
  /\ UNCHANGED rows

Deliver ==
  /\ late # None /\ Transaction(late) /\ late' = None
  /\ UNCHANGED <<ctl, crashes>>

Next ==
  \/ CreateSession \/ Deliver
  \/ \E t \in Trades : \/ \E d \in {"APPROVED", "REJECTED"} : RecordRiskDecision(t, d)
                       \/ CreateAdmission(t)
                       \/ CreateTrade(t)
                       \/ RecordResult(t)
  \/ \E c \in Commands : PrepareCommand(c)
  \/ \E s \in {"COMPLETED", "BLOCKED"} : RecordSessionReceipt(s)
  \/ \E p \in Controllers : \/ \E t \in Trades, c \in Commands \cup {None} : PlanEvent(p, t, c)
                            \/ \E c \in Commands : Resume(p, c)
                            \/ RunKernel(p) \/ Submit(p) \/ Crash(p)

Spec == Init /\ [][Next]_vars

-----------------------------------------------------------------------------
\* verify_trade_chain holds of every trade in every state.
VerifyTradeChain(row) ==
  /\ \A i \in 1..Len(row.log) :
       /\ row.log[i].seq = i /\ row.log[i].prev = (IF i = 1 THEN <<>> ELSE EventId(row.log[i - 1]))
       /\ IF i = 1 THEN row.log[i].from = None /\ row.log[i].to = "PENDING"
                   ELSE row.log[i].from = row.log[i - 1].to
  /\ row.state = (IF row.log = <<>> THEN "PENDING" ELSE Last(row.log).to)
  /\ row.next = Len(row.log) + 1 /\ row.count = Len(row.log)
  /\ row.head = (IF row.log = <<>> THEN <<>> ELSE EventId(Last(row.log)))

\* Whatever journals the controllers read, and whoever comes first, what is stored
\* of a trade is one chain and its materialised end.
TradeVerifies == \A t \in Created : VerifyTradeChain(trade[t])

\* A command is completed entirely or not at all: its receipt, its status and every
\* event it brought; and no event names a command without them.
CompletionIsWhole ==
  /\ \A c \in Commands : receipt[c] # None <=> command[c] = "COMPLETED"
  /\ \A c \in Commands : receipt[c] # None => ToSet(receipt[c].evs) \subseteq ToSet(trade[TradeOf[c]].log)
  /\ \A t \in Created : \A e \in ToSet(trade[t].log) : e.cmd # None => command[e.cmd] = "COMPLETED"

\* A result names the event that ended its trade, and the trade stays there.
ResultIsTheEnd ==
  \A t \in Trades : result[t] # None =>
    trade[t].state \in Terminal /\ result[t] = EventId(Last(trade[t].log))

\* The heads in the session receipt stay heads of the journals: later events extend
\* what was sealed and replace none of it.
SealedIsHistory ==
  sealed # None =>
    \A t \in DOMAIN sealed :
      /\ sealed[t].count <= Len(trade[t].log)
      /\ sealed[t].head = (IF sealed[t].count = 0 THEN <<>> ELSE EventId(trade[t].log[sealed[t].count]))

\* verify_trade accepts every journal, a completion is stored whole or not at all,
\* and results and session receipts are those of the journal they close.
JournalVerifies == TradeVerifies /\ CompletionIsWhole /\ ResultIsTheEnd /\ SealedIsHistory
=============================================================================
