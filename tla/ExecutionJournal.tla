--------------------------- MODULE ExecutionJournal ---------------------------
(***************************************************************************)
(* The journal of external effects in execution_journal.py: an executor    *)
(* prepares an effect under its key, calls the venue if it created the     *)
(* row, and confirms or fails it; a recoverer takes effects whose recovery *)
(* time has come, asks the venue under a session lock, and reconciles.     *)
(*                                                                         *)
(* Each repository call is one transaction and one step.  The recovery     *)
(* lock has the same key as the transaction lock of prepare and keeps no   *)
(* one from confirming or failing.  Executors die and their requests may   *)
(* still reach the venue; a recoverer may lose its lock and go on.         *)
(***************************************************************************)
EXTENDS Naturals, Sequences, FiniteSets

CONSTANTS
  Effects,        \* effect keys
  Senders,        \* executor tasks; each uses one key
  KeyOf,          \* the effect key of a task
  ContentOf,      \* the immutable content a task prepares its effect with
  Recoverers,     \* recovery tasks
  Answers,        \* what the venue says of an order, which varies with time
  RecoveryDelay,  \* recovery_delay
  CallBound,      \* how long after prepare a request can still reach the venue
  MaxTime,        \* bound on the clock; effects are prepared RecoveryDelay before
  MaxFaults,      \* bound on crashes and lost locks of recoverers
  None            \* SQL NULL, no holder, no effect

JournalConstants ==
  /\ KeyOf \in [Senders -> Effects] /\ DOMAIN ContentOf = Senders
  /\ RecoveryDelay \in Nat /\ CallBound \in Nat /\ MaxTime \in Nat /\ MaxFaults \in Nat
  /\ CallBound < RecoveryDelay
  /\ None \notin Effects \cup Senders \cup Recoverers \cup Answers

VARIABLES
  now,      \* clock of the database
  effect,   \* rows of execution_effects
  journal,  \* execution_effect_events of an effect
  task,     \* where each executor task is
  venue,    \* orders at the venue for an effect, named by the task that sent them
  flying,   \* requests on their way to the venue
  rec,      \* where each recoverer is
  lock,     \* the recoverer whose connection holds recovery_lock of an effect
  faults    \* faults of recoverers so far

vars == <<now, effect, journal, task, venue, flying, rec, lock, faults>>

-----------------------------------------------------------------------------
Statuses == {"NONE", "PREPARED", "CONFIRMED", "RECONCILED", "FAILED"}

NoEffect == [status |-> "NONE", content |-> None, id |-> None, answer |-> None,
             error |-> FALSE, preparedAt |-> 0, recoveryAfter |-> 0]

Rows == [status : Statuses, content : {ContentOf[s] : s \in Senders} \cup {None},
         id : Senders \cup {None}, answer : Answers \cup {None}, error : BOOLEAN,
         preparedAt : 0..MaxTime, recoveryAfter : 0..(MaxTime + RecoveryDelay)]

Entries == [phase : Statuses \ {"NONE"}, id : Senders \cup {None},
            answer : Answers \cup {None}, error : BOOLEAN]

Idle == [at |-> "idle", effect |-> None, id |-> None, answer |-> None]
RecStates == {Idle} \cup
  [at : {"listed", "locked"}, effect : Effects, id : {None}, answer : {None}] \cup
  [at : {"asked"}, effect : Effects, id : Senders \cup {None}, answer : Answers]

\* An effect's columns follow its state, as the CHECK constraints say.
TypeOK ==
  /\ now \in 0..MaxTime
  /\ effect \in [Effects -> Rows]
  /\ \A e \in Effects : /\ effect[e].error <=> effect[e].status = "FAILED"
                        /\ effect[e].status = "CONFIRMED" => effect[e].id # None
  /\ journal \in [Effects -> Seq(Entries)]
  /\ task \in [Senders -> {"new", "created", "waiting", "ended"}]
  /\ venue \in [Effects -> SUBSET Senders]
  /\ flying \subseteq Senders
  /\ rec \in [Recoverers -> RecStates]
  /\ lock \in [Effects -> Recoverers \cup {None}]
  /\ faults \in 0..MaxFaults

Init ==
  /\ now = 0
  /\ effect = [e \in Effects |-> NoEffect]
  /\ journal = [e \in Effects |-> <<>>]
  /\ task = [s \in Senders |-> "new"]
  /\ venue = [e \in Effects |-> {}]
  /\ flying = {}
  /\ rec = [r \in Recoverers |-> Idle]
  /\ lock = [e \in Effects |-> None]
  /\ faults = 0

Tick ==
  /\ now < MaxTime
  /\ now' = now + 1
  /\ UNCHANGED <<effect, journal, task, venue, flying, rec, lock, faults>>

-----------------------------------------------------------------------------
(***************************************************************************)
(* The executor.                                                           *)
(***************************************************************************)
Prepared(s) ==
  [status |-> "PREPARED", content |-> ContentOf[s], id |-> None, answer |-> None,
   error |-> FALSE, preparedAt |-> now, recoveryAfter |-> now + RecoveryDelay]

PreparedEntry == [phase |-> "PREPARED", id |-> None, answer |-> None, error |-> FALSE]

\* Faulty variant: an effect that is still open is handed out again.
InsertsAgain(s) == effect[KeyOf[s]].status \in {"NONE", "PREPARED"}

Inserts(s) == effect[KeyOf[s]].status = "NONE"

MayCall(s) ==
  task[s] = "new" /\ lock[KeyOf[s]] = None /\ now + RecoveryDelay <= MaxTime

InsertEffect(s) ==
  /\ effect' = [effect EXCEPT ![KeyOf[s]] = Prepared(s)]
  /\ journal' = [journal EXCEPT ![KeyOf[s]] = Append(@, PreparedEntry)]

\* prepare: the transaction lock of the key waits for a recoverer's session lock.
\* Only the caller that inserts the row learns created=True and may send; one
\* with the same content gets the row, one with other content an error.
Prepare(s) ==
  /\ MayCall(s)
  /\ IF Inserts(s)
     THEN InsertEffect(s) /\ task' = [task EXCEPT ![s] = "created"]
     ELSE UNCHANGED <<effect, journal>> /\ task' = [task EXCEPT ![s] = "ended"]
  /\ UNCHANGED <<now, venue, flying, rec, lock, faults>>

\* The row is committed and the answer lost; a repeated prepare finds the row.
PrepareAnswerLost(s) ==
  /\ MayCall(s) /\ Inserts(s)
  /\ InsertEffect(s)
  /\ UNCHANGED <<now, task, venue, flying, rec, lock, faults>>

InTime(s) == now <= effect[KeyOf[s]].preparedAt + CallBound

Send(s) ==
  /\ task[s] = "created" /\ InTime(s)
  /\ task' = [task EXCEPT ![s] = "waiting"]
  /\ flying' = flying \cup {s}
  /\ UNCHANGED <<now, effect, journal, venue, rec, lock, faults>>

\* The venue takes the order, at the latest CallBound after prepare.
Land(s) ==
  /\ s \in flying /\ InTime(s)
  /\ venue' = [venue EXCEPT ![KeyOf[s]] = @ \cup {s}]
  /\ flying' = flying \ {s}
  /\ UNCHANGED <<now, effect, journal, task, rec, lock, faults>>

Allowed(from) ==
  CASE from = "PREPARED" -> {"PREPARED", "CONFIRMED", "RECONCILED", "FAILED"}
    [] from = "CONFIRMED" -> {"CONFIRMED", "RECONCILED"}
    [] from = "RECONCILED" -> {"RECONCILED"}
    [] from = "FAILED" -> {"FAILED", "RECONCILED"}
    [] from = "NONE" -> {}

Given(new, old) == IF new = None THEN old ELSE new

\* Faulty variant: the error of a failed call stays in the row.
AfterKeepsError(e, status, id, answer, error) ==
  [effect[e] EXCEPT !.status = status, !.id = Given(id, @),
                    !.answer = Given(answer, @), !.error = @ \/ error]

After(e, status, id, answer, error) ==
  [effect[e] EXCEPT !.status = status, !.id = Given(id, @),
                    !.answer = Given(answer, @), !.error = error]

\* _transition: refused or, for the same status, without effect unless the
\* status is a new one that the current status allows.
Transition(e, status, id, answer, error) ==
  LET new == After(e, status, id, answer, error)
  IN  IF status \in Allowed(effect[e].status) /\ status # effect[e].status
      THEN /\ effect' = [effect EXCEPT ![e] = new]
           /\ journal' = [journal EXCEPT ![e] =
                Append(@, [phase |-> status, id |-> new.id, answer |-> new.answer,
                           error |-> error])]
      ELSE UNCHANGED <<effect, journal>>

\* The venue answered in time; confirm names the order.
Confirm(s, a) ==
  /\ task[s] = "waiting" /\ s \in venue[KeyOf[s]]
  /\ Transition(KeyOf[s], "CONFIRMED", s, a, FALSE)
  /\ task' = [task EXCEPT ![s] = "ended"]
  /\ UNCHANGED <<now, venue, flying, rec, lock, faults>>

\* The call raised or timed out, whether or not the order is at the venue.
Fail(s) ==
  /\ task[s] \in {"created", "waiting"}
  /\ Transition(KeyOf[s], "FAILED", None, None, TRUE)
  /\ task' = [task EXCEPT ![s] = "ended"]
  /\ UNCHANGED <<now, venue, flying, rec, lock, faults>>

\* The task ends without a word; its request may still be on its way.
Die(s) ==
  /\ task[s] \in {"created", "waiting"}
  /\ task' = [task EXCEPT ![s] = "ended"]
  /\ UNCHANGED <<now, effect, journal, venue, flying, rec, lock, faults>>

-----------------------------------------------------------------------------
(***************************************************************************)
(* The recoverer.                                                          *)
(***************************************************************************)
\* Faulty variant: effects are recovered as soon as they are seen.
RecoveryRequiredAtOnce(e) == effect[e].status \in {"PREPARED", "FAILED"}

RecoveryRequired(e) ==
  effect[e].status \in {"PREPARED", "FAILED"} /\ effect[e].recoveryAfter <= now

List(r, e) ==
  /\ rec[r].at = "idle" /\ RecoveryRequired(e)
  /\ rec' = [rec EXCEPT ![r] = [Idle EXCEPT !.at = "listed", !.effect = e]]
  /\ UNCHANGED <<now, effect, journal, task, venue, flying, lock, faults>>

RecoveryLock(r) ==
  /\ rec[r].at = "listed" /\ lock[rec[r].effect] = None
  /\ lock' = [lock EXCEPT ![rec[r].effect] = r]
  /\ rec' = [rec EXCEPT ![r].at = "locked"]
  /\ UNCHANGED <<now, effect, journal, task, venue, flying, faults>>

\* The venue is asked for the order of the effect.
AskVenue(r, a) ==
  /\ rec[r].at = "locked"
  /\ \E id \in IF venue[rec[r].effect] = {} THEN {None} ELSE venue[rec[r].effect] :
       rec' = [rec EXCEPT ![r].at = "asked", ![r].id = id, ![r].answer = a]
  /\ UNCHANGED <<now, effect, journal, task, venue, flying, lock, faults>>

Unlocked(r) == [e \in Effects |-> IF lock[e] = r THEN None ELSE lock[e]]

\* reconcile with what the venue said, then the lock is given back.  A second
\* reconciliation with another answer is refused.
Reconcile(r) ==
  /\ rec[r].at = "asked"
  /\ Transition(rec[r].effect, "RECONCILED", rec[r].id, rec[r].answer, FALSE)
  /\ rec' = [rec EXCEPT ![r] = Idle]
  /\ lock' = Unlocked(r)
  /\ UNCHANGED <<now, task, venue, flying, faults>>

Fault == faults < MaxFaults /\ faults' = faults + 1

\* The recoverer dies, or only its connection is lost and it goes on.
RecovererDies(r) ==
  /\ Fault
  /\ rec[r].at # "idle"
  /\ rec' = [rec EXCEPT ![r] = Idle]
  /\ lock' = Unlocked(r)
  /\ UNCHANGED <<now, effect, journal, task, venue, flying>>

LoseLock(r) ==
  /\ Fault
  /\ \E e \in Effects : lock[e] = r
  /\ lock' = Unlocked(r)
  /\ UNCHANGED <<now, effect, journal, task, venue, flying, rec>>

Recover(r) ==
  \/ \E e \in Effects : List(r, e)
  \/ RecoveryLock(r)
  \/ \E a \in Answers : AskVenue(r, a)
  \/ Reconcile(r)

Next ==
  \/ Tick
  \/ \E s \in Senders :
       \/ Prepare(s) \/ PrepareAnswerLost(s) \/ Send(s) \/ Land(s) \/ Fail(s) \/ Die(s)
       \/ \E a \in Answers : Confirm(s, a)
  \/ \E r \in Recoverers : Recover(r) \/ RecovererDies(r) \/ LoseLock(r)

Spec == Init /\ [][Next]_vars

-----------------------------------------------------------------------------
\* However many tasks use a key and however often prepare is repeated, the venue
\* gets at most one order for an effect.
OneOrderPerEffect == \A e \in Effects : Cardinality(venue[e]) <= 1

\* What a reconciliation states is true from then on: an effect reconciled
\* without an order has none at the venue and none under way, one reconciled with
\* an order names the order that is there.
ReconciledIsTrue ==
  \A e \in Effects : effect[e].status = "RECONCILED" =>
    /\ venue[e] = IF effect[e].id = None THEN {} ELSE {effect[e].id}
    /\ \A s \in flying : KeyOf[s] = e => ~InTime(s)
    /\ \A s \in Senders : KeyOf[s] = e /\ task[s] = "created" => ~InTime(s)

\* The row is the head of its journal, whose phases form a path of the protocol,
\* although executor and recoverer write without a common lock.
RowIsJournalHead ==
  \A e \in Effects : effect[e].status # "NONE" =>
    LET j == journal[e]
        head == j[Len(j)]
    IN  /\ j[1].phase = "PREPARED"
        /\ head = [phase |-> effect[e].status, id |-> effect[e].id,
                   answer |-> effect[e].answer, error |-> effect[e].error]
        /\ \A i \in 2..Len(j) : j[i].phase \in Allowed(j[i - 1].phase) \ {j[i - 1].phase}

\* The row of an effect is the head of its journal, and a reconciliation that
\* recovery wrote agrees with the venue for good.
JournalIsTrue == ReconciledIsTrue /\ RowIsJournalHead
=============================================================================
