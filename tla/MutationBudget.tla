---------------------------- MODULE MutationBudget ----------------------------
(***************************************************************************)
(* The budget of venue mutations: mutation_budget.py.  reserve is one      *)
(* transaction under a lock of the account's scope.  The number of         *)
(* reservations in the window is read at one time of the database clock    *)
(* and the new row is stamped at a later one, so a task that was admitted  *)
(* is a state of its own here.  A task that fails before COMMIT leaves     *)
(* nothing.                                                                *)
(***************************************************************************)
EXTENDS Integers, FiniteSets

CONSTANTS
  Effects,       \* effect ids
  Compensations, \* the effects that compensate (close or protect)
  Tasks,         \* executor tasks
  Configs,       \* (capacity, window, reserve) the deployed processes use
  MinReserve,    \* DEFAULT_COMPENSATION_RESERVE
  MaxTime,       \* bound on the database clock
  None           \* no row, no task, no effect

ASSUME BudgetConstants ==
  /\ Compensations \subseteq Effects
  /\ MaxTime \in Nat /\ MinReserve \in Nat
  /\ Configs \subseteq [capacity : Nat, window : Nat, reserve : Nat]
  /\ \A c \in Configs : c.reserve >= MinReserve /\ c.reserve < c.capacity /\ c.window > 0
  /\ None \notin Configs \cup Tasks \cup Effects

VARIABLES
  now,    \* clock_timestamp()
  config, \* the row of execution_mutation_budget_scopes, or None
  rows,   \* execution_mutation_reservations
  lock,   \* the task that holds the scope's transaction lock, or None
  task    \* where each task is in reserve, and with what

vars == <<now, config, rows, lock, task>>

-----------------------------------------------------------------------------
Reservations == [effect : Effects, occurred : Nat]
Idle == [at |-> "idle", effect |-> None, config |-> None]
TaskStates == [at : {"idle", "admitted", "granted", "denied"},
               effect : Effects \cup {None}, config : Configs \cup {None}]

\* The admitted task is the one with the lock; a stored scope has a
\* configuration and an effect at most one reservation.
TypeOK ==
  /\ now \in Nat
  /\ config \in Configs \cup {None}
  /\ rows \subseteq Reservations /\ IsFiniteSet(rows)
  /\ lock \in Tasks \cup {None}
  /\ task \in [Tasks -> TaskStates]
  /\ \A r \in rows : r.occurred <= now
  /\ \A q, r \in rows : q.effect = r.effect => q = r
  /\ \A x \in Tasks : task[x].at = "admitted" <=> lock = x
  /\ \A x \in Tasks : task[x].at = "admitted" =>
       /\ task[x].effect \in Effects /\ task[x].config \in Configs
       /\ config \in {None, task[x].config}
       /\ \A r \in rows : r.effect # task[x].effect
  /\ rows # {} => config # None

Init ==
  /\ now = 0 /\ config = None /\ rows = {} /\ lock = None
  /\ task = [x \in Tasks |-> Idle]

Tick ==
  /\ now < MaxTime
  /\ now' = now + 1
  /\ UNCHANGED <<config, rows, lock, task>>

-----------------------------------------------------------------------------
\* _used
InWindow(r, c) == r.occurred > now - c.window

Used(c) == {r \in rows : InWindow(r, c)}

Reserved(e) == \E r \in rows : r.effect = e

\* Faulty variant: ordinary effects may use the reserve.
AdmitsAlike(e, c) == Cardinality(Used(c)) < c.capacity

Admits(e, c) ==
  c.capacity - Cardinality(Used(c)) >= (IF e \in Compensations THEN 1 ELSE c.reserve + 1)

\* Faulty variant: a process with another configuration goes on.
ConfiguredAny(c) == TRUE

\* A scope keeps the configuration it was created with; others are refused.
Configured(c) == config \in {None, c}

\* The lock is taken, the scope read or created, and the window counted.
Admit(x, e, c) ==
  /\ task[x].at # "admitted" /\ lock = None
  /\ Configured(c) /\ ~Reserved(e) /\ Admits(e, c)
  /\ lock' = x
  /\ task' = [task EXCEPT ![x] = [at |-> "admitted", effect |-> e, config |-> c]]
  /\ UNCHANGED <<now, config, rows>>

\* A refusal stores the scope only.
Deny(x, e, c) ==
  /\ task[x].at # "admitted" /\ lock = None
  /\ Configured(c) /\ ~Reserved(e) /\ ~Admits(e, c)
  /\ config' = c
  /\ task' = [task EXCEPT ![x] = [at |-> "denied", effect |-> e, config |-> c]]
  /\ UNCHANGED <<now, rows, lock>>

\* A reservation that is there is granted again and counts once.
Replay(x, e, c) ==
  /\ task[x].at # "admitted" /\ lock = None
  /\ Configured(c) /\ Reserved(e)
  /\ config' = c
  /\ task' = [task EXCEPT ![x] = [at |-> "granted", effect |-> e, config |-> c]]
  /\ UNCHANGED <<now, rows, lock>>

\* The INSERT stamps the row; COMMIT frees the lock.
Store(x) ==
  /\ task[x].at = "admitted"
  /\ rows' = rows \cup {[effect |-> task[x].effect, occurred |-> now]}
  /\ config' = task[x].config
  /\ lock' = None
  /\ task' = [task EXCEPT ![x].at = "granted"]
  /\ UNCHANGED now

\* The transaction is rolled back with its connection.
Abort(x) ==
  /\ task[x].at = "admitted"
  /\ lock' = None
  /\ task' = [task EXCEPT ![x] = Idle]
  /\ UNCHANGED <<now, config, rows>>

Next ==
  \/ Tick
  \/ \E x \in Tasks :
       \/ Store(x) \/ Abort(x)
       \/ \E e \in Effects, c \in Configs : Admit(x, e, c) \/ Deny(x, e, c) \/ Replay(x, e, c)

Spec == Init /\ [][Next]_vars

-----------------------------------------------------------------------------
Ordinary(c) == {r \in Used(c) : r.effect \notin Compensations}
Compensating(c) == {r \in Used(c) : r.effect \in Compensations}

\* No window of the scope's length ever holds more reservations than the capacity
\* and no more ordinary ones than the capacity without the reserve, whichever
\* processes reserve, however long a transaction takes and whatever is repeated.
WindowBound ==
  config # None =>
    /\ Cardinality(Used(config)) <= config.capacity
    /\ Cardinality(Ordinary(config)) <= config.capacity - config.reserve

\* Ordinary traffic never makes a compensation fail: one that is refused finds as
\* many compensations in the window as the reserve holds.
OnlyCompensationsCrowdOut ==
  [][\A x \in Tasks :
       task'[x].at = "denied" /\ task'[x] # task[x] /\ task'[x].effect \in Compensations =>
         Cardinality(Compensating(config')) >= config'.reserve]_vars
=============================================================================
