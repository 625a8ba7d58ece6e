------------------------------ MODULE EntryGate ------------------------------
(***************************************************************************)
(* The nested guards of an entry: account, trade, operator, canary.  Each  *)
(* takes a connection of its process's pool, then an advisory lock through *)
(* it, and keeps both for what is done inside.  The pool is bounded and    *)
(* its waiters queue without a timeout; a wait for a lock has one, and the *)
(* operator and canary guards bound everything done inside them.           *)
(***************************************************************************)
EXTENDS Naturals, Sequences, FiniteSets, Functions, SequencesExt

CONSTANTS
  Procs,   \* processes, each with a pool
  Tasks,   \* what runs in them: entries, exits, recovery, operator commands
  Home,    \* process of a task
  Path,    \* the locks a task takes, outermost first: <<guard, what it guards>>
  PoolMax  \* pool_max_size

GateConstants ==
  /\ IsFiniteSet(Tasks) /\ Home \in [Tasks -> Procs] /\ PoolMax \in Nat \ {0}
  /\ \A t \in Tasks : Len(Path[t]) \in Nat
  /\ \A t \in Tasks : \A i \in 1..Len(Path[t]) : Path[t][i][1] \in {"account", "trade", "operator", "canary"}

VARIABLES
  depth, \* guards a task is inside of
  at,    \* what a task does
  queue  \* waiters of a pool, first come first

vars == <<depth, at, queue>>

-----------------------------------------------------------------------------
\* A lock holder's connection, and that of a task that waits for a lock.
Connections(t) == depth[t] + (IF at[t] = "lock" THEN 1 ELSE 0)
Used(p) == SumFunctionOnSet([t \in Tasks |-> Connections(t)], {t \in Tasks : Home[t] = p})

Locked(l) == \E t \in Tasks : \E i \in 1..depth[t] : Path[t][i] = l

\* Faulty variant: the operator guard hands over without a bound of its own.
BoundedByCanary(t) == \E i \in 1..depth[t] : Path[t][i][1] = "canary"

\* asyncio.timeout(max_hold_s) around the yield of the two dispatch guards.
Bounded(t) == \E i \in 1..depth[t] : Path[t][i][1] \in {"operator", "canary"}

\* No pool hands out more than it has; whoever waits in a queue waits for a connection.
TypeOK ==
  /\ depth \in [Tasks -> Nat] /\ \A t \in Tasks : depth[t] <= Len(Path[t])
  /\ at \in [Tasks -> {"idle", "pool", "lock", "body", "leaving"}]
  /\ \A t \in Tasks : at[t] = "idle" => depth[t] = 0
  /\ \A p \in Procs : Used(p) <= PoolMax /\ queue[p] \in Seq({t \in Tasks : Home[t] = p /\ at[t] = "pool"})

Init ==
  /\ depth = [t \in Tasks |-> 0] /\ at = [t \in Tasks |-> "idle"]
  /\ queue = [p \in Procs |-> <<>>]

To(t, place) == at' = [at EXCEPT ![t] = place]

\* pool.acquire() of the next guard.
Ask(t) ==
  /\ at[t] \in {"idle", "body"} /\ depth[t] < Len(Path[t])
  /\ To(t, "pool") /\ queue' = [queue EXCEPT ![Home[t]] = Append(@, t)]
  /\ UNCHANGED depth

Connect(p) ==
  /\ queue[p] # <<>> /\ Used(p) < PoolMax
  /\ To(Head(queue[p]), "lock") /\ queue' = [queue EXCEPT ![p] = Tail(@)]
  /\ UNCHANGED depth

\* pg_advisory_lock, or the pg_try_advisory_lock that succeeds.
Lock(t) ==
  /\ at[t] = "lock" /\ ~Locked(Path[t][depth[t] + 1])
  /\ depth' = [depth EXCEPT ![t] = @ + 1] /\ To(t, "body")
  /\ UNCHANGED queue

Unwinding(t) == IF depth[t] = 0 THEN "idle" ELSE "leaving"

\* command_timeout of the statement, or the five seconds of the operator guard.
GiveUp(t) == at[t] = "lock" /\ To(t, Unwinding(t)) /\ UNCHANGED <<depth, queue>>

\* The body is done, refused or raises.
Leave(t) == at[t] = "body" /\ To(t, "leaving") /\ UNCHANGED <<depth, queue>>

\* The hold of a dispatch guard runs out, wherever the task is inside it.
Expire(t) ==
  /\ Bounded(t) /\ at[t] \in {"pool", "lock", "body"}
  /\ To(t, "leaving")
  /\ queue' = [queue EXCEPT ![Home[t]] = RemoveFirst(@, t)]
  /\ UNCHANGED depth

\* The innermost guard's finally: unlock, and the connection goes back.
Release(t) ==
  /\ at[t] = "leaving"
  /\ depth' = [depth EXCEPT ![t] = @ - 1]
  /\ To(t, IF depth[t] = 1 THEN "idle" ELSE "leaving")
  /\ UNCHANGED queue

\* A process dies: its connections close and PostgreSQL frees their locks.
Crash(p) ==
  LET dead == {t \in Tasks : Home[t] = p}
  IN /\ \E t \in dead : at[t] # "idle"
     /\ depth' = [t \in Tasks |-> IF t \in dead THEN 0 ELSE depth[t]]
     /\ at' = [t \in Tasks |-> IF t \in dead THEN "idle" ELSE at[t]]
     /\ queue' = [queue EXCEPT ![p] = <<>>]

Next ==
  \/ \E t \in Tasks : Ask(t) \/ Lock(t) \/ GiveUp(t) \/ Leave(t) \/ Expire(t) \/ Release(t)
  \/ \E p \in Procs : Connect(p) \/ Crash(p)

Spec == Init /\ [][Next]_vars

-----------------------------------------------------------------------------
\* Whoever asks for a guard gets through or out again, a KILL among entries too,
\* whichever processes die in between.
EveryoneLeaves == \A t \in Tasks : at[t] # "idle" ~> at[t] = "idle"
=============================================================================
