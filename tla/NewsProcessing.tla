---------------------------- MODULE NewsProcessing ----------------------------
(***************************************************************************)
(* Claims of news events before a paid model call: news_processing.py, in  *)
(* one scope.  claim_batch is one INSERT ... ON CONFLICT DO NOTHING; it    *)
(* handles the keys one by one, in order, and waits for a key that another *)
(* open transaction has inserted.  The answer to COMMIT may be lost: the   *)
(* caller then calls nobody and the claim stays.  Callers die at any time  *)
(* and come back, also with the attempt id they had.                       *)
(***************************************************************************)
EXTENDS Naturals, FiniteSets

CONSTANTS
  Keys,      \* event keys, in the order of ORDER BY event_key
  Batches,   \* the batches callers ask for
  Tasks,     \* callers
  Attempts, AttemptOf, \* the attempt id a caller uses
  None       \* no row

NewsConstants ==
  /\ Keys \subseteq Nat
  /\ Batches \subseteq SUBSET Keys
  /\ AttemptOf \in [Tasks -> Attempts]
  /\ None \notin Attempts

VARIABLES
  row,   \* committed rows of news_processing: owner and state
  task,  \* where each caller is, and with what
  calls  \* history: the provider calls made for each event

vars == <<row, task, calls>>

-----------------------------------------------------------------------------
NoRow == [owner |-> None, state |-> "NONE"]
Rows == {NoRow} \cup [owner : Attempts, state : {"CLAIMED", "COMPLETED"}]
Idle == [at |-> "idle", keys |-> {}, todo |-> {}, mine |-> {}]
TaskStates == [at : {"idle", "inserting", "claimed", "called"},
               keys : SUBSET Keys, todo : SUBSET Keys, mine : SUBSET Keys]

Free(k) == row[k] = NoRow
Holds(t, k) == task[t].at = "inserting" /\ k \in task[t].mine

\* An open transaction's rows are its own and are not there for the others.
TypeOK ==
  /\ row \in [Keys -> Rows]
  /\ task \in [Tasks -> TaskStates]
  /\ \A t \in Tasks : task[t].todo \subseteq task[t].keys /\ task[t].mine \subseteq task[t].keys \ task[t].todo
  /\ \A t \in Tasks, k \in Keys : Holds(t, k) => Free(k) /\ \A u \in Tasks \ {t} : ~Holds(u, k)
  /\ calls \in [Keys -> Nat]

Init ==
  /\ row = [k \in Keys |-> NoRow]
  /\ task = [t \in Tasks |-> Idle]
  /\ calls = [k \in Keys |-> 0]

-----------------------------------------------------------------------------
Begin(t, ks) ==
  /\ task[t].at = "idle" /\ ks # {}
  /\ task' = [task EXCEPT ![t] = [at |-> "inserting", keys |-> ks, todo |-> ks, mine |-> {}]]
  /\ UNCHANGED <<row, calls>>

\* ORDER BY event_key
Upcoming(t) == {k \in task[t].todo : \A j \in task[t].todo : k <= j}

\* The unique index makes an INSERT wait for the transaction that has the key.
Blocked(t, k) == \E u \in Tasks \ {t} : Holds(u, k)

Inserts(t, k) == Free(k) /\ \A u \in Tasks \ {t} : ~Holds(u, k)

\* One key of the INSERT: ON CONFLICT DO NOTHING.
Insert(t, k) ==
  /\ task[t].at = "inserting" /\ k \in Upcoming(t) /\ ~Blocked(t, k)
  /\ task' = [task EXCEPT ![t].todo = @ \ {k}, ![t].mine = IF Inserts(t, k) THEN @ \cup {k} ELSE @]
  /\ UNCHANGED <<row, calls>>

\* Faulty variant: the caller acts on the answer to the INSERT.
ConfirmedUncommitted(t, known) ==
  /\ row' = IF known THEN [k \in Keys |-> IF k \in task[t].mine THEN [owner |-> AttemptOf[t], state |-> "CLAIMED"]
                                                               ELSE row[k]]
                     ELSE row
  /\ task' = [task EXCEPT ![t].at = "claimed"]

\* COMMIT; when it is confirmed the caller knows what it claimed.
Confirmed(t, known) ==
  /\ row' = [k \in Keys |-> IF k \in task[t].mine THEN [owner |-> AttemptOf[t], state |-> "CLAIMED"] ELSE row[k]]
  /\ task' = [task EXCEPT ![t] = IF known THEN [@ EXCEPT !.at = "claimed"] ELSE Idle]

Commit(t, known) ==
  /\ task[t].at = "inserting" /\ task[t].todo = {}
  /\ Confirmed(t, known)
  /\ UNCHANGED calls

\* The caller pays for the events it claimed.
Call(t) ==
  /\ task[t].at = "claimed"
  /\ calls' = [k \in Keys |-> IF k \in task[t].mine THEN calls[k] + 1 ELSE calls[k]]
  /\ task' = [task EXCEPT ![t].at = "called"]
  /\ UNCHANGED row

Owned(t, ks) == \A k \in ks : row[k].owner = AttemptOf[t]

\* complete_batch: all rows of the batch or none; done ones stay as they are.
Complete(t, ks) ==
  /\ task[t].at = "called" /\ ks # {} /\ Owned(t, ks)
  /\ row' = [k \in Keys |-> IF k \in ks THEN [row[k] EXCEPT !.state = "COMPLETED"] ELSE row[k]]
  /\ UNCHANGED <<task, calls>>

\* The caller is done, is cancelled or dies; an open transaction is rolled back.
End(t) ==
  /\ task[t].at # "idle"
  /\ task' = [task EXCEPT ![t] = Idle]
  /\ UNCHANGED <<row, calls>>

Next ==
  \E t \in Tasks :
    \/ \E ks \in Batches : Begin(t, ks)
    \/ \E ks \in SUBSET task[t].keys : Complete(t, ks)
    \/ \E k \in Keys : Insert(t, k)
    \/ \E known \in BOOLEAN : Commit(t, known)
    \/ Call(t) \/ End(t)

Spec == Init /\ [][Next]_vars

-----------------------------------------------------------------------------
\* No event is paid for twice, whoever claims it, dies, loses the answer or comes
\* back under the same attempt id; and who paid holds the claim.
OneCallPerEvent == \A k \in Keys : calls[k] <= 1 /\ (calls[k] = 1 => ~Free(k))

\* No event falls between two callers: what a confirmed batch does not return has
\* been claimed for good by somebody else, not by a transaction that may roll back.
NoEventIsLost == \A t \in Tasks : task[t].at \in {"claimed", "called"} => \A k \in task[t].keys : ~Free(k)

\* Overlapping batches never wait for each other in a circle.
Waits(t, u) == task[t].at = "inserting" /\ \E k \in Upcoming(t) : t # u /\ Holds(u, k)

NoWaitCycle == \A S \in SUBSET Tasks : S # {} => \E t \in S : \A u \in S : ~Waits(t, u)

\* claim_batch shares the events among its callers: none is paid for twice, none
\* dropped, and no two batches wait for each other.
ClaimedOnce == OneCallPerEvent /\ NoEventIsLost /\ NoWaitCycle
=============================================================================
