----------------------------- MODULE SchemaGuard -----------------------------
(***************************************************************************)
(* Who may change the schema and who may write offline, in one database:   *)
(* Database.migrate of every starting service (database.py) and the        *)
(* OfflineDurableWriter (offline_writer.py).  migrate is one transaction   *)
(* under a transaction lock; the writer holds the same lock, and the lease *)
(* of its producer, for the life of one connection.  Live producers take   *)
(* the lease only.                                                         *)
(***************************************************************************)
EXTENDS Naturals, FiniteSets

CONSTANTS
  Migrations, \* script numbers, in the order of the manifests
  Services,   \* processes that call migrate
  Manifest,   \* the manifest of the profile and release of a service
  Histories,  \* what the database may hold when the processes start
  Writers,    \* offline writers
  Expected,   \* expected_schema_versions of a writer
  Producers, ProducerOf, \* service_name of a writer
  PoolMax,    \* pool_max_size of a writer's database
  None        \* no holder

SchemaConstants ==
  /\ Migrations \subseteq Nat
  /\ Manifest \in [Services -> SUBSET Migrations]
  /\ Histories \subseteq SUBSET Migrations
  /\ Expected \in [Writers -> SUBSET Migrations]
  /\ ProducerOf \in [Writers -> Producers]
  /\ PoolMax \in Nat \ {0}
  /\ None \notin Services \cup Writers \cup Producers
  /\ Writers \cap (Services \cup Producers) = {}

VARIABLES
  applied, \* schema_migrations
  guard,   \* holder of the migration lock, or None
  lease,   \* holder of each producer's lease, or None
  service, \* where each service is in migrate
  work,    \* what a migrating transaction has done so far
  writer,  \* where each writer is, and whether its connection lives
  appends  \* history: schema and liveness under which offline appends committed

vars == <<applied, guard, lease, service, work, writer, appends>>

-----------------------------------------------------------------------------
Stopped == [at |-> "stopped", conn |-> FALSE]
WriterStates == [at : {"stopped", "guarded", "checked", "started"}, conn : BOOLEAN]

\* The guard is held by the transaction that migrates or by a writer's connection.
TypeOK ==
  /\ applied \in SUBSET Migrations
  /\ guard \in Services \cup Writers \cup {None}
  /\ lease \in [Producers -> Writers \cup Producers \cup {None}]
  /\ service \in [Services -> {"new", "waiting", "applying", "done", "refused"}]
  /\ work \in SUBSET Migrations
  /\ writer \in [Writers -> WriterStates]
  /\ \A p \in Services : service[p] = "applying" <=> guard = p
  /\ \A w \in Writers : guard = w => writer[w].conn
  /\ \A w \in Writers, p \in Producers : lease[p] = w => guard = w /\ writer[w].at = "started"
  /\ appends \subseteq [by : Writers, schema : SUBSET Migrations, live : BOOLEAN]

Init ==
  /\ applied \in Histories /\ guard = None
  /\ lease = [p \in Producers |-> None]
  /\ service = [p \in Services |-> "new"] /\ work = {}
  /\ writer = [w \in Writers |-> Stopped]
  /\ appends = {}

-----------------------------------------------------------------------------
(* migrate *)

Ask(p) ==
  /\ service[p] = "new"
  /\ service' = [service EXCEPT ![p] = "waiting"]
  /\ UNCHANGED <<applied, guard, lease, work, writer, appends>>

\* The history is a prefix of the manifest.
Compatible(p) ==
  /\ applied \subseteq Manifest[p]
  /\ \A n \in applied, m \in Manifest[p] : m < n => m \in applied

TakeGuard(p) ==
  /\ service[p] = "waiting" /\ guard = None /\ Compatible(p)
  /\ guard' = p /\ work' = applied
  /\ service' = [service EXCEPT ![p] = "applying"]
  /\ UNCHANGED <<applied, lease, writer, appends>>

Refuse(p) ==
  /\ service[p] = "waiting" /\ guard = None /\ ~Compatible(p)
  /\ service' = [service EXCEPT ![p] = "refused"]
  /\ UNCHANGED <<applied, guard, lease, work, writer, appends>>

\* Faulty variant: every script is a transaction of its own.
ApplyAndCommit(p, n) ==
  /\ service[p] = "applying" /\ n \in Manifest[p] \ work
  /\ \A m \in Manifest[p] \ work : n <= m
  /\ work' = work \cup {n} /\ applied' = applied \cup {n}
  /\ UNCHANGED <<guard, lease, service, writer, appends>>

Apply(p, n) ==
  /\ service[p] = "applying" /\ n \in Manifest[p] \ work
  /\ \A m \in Manifest[p] \ work : n <= m
  /\ work' = work \cup {n}
  /\ UNCHANGED <<applied, guard, lease, service, writer, appends>>

Finish(p) ==
  /\ service[p] = "applying" /\ Manifest[p] \subseteq work
  /\ applied' = work /\ guard' = None /\ work' = {}
  /\ service' = [service EXCEPT ![p] = "done"]
  /\ UNCHANGED <<lease, writer, appends>>

\* A timeout of the wait, a failing script, a crash; later the service starts again.
Restart(p) ==
  /\ service[p] # "new"
  /\ service' = [service EXCEPT ![p] = "new"]
  /\ guard' = IF guard = p THEN None ELSE guard
  /\ work' = IF guard = p THEN {} ELSE work
  /\ UNCHANGED <<applied, lease, writer, appends>>

-----------------------------------------------------------------------------
(* The offline writer *)

\* Faulty variant: the answer of the try-lock is not looked at.
TryGuardBlind(w) ==
  /\ writer[w].at = "stopped"
  /\ guard' = w
  /\ writer' = [writer EXCEPT ![w] = [at |-> "guarded", conn |-> TRUE]]
  /\ UNCHANGED <<applied, lease, service, work, appends>>

\* pg_try_advisory_lock also fails behind those who wait for the lock.
TryGuard(w) ==
  /\ writer[w].at = "stopped"
  /\ guard = None /\ \A p \in Services : service[p] # "waiting"
  /\ guard' = w
  /\ writer' = [writer EXCEPT ![w] = [at |-> "guarded", conn |-> TRUE]]
  /\ UNCHANGED <<applied, lease, service, work, appends>>

WithoutLease(w) == [p \in Producers |-> IF lease[p] = w THEN None ELSE lease[p]]
WithoutGuard(w) == IF guard = w THEN None ELSE guard

\* _release: both unlocks, the connection and the pool, whatever fails.
Release(w) ==
  /\ lease' = WithoutLease(w) /\ guard' = WithoutGuard(w)
  /\ writer' = [writer EXCEPT ![w] = Stopped]
  /\ UNCHANGED <<applied, service, work, appends>>

\* The versions are read on a second connection of the pool.
ReadVersions(w) ==
  /\ writer[w].at = "guarded" /\ PoolMax > 1 /\ applied = Expected[w]
  /\ writer' = [writer EXCEPT ![w].at = "checked"]
  /\ UNCHANGED <<applied, guard, lease, service, work, appends>>

TryLease(w) ==
  /\ writer[w].at = "checked" /\ writer[w].conn /\ lease[ProducerOf[w]] = None
  /\ lease' = [lease EXCEPT ![ProducerOf[w]] = w]
  /\ writer' = [writer EXCEPT ![w].at = "started"]
  /\ UNCHANGED <<applied, guard, service, work, appends>>

\* start fails: another schema, a held lease, a lost connection.
FailStart(w) ==
  /\ \/ writer[w].at = "guarded" /\ PoolMax > 1 /\ applied # Expected[w]
     \/ writer[w].at = "checked" /\ (writer[w].conn => lease[ProducerOf[w]] # None)
  /\ Release(w)

Usable(w) == writer[w].conn

Append(w) ==
  /\ writer[w].at = "started" /\ Usable(w)
  /\ appends' = appends \cup {[by |-> w, schema |-> applied, live |-> lease[ProducerOf[w]] = ProducerOf[w]]}
  /\ UNCHANGED <<applied, guard, lease, service, work, writer>>

Close(w) == writer[w].at = "started" /\ Release(w)

\* The server ends the session and with it its locks; the writer learns it later.
LoseConnection(w) ==
  /\ writer[w].conn
  /\ lease' = WithoutLease(w) /\ guard' = WithoutGuard(w)
  /\ writer' = [writer EXCEPT ![w].conn = FALSE]
  /\ UNCHANGED <<applied, service, work, appends>>

-----------------------------------------------------------------------------
(* The live producer of a service: it takes the lease with its connection. *)

GoLive(p) ==
  /\ lease[p] = None
  /\ lease' = [lease EXCEPT ![p] = p]
  /\ UNCHANGED <<applied, guard, service, work, writer, appends>>

GoDown(p) ==
  /\ lease[p] = p
  /\ lease' = [lease EXCEPT ![p] = None]
  /\ UNCHANGED <<applied, guard, service, work, writer, appends>>

Next ==
  \/ \E p \in Services : Ask(p) \/ TakeGuard(p) \/ Refuse(p) \/ Finish(p) \/ Restart(p)
                         \/ \E n \in Migrations : Apply(p, n)
  \/ \E w \in Writers : \/ TryGuard(w) \/ ReadVersions(w) \/ TryLease(w) \/ FailStart(w)
                        \/ Append(w) \/ Close(w) \/ LoseConnection(w)
  \/ \E p \in Producers : GoLive(p) \/ GoDown(p)

Spec == Init /\ [][Next]_vars

-----------------------------------------------------------------------------
\* Nobody ever sees a history between two manifests, nor one that mixes profiles,
\* whichever releases and profiles start at once and wherever they die.
HistoryIsAManifest == applied \in Histories \cup {Manifest[p] : p \in Services}

\* An offline append commits only on the schema the writer was reviewed for and
\* never beside a live producer of its service, also after its connection broke.
AppendsAreExclusive == \A a \in appends : a.schema = Expected[a.by] /\ ~a.live

\* A writer that is not running holds no lock, however its start or close went.
NothingStaysLocked ==
  \A w \in Writers : writer[w].at = "stopped" => guard # w /\ \A p \in Producers : lease[p] # w

\* schema_migrations holds what some manifest prescribes, appends of an offline
\* writer happen under its lease alone, and a failed start keeps no lock.
SchemaIsGuarded == HistoryIsAManifest /\ AppendsAreExclusive /\ NothingStaysLocked
=============================================================================
