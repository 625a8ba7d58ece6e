--------------------------- MODULE OperatorControl ---------------------------
(***************************************************************************)
(* The account-wide entry latch of operator_control.py: ARM, DISARM and    *)
(* KILL commands with a fencing version, the admission that binds a risk   *)
(* decision to the version it was evaluated under, and the guard around    *)
(* the final dispatch of an entry order.                                   *)
(*                                                                         *)
(* Commands and admissions run in transactions that take the advisory lock *)
(* of the account, so each is one step that needs the lock to be free.  A  *)
(* dispatcher takes the same lock for its database session, commits a      *)
(* claim, and keeps the lock while the caller talks to the venue with no   *)
(* transaction open.  The lock belongs to the connection: PostgreSQL       *)
(* frees it when the connection is lost, whatever the caller is doing.     *)
(***************************************************************************)
EXTENDS Naturals, Sequences, FiniteSets

CONSTANTS
  Decisions,    \* approved risk decisions, each with one entry effect
  Sessions,     \* bounded canary sessions of the account
  Operators,    \* consoles logged in as kairos_operator
  Dispatchers,  \* executor tasks
  CommandIds,   \* identities of operator commands
  Deadline,     \* entry_deadline_at of a session
  Expiry,       \* the earlier of the intent's and the venue quote's expiry
  Disconnects,  \* whether a dispatcher's connection may be lost
  MaxVersion,   \* bound on the commands applied
  MaxTime,      \* bound on the database clock
  NoOne         \* no session, no command, no dispatcher, no decision

ASSUME OperatorConstants ==
  /\ Deadline \in [Sessions -> Nat]
  /\ Expiry \in [Decisions -> Nat]
  /\ Disconnects \in BOOLEAN
  /\ MaxVersion \in Nat /\ MaxTime \in Nat
  /\ NoOne \notin Sessions \cup Dispatchers \cup Decisions

VARIABLES
  now,        \* clock_timestamp() of the database
  latch,      \* the row of operator_controls; version 0 when there is none
  audit,      \* operator_control_commands, in version order
  active,     \* sessions whose state is ARMED or RUNNING
  effect,     \* status of the entry effect of a decision in the journal
  console,    \* the command an operator holds or waits with
  seen,       \* the version a risk evaluation started from
  admission,  \* operator_control_admissions
  claims,     \* decisions in operator_control_dispatch_claims
  guard,      \* where each dispatcher is in _final_dispatch_guard
  lock,       \* the dispatcher whose connection holds the advisory lock
  sent        \* entry orders sent to the venue for a decision

vars == <<now, latch, audit, active, effect, console, seen, admission, claims,
          guard, lock, sent>>

-----------------------------------------------------------------------------
(***************************************************************************)
(* Records.                                                                *)
(***************************************************************************)
Times == 1..MaxTime
Versions == 0..MaxVersion

Commands ==
  [id : CommandIds, action : {"ARM"}, expected : Versions,
   session : Sessions, expires : Times]
  \cup
  [id : CommandIds, action : {"DISARM", "KILL"}, expected : Versions,
   session : {NoOne}, expires : {0}]

StateAfter == [ARM |-> "ARMED", DISARM |-> "DISARMED", KILL |-> "KILLED"]

\* The latch row that a command writes.
LatchOf(c) == [version |-> c.expected + 1, state |-> StateAfter[c.action],
               session |-> c.session, expires |-> c.expires]

NoLatch == [version |-> 0, state |-> "MISSING", session |-> NoOne, expires |-> 0]
Latches == [version : Versions,
            state : {"MISSING", "ARMED", "DISARMED", "KILLED"},
            session : Sessions \cup {NoOne}, expires : 0..MaxTime]

\* ready: written against what the operator saw; waiting: in the queue of the
\* advisory lock.
NoCommand == [pc |-> "none", command |-> NoOne]
Consoles == [pc : {"ready", "waiting"}, command : Commands] \cup {NoCommand}

NoAdmission == [version |-> 0, session |-> NoOne, expires |-> 0]
Admissions == [version : Versions, session : Sessions \cup {NoOne},
               expires : 0..MaxTime]

\* locked: the try-lock succeeded; claimed: the claim is committed; inside: the
\* caller has control; done: the caller has sent its order.
Outside == [pc |-> "outside", decision |-> NoOne, link |-> "down"]
Guards == [pc : {"locked", "claimed", "inside", "done"}, decision : Decisions,
           link : {"up", "down"}] \cup {Outside}

\* Latch, audit rows, bindings, claims and dispatchers have their types.
TypeOK ==
  /\ now \in 0..MaxTime
  /\ latch \in Latches
  /\ audit \in Seq(Commands)
  /\ active \in SUBSET Sessions
  /\ effect \in [Decisions -> {"NONE", "PREPARED", "CONFIRMED", "RECONCILED", "FAILED"}]
  /\ console \in [Operators -> Consoles]
  /\ seen \in [Decisions -> Versions]
  /\ admission \in [Decisions -> Admissions]
  /\ claims \in SUBSET Decisions
  /\ guard \in [Dispatchers -> Guards]
  /\ lock \in Dispatchers \cup {NoOne}
  /\ sent \in [Decisions -> Nat]

Init ==
  /\ now = 0
  /\ latch = NoLatch
  /\ audit = <<>>
  /\ active = Sessions
  /\ effect = [d \in Decisions |-> "NONE"]
  /\ console = [o \in Operators |-> NoCommand]
  /\ seen = [d \in Decisions |-> 0]
  /\ admission = [d \in Decisions |-> NoAdmission]
  /\ claims = {}
  /\ guard = [x \in Dispatchers |-> Outside]
  /\ lock = NoOne
  /\ sent = [d \in Decisions |-> 0]

-----------------------------------------------------------------------------
(***************************************************************************)
(* What every operation reads.                                             *)
(***************************************************************************)
\* A lease needs the exact session, still open, and ends inside its window.
SessionLease(s, expires) ==
  /\ s \in active
  /\ now < expires /\ expires <= Deadline[s]

\* _snapshot: the row agrees with the audited command of its version.
Audited ==
  /\ latch.version \in DOMAIN audit
  /\ latch = LatchOf(audit[latch.version])

\* _snapshot(active=True): and that command armed a lease that still runs.
Live ==
  /\ Audited
  /\ latch.state = "ARMED"
  /\ SessionLease(latch.session, latch.expires)

\* Faulty variant: the admission lives as long as the longer of the two.
BindingLatest(d) ==
  [version |-> latch.version, session |-> latch.session,
   expires |-> IF latch.expires >= Expiry[d] THEN latch.expires ELSE Expiry[d]]

\* The binding that bind_decision computes from the present latch.
Binding(d) ==
  [version |-> latch.version, session |-> latch.session,
   expires |-> IF latch.expires <= Expiry[d] THEN latch.expires ELSE Expiry[d]]

\* A try-lock fails while the lock is held and while a statement waits for it.
LockFree == lock = NoOne /\ \A o \in Operators : console[o].pc # "waiting"

-----------------------------------------------------------------------------
(***************************************************************************)
(* The operator.                                                           *)
(***************************************************************************)
\* A console writes a command against the version it sees; the command may
\* reach the database much later.
Compose(o, c) ==
  /\ console[o] = NoCommand
  /\ c.expected = latch.version
  /\ latch.version < MaxVersion
  /\ console' = [console EXCEPT ![o] = [pc |-> "ready", command |-> c]]
  /\ UNCHANGED <<now, latch, audit, active, effect, seen, admission, claims,
                 guard, lock, sent>>

\* apply_command begins and queues for the advisory lock of the account.
SubmitCommand(o) ==
  /\ console[o].pc = "ready"
  /\ console' = [console EXCEPT ![o].pc = "waiting"]
  /\ UNCHANGED <<now, latch, audit, active, effect, seen, admission, claims,
                 guard, lock, sent>>

\* A new identity, the version it was written against, and for ARM a lease
\* that can be granted now.
Acceptable(c) ==
  /\ \A v \in DOMAIN audit : audit[v].id # c.id
  /\ c.expected = latch.version
  /\ latch # NoLatch => Audited
  /\ c.action = "ARM" => SessionLease(c.session, c.expires)

\* Faulty variant: the command does not wait for the account's lock.
ApplyCommandUnlocked(o) ==
  LET c == console[o].command IN
  /\ console[o].pc = "waiting"
  /\ Acceptable(c)
  /\ audit' = Append(audit, c)
  /\ latch' = [LatchOf(c) EXCEPT !.version = latch.version + 1]
  /\ \/ console' = [console EXCEPT ![o] = NoCommand]
     \/ console' = [console EXCEPT ![o].pc = "ready"]
  /\ UNCHANGED <<now, active, effect, seen, admission, claims, guard, lock, sent>>

\* The lock is granted and the command commits.  When its answer is lost the
\* operator submits the same command again.
ApplyCommand(o) ==
  LET c == console[o].command IN
  /\ console[o].pc = "waiting" /\ lock = NoOne
  /\ Acceptable(c)
  /\ audit' = Append(audit, c)
  /\ latch' = [LatchOf(c) EXCEPT !.version = latch.version + 1]
  /\ \/ console' = [console EXCEPT ![o] = NoCommand]
     \/ console' = [console EXCEPT ![o].pc = "ready"]
  /\ UNCHANGED <<now, active, effect, seen, admission, claims, guard, lock, sent>>

\* A duplicate only observes the latch; a reused identity, a stale version and
\* a lease that cannot be granted are refused.  None changes a row.
RefuseCommand(o) ==
  /\ console[o].pc = "waiting" /\ lock = NoOne
  /\ ~Acceptable(console[o].command)
  /\ console' = [console EXCEPT ![o] = NoCommand]
  /\ UNCHANGED <<now, latch, audit, active, effect, seen, admission, claims,
                 guard, lock, sent>>

-----------------------------------------------------------------------------
(***************************************************************************)
(* Sessions, the journal and the clock: what other components change.      *)
(***************************************************************************)
\* CanarySessionRepository.stop, or refresh after the deadline; a session never
\* opens again.
EndSession(s) ==
  /\ s \in active
  /\ active' = active \ {s}
  /\ UNCHANGED <<now, latch, audit, effect, console, seen, admission, claims,
                 guard, lock, sent>>

\* The executor journals the entry effect before any dispatch.
PrepareEffect(d) ==
  /\ effect[d] = "NONE"
  /\ effect' = [effect EXCEPT ![d] = "PREPARED"]
  /\ UNCHANGED <<now, latch, audit, active, console, seen, admission, claims,
                 guard, lock, sent>>

\* confirm, fail and reconcile; recovery may close an effect at any time.
AllowedEffect == [PREPARED |-> {"CONFIRMED", "RECONCILED", "FAILED"},
                  CONFIRMED |-> {"RECONCILED"}, FAILED |-> {"RECONCILED"}]

SettleEffect(d, status) ==
  /\ effect[d] \in DOMAIN AllowedEffect
  /\ status \in AllowedEffect[effect[d]]
  /\ effect' = [effect EXCEPT ![d] = status]
  /\ UNCHANGED <<now, latch, audit, active, console, seen, admission, claims,
                 guard, lock, sent>>

Tick ==
  /\ now < MaxTime
  /\ now' = now + 1
  /\ UNCHANGED <<latch, audit, active, effect, console, seen, admission, claims,
                 guard, lock, sent>>

-----------------------------------------------------------------------------
(***************************************************************************)
(* Risk.                                                                   *)
(***************************************************************************)
\* snapshot: a read without the lock, repeated when the evaluation is repeated.
Evaluate(d) ==
  /\ Live
  /\ seen' = [seen EXCEPT ![d] = latch.version]
  /\ UNCHANGED <<now, latch, audit, active, effect, console, admission, claims,
                 guard, lock, sent>>

\* The fence has not moved since the evaluation, and a decision is bound once:
\* the same binding is returned again, another one is refused.
BindDecision(d) ==
  /\ lock = NoOne /\ seen[d] # 0
  /\ Live /\ latch.version = seen[d]
  /\ admission[d] = NoAdmission
  /\ admission' = [admission EXCEPT ![d] = Binding(d)]
  /\ UNCHANGED <<now, latch, audit, active, effect, console, seen, claims, guard,
                 lock, sent>>

-----------------------------------------------------------------------------
(***************************************************************************)
(* The final dispatch guard.                                               *)
(***************************************************************************)
Move(x, pc) == [guard EXCEPT ![x].pc = pc]

\* The lock a dispatcher's connection holds, freed with it.
Released(x) == IF lock = x THEN NoOne ELSE lock

TryLock(x, d) ==
  /\ guard[x] = Outside /\ LockFree
  /\ lock' = x
  /\ guard' = [guard EXCEPT ![x] =
                [pc |-> "locked", decision |-> d, link |-> "up"]]
  /\ UNCHANGED <<now, latch, audit, active, effect, console, seen, admission,
                 claims, sent>>

\* _check: the admission was made under the present fence and has not expired.
CheckEntry(d) ==
  /\ Live
  /\ admission[d] # NoAdmission
  /\ admission[d].version = latch.version
  /\ admission[d].session = latch.session
  /\ now < admission[d].expires

\* Faulty variant: an earlier claim is not looked up.
MayClaimAgain(d) == CheckEntry(d) /\ effect[d] = "PREPARED"

MayClaim(d) ==
  /\ CheckEntry(d)
  /\ effect[d] = "PREPARED"
  /\ d \notin claims

\* The transaction that inserts the claim commits.
ClaimDispatch(x) ==
  LET d == guard[x].decision IN
  /\ guard[x].pc = "locked" /\ guard[x].link = "up"
  /\ MayClaim(d)
  /\ claims' = claims \cup {d}
  /\ guard' = Move(x, "claimed")
  /\ UNCHANGED <<now, latch, audit, active, effect, console, seen, admission,
                 lock, sent>>

\* The database clock is read again after the commit, then the caller runs.
EnterGuard(x) ==
  /\ guard[x].pc = "claimed" /\ guard[x].link = "up"
  /\ now < admission[guard[x].decision].expires
  /\ guard' = Move(x, "inside")
  /\ UNCHANGED <<now, latch, audit, active, effect, console, seen, admission,
                 claims, lock, sent>>

\* The caller sends its order; it does not look at the connection of the guard.
SendEntry(x) ==
  /\ guard[x].pc = "inside"
  /\ sent' = [sent EXCEPT ![guard[x].decision] = @ + 1]
  /\ guard' = Move(x, "done")
  /\ UNCHANGED <<now, latch, audit, active, effect, console, seen, admission,
                 claims, lock>>

\* Faulty variant: the lock is not released on the way out.
LeaveGuardLocked(x) ==
  /\ guard[x].pc # "outside"
  /\ guard' = [guard EXCEPT ![x] = Outside]
  /\ UNCHANGED <<now, latch, audit, active, effect, console, seen, admission,
                 claims, lock, sent>>

\* Every way out of the guard: a refusal, the end of the caller's block, its
\* error, the hold timeout, or the end of the process.  The lock is released,
\* or its connection is terminated.
LeaveGuard(x) ==
  /\ guard[x].pc # "outside"
  /\ guard' = [guard EXCEPT ![x] = Outside]
  /\ lock' = Released(x)
  /\ UNCHANGED <<now, latch, audit, active, effect, console, seen, admission,
                 claims, sent>>

\* The database ends the session: its advisory lock is gone at once.
LoseConnection(x) ==
  /\ Disconnects /\ guard[x].link = "up"
  /\ guard' = [guard EXCEPT ![x].link = "down"]
  /\ lock' = Released(x)
  /\ UNCHANGED <<now, latch, audit, active, effect, console, seen, admission,
                 claims, sent>>

-----------------------------------------------------------------------------
OperatorStep(o) == SubmitCommand(o) \/ ApplyCommand(o) \/ RefuseCommand(o)

Console(o) == OperatorStep(o) \/ \E c \in Commands : Compose(o, c)

Risk(d) == Evaluate(d) \/ BindDecision(d)

Journal(d) == PrepareEffect(d) \/ \E status \in {"CONFIRMED", "RECONCILED", "FAILED"} :
                                     SettleEffect(d, status)

Guarded(x) == ClaimDispatch(x) \/ EnterGuard(x) \/ SendEntry(x) \/ LeaveGuard(x)

Dispatcher(x) ==
  \/ \E d \in Decisions : TryLock(x, d)
  \/ Guarded(x)
  \/ LoseConnection(x)

Next ==
  \/ \E o \in Operators : Console(o)
  \/ \E d \in Decisions : Risk(d) \/ Journal(d)
  \/ \E x \in Dispatchers : Dispatcher(x)
  \/ \E s \in Sessions : EndSession(s)
  \/ Tick

Spec == Init /\ [][Next]_vars

\* A guard is left within its hold timeout, and the lock manager serves a
\* waiting command once the lock is free.
FairSpec ==
  /\ Spec
  /\ \A x \in Dispatchers : WF_vars(LeaveGuard(x))
  /\ \A o \in Operators : WF_vars(ApplyCommand(o) \/ RefuseCommand(o))

-----------------------------------------------------------------------------
(***************************************************************************)
(* Properties.                                                             *)
(***************************************************************************)
\* The order of a decision is sent at most once, through crashes, lost
\* connections, redelivered decisions and repeated ARMs (final_dispatch_guard:
\* a claim that survives is reconciled without resending).
OneSend == \A d \in Decisions : sent[d] <= 1

\* A decision that was dispatched traces to one ARM command, and its lease ends
\* no later than that command's and that session's (bind_decision, _session).
SendTracesToArm ==
  \A d \in Decisions : sent[d] > 0 =>
    /\ admission[d].version \in DOMAIN audit
    /\ LET arm == audit[admission[d].version] IN
       /\ arm.action = "ARM" /\ arm.session = admission[d].session
       /\ admission[d].expires <= arm.expires
       /\ arm.expires <= Deadline[arm.session]

\* KILL waits for a dispatch inside the guard, and no order leaves once it has
\* committed: whenever an order is sent the latch is armed and still at the
\* version the decision was admitted under (_final_dispatch_guard).
KillFencesSends ==
  [][\A d \in Decisions : sent'[d] # sent[d] =>
       latch.state = "ARMED" /\ latch.version = admission[d].version]_vars

\* A command that waits for the account's lock is answered: dispatchers that
\* keep trying cannot starve KILL (pg_advisory_xact_lock in apply_command).
CommandsAreAnswered ==
  \A o \in Operators : console[o].pc = "waiting" ~> console[o].pc # "waiting"

=============================================================================
