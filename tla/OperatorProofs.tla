---------------------------- MODULE OperatorProofs ----------------------------
(***************************************************************************)
(* Proofs about the operator latch and the final dispatch guard, for every *)
(* set of decisions, sessions, consoles and dispatchers.                   *)
(***************************************************************************)
EXTENDS OperatorControl, TLAPS

USE DEF Times, Versions

\* A claim is committed and the guard has not been left.
Claiming(x) == guard[x].pc \in {"claimed", "inside", "done"}
\* The order of the claim has not been sent yet.
Unsent(x) == guard[x].pc \in {"claimed", "inside"}

\* A pending command leaves room for the version it would write.
ConsoleInv ==
  \A o \in Operators : console[o] # NoCommand => console[o].command.expected < MaxVersion

\* The lock is held by the one dispatcher whose connection took it.
LockInv == \A x \in Dispatchers : guard[x].link = "up" <=> lock = x

\* A claim is made once, so one dispatcher at most acts on it and sends once.
ClaimInv ==
  /\ \A x \in Dispatchers : Claiming(x) => guard[x].decision \in claims
  /\ \A x, y \in Dispatchers :
       Claiming(x) /\ Claiming(y) /\ guard[x].decision = guard[y].decision => x = y
  /\ \A x \in Dispatchers : Unsent(x) => sent[guard[x].decision] = 0
  /\ \A d \in Decisions : sent[d] <= 1
  /\ \A d \in Decisions : sent[d] > 0 => d \in claims

\* While connections last, a dispatcher that may send still has the lock and
\* the latch has not moved since its claim.
FenceInv ==
  ~Disconnects => \A x \in Dispatchers :
    /\ guard[x] # Outside => guard[x].link = "up"
    /\ Unsent(x) => /\ latch.state = "ARMED"
                    /\ latch.version = admission[guard[x].decision].version

\* An audited ARM never outlives its session; an admission names an audited ARM
\* and never outlives it; a claim has an admission.
LineageInv ==
  /\ \A v \in DOMAIN audit : audit[v].action = "ARM" =>
       audit[v].expires <= Deadline[audit[v].session]
  /\ \A d \in Decisions : admission[d] # NoAdmission =>
       /\ admission[d].version \in DOMAIN audit
       /\ audit[admission[d].version].action = "ARM"
       /\ audit[admission[d].version].session = admission[d].session
       /\ admission[d].expires <= audit[admission[d].version].expires
  /\ \A d \in claims : admission[d] # NoAdmission

OperatorInv == TypeOK /\ ConsoleInv /\ LockInv /\ ClaimInv /\ FenceInv /\ LineageInv

-----------------------------------------------------------------------------
(***************************************************************************)
(* Facts about the records.                                                *)
(***************************************************************************)
\* A command names the state it leads to and a session exactly when it arms.
LEMMA CommandFacts ==
  ASSUME NEW c \in Commands
  PROVE  /\ c.expected \in 0..MaxVersion /\ c.action \in {"ARM", "DISARM", "KILL"}
         /\ c.session \in Sessions \cup {NoOne} /\ c.expires \in 0..MaxTime
         /\ c.action = "ARM" => c.session \in Sessions
         /\ (LatchOf(c).state = "ARMED") <=> (c.action = "ARM")
         /\ LatchOf(c).state \in {"ARMED", "DISARMED", "KILLED"}
         /\ LatchOf(c).session = c.session /\ LatchOf(c).expires = c.expires
BY OperatorConstants DEF Commands, LatchOf, StateAfter

\* Appending a command keeps the others where they are.
LEMMA AppendFacts ==
  ASSUME NEW s \in Seq(Commands), NEW c \in Commands
  PROVE  /\ Append(s, c) \in Seq(Commands)
         /\ DOMAIN s \subseteq DOMAIN Append(s, c)
         /\ \A v \in DOMAIN s : Append(s, c)[v] = s[v]
         /\ \A v \in DOMAIN Append(s, c) : v \in DOMAIN s \/ Append(s, c)[v] = c
OBVIOUS

\* The shape of a console and of a guard.
LEMMA ConsoleFacts ==
  ASSUME TypeOK, NEW o \in Operators, console[o].pc \in {"ready", "waiting"}
  PROVE  console[o].command \in Commands /\ console[o] # NoCommand
BY DEF TypeOK, Consoles, NoCommand

LEMMA GuardFacts ==
  ASSUME TypeOK, NEW x \in Dispatchers
  PROVE  /\ guard[x].link \in {"up", "down"}
         /\ (guard[x].pc = "outside") <=> (guard[x] = Outside)
         /\ guard[x].pc # "outside" =>
              /\ guard[x].decision \in Decisions
              /\ guard[x].pc \in {"locked", "claimed", "inside", "done"}
BY DEF TypeOK, Guards, Outside

-----------------------------------------------------------------------------
(***************************************************************************)
(* Type correctness.                                                       *)
(***************************************************************************)
LEMMA TypeInit == Init => TypeOK /\ ConsoleInv
BY OperatorConstants
   DEF Init, TypeOK, ConsoleInv, NoLatch, Latches, NoCommand, Consoles, NoAdmission,
       Admissions, Outside, Guards

LEMMA TypeStep == TypeOK /\ ConsoleInv /\ [Next]_vars => TypeOK' /\ ConsoleInv'
<1> SUFFICES ASSUME TypeOK, ConsoleInv, [Next]_vars
             PROVE  TypeOK' /\ ConsoleInv'
  OBVIOUS
<1> USE OperatorConstants
<1>1. ASSUME NEW o \in Operators, NEW c \in Commands, Compose(o, c)
      PROVE  TypeOK' /\ ConsoleInv'
  <2>1. /\ console' = [console EXCEPT ![o] = [pc |-> "ready", command |-> c]]
        /\ c.expected < MaxVersion
        /\ UNCHANGED <<now, latch, audit, active, effect, seen, admission, claims,
                       guard, lock, sent>>
    BY <1>1 DEF Compose
  <2>2. [pc |-> "ready", command |-> c] \in Consoles
    BY DEF Consoles
  <2>3. TypeOK'
    BY <2>1, <2>2 DEF TypeOK
  <2>4. ConsoleInv'
    BY <2>1 DEF ConsoleInv, TypeOK
  <2> QED BY <2>3, <2>4
<1>2. ASSUME NEW o \in Operators, SubmitCommand(o)
      PROVE  TypeOK' /\ ConsoleInv'
  <2>1. console[o].command \in Commands /\ console[o] # NoCommand
    BY <1>2, ConsoleFacts DEF SubmitCommand
  <2>2. console'[o] = [pc |-> "waiting", command |-> console[o].command]
    BY <1>2, <2>1 DEF SubmitCommand, TypeOK, Consoles, NoCommand
  <2>3. console'[o] \in Consoles
    BY <2>1, <2>2 DEF Consoles
  <2>4. TypeOK'
    BY <1>2, <2>3 DEF SubmitCommand, TypeOK
  <2>5. ConsoleInv'
    BY <1>2, <2>1, <2>2 DEF SubmitCommand, ConsoleInv, TypeOK
  <2> QED BY <2>4, <2>5
<1>3. ASSUME NEW o \in Operators, ApplyCommand(o)
      PROVE  TypeOK' /\ ConsoleInv'
  <2> DEFINE c == console[o].command
  <2>1. c \in Commands /\ console[o] # NoCommand /\ console[o].pc = "waiting"
    BY <1>3, ConsoleFacts DEF ApplyCommand
  <2>2. c.expected < MaxVersion /\ c.expected = latch.version
    BY <1>3, <2>1 DEF ApplyCommand, Acceptable, ConsoleInv
  <2>3. audit' \in Seq(Commands)
    BY <1>3, <2>1, AppendFacts DEF ApplyCommand, TypeOK
  <2>4. latch' = [version |-> latch.version + 1, state |-> LatchOf(c).state,
                  session |-> c.session, expires |-> c.expires]
    BY <1>3 DEF ApplyCommand, LatchOf
  <2>5. latch' \in Latches
    BY <2>1, <2>2, <2>4, CommandFacts DEF Latches, TypeOK
  <2>6. console'[o] \in {NoCommand, [pc |-> "ready", command |-> c]}
    BY <1>3, <2>1 DEF ApplyCommand, TypeOK, Consoles, NoCommand
  <2>7. /\ console' \in [Operators -> Consoles]
        /\ \A p \in Operators : p # o => console'[p] = console[p]
    <3>1. console'[o] \in Consoles
      BY <2>1, <2>6 DEF Consoles
    <3> QED BY <1>3, <3>1 DEF ApplyCommand, TypeOK
  <2>8. TypeOK'
    BY <1>3, <2>3, <2>5, <2>7 DEF ApplyCommand, TypeOK
  <2>9. ConsoleInv'
    BY <2>2, <2>6, <2>7 DEF ConsoleInv
  <2> QED BY <2>8, <2>9
<1>4. ASSUME NEW o \in Operators, RefuseCommand(o)
      PROVE  TypeOK' /\ ConsoleInv'
  <2>1. TypeOK'
    BY <1>4 DEF RefuseCommand, TypeOK, Consoles
  <2>2. ConsoleInv'
    BY <1>4 DEF RefuseCommand, TypeOK, ConsoleInv
  <2> QED BY <2>1, <2>2
<1>5. ASSUME NEW d \in Decisions, Evaluate(d)
      PROVE  TypeOK' /\ ConsoleInv'
  <2>1. latch.version \in 0..MaxVersion
    BY DEF TypeOK, Latches
  <2> QED BY <1>5, <2>1 DEF Evaluate, TypeOK, ConsoleInv
<1>6. ASSUME NEW d \in Decisions, BindDecision(d)
      PROVE  TypeOK' /\ ConsoleInv'
  <2>1. Binding(d) \in Admissions
    BY DEF Binding, Admissions, TypeOK, Latches
  <2> QED BY <1>6, <2>1 DEF BindDecision, TypeOK, ConsoleInv
<1>7. ASSUME NEW d \in Decisions, Journal(d)
      PROVE  TypeOK' /\ ConsoleInv'
  BY <1>7 DEF Journal, PrepareEffect, SettleEffect, TypeOK, ConsoleInv
<1>8. ASSUME NEW x \in Dispatchers, NEW d \in Decisions, TryLock(x, d)
      PROVE  TypeOK' /\ ConsoleInv'
  <2>1. [pc |-> "locked", decision |-> d, link |-> "up"] \in Guards
    BY DEF Guards
  <2> QED BY <1>8, <2>1 DEF TryLock, TypeOK, ConsoleInv
<1>9. ASSUME NEW x \in Dispatchers, ClaimDispatch(x) \/ EnterGuard(x) \/ SendEntry(x)
      PROVE  TypeOK' /\ ConsoleInv'
  <2>1. guard[x].pc # "outside"
    BY <1>9 DEF ClaimDispatch, EnterGuard, SendEntry
  <2>2. guard[x].decision \in Decisions
    BY <2>1, GuardFacts
  <2>3. PICK pc \in {"claimed", "inside", "done"} : guard' = Move(x, pc)
    BY <1>9 DEF ClaimDispatch, EnterGuard, SendEntry
  <2>4. guard'[x] = [pc |-> pc, decision |-> guard[x].decision, link |-> guard[x].link]
    BY <2>1, <2>3 DEF Move, TypeOK, Guards, Outside
  <2>5. guard'[x] \in Guards
    BY <2>2, <2>4, GuardFacts DEF Guards
  <2>6. guard' \in [Dispatchers -> Guards]
    BY <2>3, <2>5 DEF Move, TypeOK
  <2> QED BY <1>9, <2>2, <2>6 DEF ClaimDispatch, EnterGuard, SendEntry, TypeOK, ConsoleInv
<1>10. ASSUME NEW x \in Dispatchers, LeaveGuard(x)
       PROVE  TypeOK' /\ ConsoleInv'
  <2>1. Outside \in Guards
    BY DEF Guards
  <2> QED BY <1>10, <2>1 DEF LeaveGuard, Released, TypeOK, ConsoleInv
<1>11. ASSUME NEW x \in Dispatchers, LoseConnection(x)
       PROVE  TypeOK' /\ ConsoleInv'
  <2>1. guard[x].link = "up" /\ guard[x] # Outside
    BY <1>11 DEF LoseConnection, Outside
  <2>2. guard'[x] = [pc |-> guard[x].pc, decision |-> guard[x].decision, link |-> "down"]
    BY <1>11, <2>1 DEF LoseConnection, TypeOK, Guards, Outside
  <2>3. guard'[x] \in Guards
    BY <2>1, <2>2, GuardFacts DEF Guards
  <2>4. guard' \in [Dispatchers -> Guards]
    BY <1>11, <2>3 DEF LoseConnection, TypeOK
  <2> QED BY <1>11, <2>4 DEF LoseConnection, Released, TypeOK, ConsoleInv
<1>12. ASSUME NEW s \in Sessions, EndSession(s)
       PROVE  TypeOK' /\ ConsoleInv'
  BY <1>12 DEF EndSession, TypeOK, ConsoleInv
<1>13. ASSUME Tick
       PROVE  TypeOK' /\ ConsoleInv'
  BY <1>13 DEF Tick, TypeOK, ConsoleInv
<1>14. CASE UNCHANGED vars
  BY <1>14 DEF vars, TypeOK, ConsoleInv
<1> QED
  BY <1>1, <1>2, <1>3, <1>4, <1>5, <1>6, <1>7, <1>8, <1>9, <1>10, <1>11, <1>12, <1>13,
     <1>14
     DEF Next, Console, OperatorStep, Risk, Dispatcher, Guarded

\* Every table, console, guard and counter keeps its type, whatever the sets of
\* decisions, sessions, consoles and dispatchers.
THEOREM OperatorTypeCorrect == Spec => []TypeOK
<1>1. Spec => [](TypeOK /\ ConsoleInv)
  BY TypeInit, TypeStep, PTL DEF Spec
<1> QED BY <1>1, PTL

-----------------------------------------------------------------------------
(***************************************************************************)
(* What a step of one dispatcher leaves of the others.                     *)
(***************************************************************************)
LEMMA MoveFacts ==
  ASSUME TypeOK, NEW x \in Dispatchers, guard[x].pc # "outside", NEW pc,
         guard' = Move(x, pc)
  PROVE  /\ guard'[x].pc = pc /\ guard'[x].decision = guard[x].decision
         /\ guard'[x].link = guard[x].link
         /\ \A y \in Dispatchers : y # x => guard'[y] = guard[y]
BY DEF Move, TypeOK, Guards, Outside

-----------------------------------------------------------------------------
(***************************************************************************)
(* The other parts of the invariant, one lemma each.                       *)
(***************************************************************************)
LEMMA LockStep == TypeOK /\ LockInv /\ [Next]_vars => LockInv'
<1> SUFFICES ASSUME TypeOK, LockInv, [Next]_vars
             PROVE  LockInv'
  OBVIOUS
<1> USE OperatorConstants
<1>1. CASE UNCHANGED <<guard, lock>>
  BY <1>1 DEF LockInv
<1>2. ASSUME NEW x \in Dispatchers, NEW d \in Decisions, TryLock(x, d)
      PROVE  LockInv'
  BY <1>2 DEF TryLock, LockFree, LockInv, TypeOK
<1>3. ASSUME NEW x \in Dispatchers, ClaimDispatch(x) \/ EnterGuard(x) \/ SendEntry(x)
      PROVE  LockInv'
  <2>1. guard[x].pc # "outside" /\ lock' = lock /\ \E pc : guard' = Move(x, pc)
    BY <1>3 DEF ClaimDispatch, EnterGuard, SendEntry
  <2> QED BY <2>1, MoveFacts DEF LockInv
<1>4. ASSUME NEW x \in Dispatchers, LeaveGuard(x)
      PROVE  LockInv'
  <2>1. guard'[x].link = "down" /\ \A y \in Dispatchers : y # x => guard'[y] = guard[y]
    BY <1>4 DEF LeaveGuard, Outside, TypeOK
  <2>2. lock' # x /\ \A y \in Dispatchers : y # x => (lock' = y <=> lock = y)
    BY <1>4 DEF LeaveGuard, Released, TypeOK
  <2> QED BY <2>1, <2>2 DEF LockInv
<1>5. ASSUME NEW x \in Dispatchers, LoseConnection(x)
      PROVE  LockInv'
  <2>1. guard'[x].link = "down" /\ \A y \in Dispatchers : y # x => guard'[y] = guard[y]
    BY <1>5 DEF LoseConnection, Outside, Guards, TypeOK
  <2>2. lock' # x /\ \A y \in Dispatchers : y # x => (lock' = y <=> lock = y)
    BY <1>5 DEF LoseConnection, Released, TypeOK
  <2> QED BY <2>1, <2>2 DEF LockInv
<1> QED
  BY <1>1, <1>2, <1>3, <1>4, <1>5
     DEF Next, Console, OperatorStep, Compose, SubmitCommand, ApplyCommand, RefuseCommand,
         Risk, Evaluate, BindDecision, Journal, PrepareEffect, SettleEffect, Dispatcher,
         Guarded, EndSession, Tick, vars

LEMMA ClaimStep == TypeOK /\ ClaimInv /\ [Next]_vars => ClaimInv'
<1> SUFFICES ASSUME TypeOK, ClaimInv, [Next]_vars
             PROVE  ClaimInv'
  OBVIOUS
<1>1. CASE UNCHANGED <<guard, claims, sent>>
  BY <1>1 DEF ClaimInv, Claiming, Unsent
<1>2. ASSUME NEW x \in Dispatchers, NEW d \in Decisions, TryLock(x, d)
      PROVE  ClaimInv'
  <2>1. /\ guard'[x].pc = "locked"
        /\ \A y \in Dispatchers : y # x => guard'[y] = guard[y]
        /\ UNCHANGED <<claims, sent>>
    BY <1>2 DEF TryLock, TypeOK
  <2> QED BY <2>1 DEF ClaimInv, Claiming, Unsent
<1>3. ASSUME NEW x \in Dispatchers, ClaimDispatch(x)
      PROVE  ClaimInv'
  <2> DEFINE d == guard[x].decision
  <2>1. /\ guard[x].pc = "locked" /\ guard' = Move(x, "claimed")
        /\ d \notin claims /\ claims' = claims \cup {d} /\ sent' = sent
    BY <1>3 DEF ClaimDispatch, MayClaim
  <2>2. d \in Decisions
    BY <2>1, GuardFacts
  <2>3. /\ guard'[x].pc = "claimed" /\ guard'[x].decision = d
        /\ \A y \in Dispatchers : y # x => guard'[y] = guard[y]
    BY <2>1, MoveFacts
  <2>4. \A y \in Dispatchers : y # x /\ Claiming(y) => guard[y].decision # d
    BY <2>1 DEF ClaimInv
  <2>5. sent[d] \in Nat /\ ~(sent[d] > 0)
    BY <2>1, <2>2 DEF ClaimInv, TypeOK
  <2>6. sent[d] = 0
    BY <2>5
  <2> QED BY <2>1, <2>2, <2>3, <2>4, <2>6 DEF ClaimInv, Claiming, Unsent
<1>4. ASSUME NEW x \in Dispatchers, EnterGuard(x)
      PROVE  ClaimInv'
  <2>1. /\ guard[x].pc = "claimed" /\ guard' = Move(x, "inside")
        /\ UNCHANGED <<claims, sent>>
    BY <1>4 DEF EnterGuard
  <2>2. /\ guard'[x].pc = "inside" /\ guard'[x].decision = guard[x].decision
        /\ \A y \in Dispatchers : y # x => guard'[y] = guard[y]
    BY <2>1, MoveFacts
  <2> QED BY <2>1, <2>2 DEF ClaimInv, Claiming, Unsent
<1>5. ASSUME NEW x \in Dispatchers, SendEntry(x)
      PROVE  ClaimInv'
  <2> DEFINE d == guard[x].decision
  <2>1. /\ guard[x].pc = "inside" /\ guard' = Move(x, "done") /\ claims' = claims
        /\ sent' = [sent EXCEPT ![d] = @ + 1]
    BY <1>5 DEF SendEntry
  <2>2. d \in Decisions /\ d \in claims /\ sent[d] = 0
    BY <2>1, GuardFacts DEF ClaimInv, Claiming, Unsent
  <2>3. /\ guard'[x].pc = "done" /\ guard'[x].decision = d
        /\ \A y \in Dispatchers : y # x => guard'[y] = guard[y]
    BY <2>1, MoveFacts
  <2>4. sent'[d] = 1 /\ \A e \in Decisions : e # d => sent'[e] = sent[e]
    BY <2>1, <2>2 DEF TypeOK
  <2>5. \A y \in Dispatchers : y # x /\ Unsent(y) => guard[y].decision # d
    BY <2>1 DEF ClaimInv, Claiming, Unsent
  <2>6. \A y \in Dispatchers : Unsent(y) => guard[y].decision \in Decisions
    BY GuardFacts DEF Unsent
  <2> QED BY <2>1, <2>2, <2>3, <2>4, <2>5, <2>6 DEF ClaimInv, Claiming, Unsent
<1>6. ASSUME NEW x \in Dispatchers, LeaveGuard(x)
      PROVE  ClaimInv'
  <2>1. /\ guard'[x].pc = "outside"
        /\ \A y \in Dispatchers : y # x => guard'[y] = guard[y]
        /\ UNCHANGED <<claims, sent>>
    BY <1>6 DEF LeaveGuard, TypeOK, Outside
  <2> QED BY <2>1 DEF ClaimInv, Claiming, Unsent
<1>7. ASSUME NEW x \in Dispatchers, LoseConnection(x)
      PROVE  ClaimInv'
  <2>1. /\ \A y \in Dispatchers : /\ guard'[y].pc = guard[y].pc
                                  /\ guard'[y].decision = guard[y].decision
        /\ UNCHANGED <<claims, sent>>
    BY <1>7 DEF LoseConnection, TypeOK, Guards, Outside
  <2> QED BY <2>1 DEF ClaimInv, Claiming, Unsent
<1> QED
  BY <1>1, <1>2, <1>3, <1>4, <1>5, <1>6, <1>7
     DEF Next, Console, OperatorStep, Compose, SubmitCommand, ApplyCommand, RefuseCommand,
         Risk, Evaluate, BindDecision, Journal, PrepareEffect, SettleEffect, Dispatcher,
         Guarded, EndSession, Tick, vars

LEMMA FenceStep == TypeOK /\ LockInv /\ FenceInv /\ [Next]_vars => FenceInv'
<1> SUFFICES ASSUME TypeOK, LockInv, FenceInv, [Next]_vars, ~Disconnects
             PROVE  FenceInv'
  BY DEF FenceInv
<1> USE OperatorConstants
<1> DEFINE Fenced(x) ==
      /\ guard[x] # Outside => guard[x].link = "up"
      /\ Unsent(x) => /\ latch.state = "ARMED"
                      /\ latch.version = admission[guard[x].decision].version
<1>0. \A x \in Dispatchers : Fenced(x)
  BY DEF FenceInv
\* With the lock free, nobody is inside the guard.
<1>1. lock = NoOne => \A x \in Dispatchers : guard[x] = Outside
  BY <1>0 DEF LockInv
<1>2. CASE UNCHANGED <<guard, latch, admission>>
  BY <1>2 DEF FenceInv, Unsent
<1>3. ASSUME NEW o \in Operators, ApplyCommand(o)
      PROVE  FenceInv'
  BY <1>1, <1>3 DEF ApplyCommand, FenceInv, Unsent, Outside
<1>4. ASSUME NEW d \in Decisions, BindDecision(d)
      PROVE  FenceInv'
  BY <1>1, <1>4 DEF BindDecision, FenceInv, Unsent, Outside
<1>5. ASSUME NEW x \in Dispatchers, NEW d \in Decisions, TryLock(x, d)
      PROVE  FenceInv'
  <2>1. /\ guard'[x].pc = "locked" /\ guard'[x].link = "up"
        /\ \A y \in Dispatchers : y # x => guard'[y] = guard[y]
        /\ UNCHANGED <<latch, admission>>
    BY <1>5 DEF TryLock, TypeOK
  <2> QED BY <1>0, <2>1 DEF FenceInv, Unsent
<1>6. ASSUME NEW x \in Dispatchers, ClaimDispatch(x)
      PROVE  FenceInv'
  <2>1. /\ guard[x].pc = "locked" /\ guard[x].link = "up" /\ guard' = Move(x, "claimed")
        /\ latch.state = "ARMED"
        /\ latch.version = admission[guard[x].decision].version
        /\ UNCHANGED <<latch, admission>>
    BY <1>6 DEF ClaimDispatch, MayClaim, CheckEntry, Live
  <2>2. /\ guard'[x].link = "up" /\ guard'[x].decision = guard[x].decision
        /\ \A y \in Dispatchers : y # x => guard'[y] = guard[y]
    BY <2>1, MoveFacts
  <2> QED BY <1>0, <2>1, <2>2 DEF FenceInv, Unsent
<1>7. ASSUME NEW x \in Dispatchers, EnterGuard(x) \/ SendEntry(x)
      PROVE  FenceInv'
  <2>1. /\ guard[x].pc \in {"claimed", "inside"}
        /\ \E pc : guard' = Move(x, pc)
        /\ UNCHANGED <<latch, admission>>
    BY <1>7 DEF EnterGuard, SendEntry
  <2>2. /\ guard'[x].link = guard[x].link /\ guard'[x].decision = guard[x].decision
        /\ \A y \in Dispatchers : y # x => guard'[y] = guard[y]
    BY <2>1, MoveFacts
  <2>3. Unsent(x) /\ guard[x] # Outside
    BY <2>1 DEF Unsent, Outside
  <2> QED BY <1>0, <2>1, <2>2, <2>3 DEF FenceInv, Unsent
<1>8. ASSUME NEW x \in Dispatchers, LeaveGuard(x)
      PROVE  FenceInv'
  <2>1. /\ guard'[x] = Outside
        /\ \A y \in Dispatchers : y # x => guard'[y] = guard[y]
        /\ UNCHANGED <<latch, admission>>
    BY <1>8 DEF LeaveGuard, TypeOK
  <2> QED BY <1>0, <2>1 DEF FenceInv, Unsent, Outside
<1> QED
  BY <1>2, <1>3, <1>4, <1>5, <1>6, <1>7, <1>8
     DEF Next, Console, OperatorStep, Compose, SubmitCommand, RefuseCommand, Risk, Evaluate,
         Journal, PrepareEffect, SettleEffect, Dispatcher, Guarded, LoseConnection,
         EndSession, Tick, vars

LEMMA LineageStep == TypeOK /\ LineageInv /\ [Next]_vars => LineageInv'
<1> SUFFICES ASSUME TypeOK, LineageInv, [Next]_vars
             PROVE  LineageInv'
  OBVIOUS
<1>1. CASE UNCHANGED <<audit, admission, claims>>
  BY <1>1 DEF LineageInv
<1>2. ASSUME NEW o \in Operators, ApplyCommand(o)
      PROVE  LineageInv'
  <2> DEFINE c == console[o].command
  <2>1. /\ audit' = Append(audit, c) /\ UNCHANGED <<admission, claims>>
        /\ c.action = "ARM" => c.expires <= Deadline[c.session]
    BY <1>2 DEF ApplyCommand, Acceptable, SessionLease
  <2>2. c \in Commands /\ audit \in Seq(Commands)
    BY <1>2, ConsoleFacts DEF ApplyCommand, TypeOK
  <2>3. /\ DOMAIN audit \subseteq DOMAIN audit'
        /\ \A v \in DOMAIN audit : audit'[v] = audit[v]
        /\ \A v \in DOMAIN audit' : v \in DOMAIN audit \/ audit'[v] = c
    BY <2>1, <2>2, AppendFacts
  <2>4. \A v \in DOMAIN audit' : audit'[v].action = "ARM" =>
          audit'[v].expires <= Deadline[audit'[v].session]
    BY <2>1, <2>3 DEF LineageInv
  <2> QED BY <2>1, <2>3, <2>4 DEF LineageInv
<1>3. ASSUME NEW d \in Decisions, BindDecision(d)
      PROVE  LineageInv'
  <2> DEFINE arm == audit[latch.version]
  <2>1. /\ latch.version \in DOMAIN audit /\ latch = LatchOf(arm)
        /\ latch.state = "ARMED"
        /\ admission' = [admission EXCEPT ![d] = Binding(d)]
        /\ UNCHANGED <<audit, claims>>
    BY <1>3 DEF BindDecision, Live, Audited
  <2>2. arm \in Commands
    BY <2>1 DEF TypeOK
  <2>3. arm.action = "ARM" /\ arm.session = latch.session /\ arm.expires = latch.expires
    BY <2>1, <2>2, CommandFacts
  <2>4. Binding(d).expires <= arm.expires
    BY <2>3, OperatorConstants DEF Binding, TypeOK, Latches
  <2>5. /\ admission'[d].version \in DOMAIN audit
        /\ audit[admission'[d].version].action = "ARM"
        /\ audit[admission'[d].version].session = admission'[d].session
        /\ admission'[d].expires <= audit[admission'[d].version].expires
    BY <2>1, <2>3, <2>4 DEF Binding, TypeOK
  <2>6. admission'[d] # NoAdmission
    BY <2>1, <2>3, <2>5 DEF NoAdmission, TypeOK
  <2>7. \A e \in Decisions : e # d => admission'[e] = admission[e]
    BY <2>1 DEF TypeOK
  <2> QED BY <2>1, <2>5, <2>6, <2>7 DEF LineageInv, TypeOK
<1>4. ASSUME NEW x \in Dispatchers, ClaimDispatch(x)
      PROVE  LineageInv'
  BY <1>4 DEF ClaimDispatch, MayClaim, CheckEntry, LineageInv
<1> QED
  BY <1>1, <1>2, <1>3, <1>4
     DEF Next, Console, OperatorStep, Compose, SubmitCommand, RefuseCommand, Risk, Evaluate,
         Journal, PrepareEffect, SettleEffect, Dispatcher, Guarded, TryLock, EnterGuard,
         SendEntry, LeaveGuard, LoseConnection, EndSession, Tick, vars

-----------------------------------------------------------------------------
(***************************************************************************)
(* The theorems.                                                           *)
(***************************************************************************)
LEMMA InvInit == Init => OperatorInv
<1> SUFFICES ASSUME Init PROVE OperatorInv
  OBVIOUS
<1>1. TypeOK /\ ConsoleInv
  BY TypeInit
<1>2. LockInv /\ ClaimInv /\ FenceInv /\ LineageInv
  BY OperatorConstants
     DEF Init, LockInv, ClaimInv, FenceInv, LineageInv, Claiming, Unsent, Outside
<1> QED BY <1>1, <1>2 DEF OperatorInv

\* The inductive invariant of the latch and the guard: who holds the lock, what
\* a claim excludes, which fence a dispatcher relies on, where an admission
\* comes from (apply_command, bind_decision, _final_dispatch_guard).
THEOREM OperatorInvariant == Spec => []OperatorInv
<1>1. OperatorInv /\ [Next]_vars => OperatorInv'
  BY TypeStep, LockStep, ClaimStep, FenceStep, LineageStep DEF OperatorInv
<1> QED BY InvInit, <1>1, PTL DEF Spec

\* No decision's order is sent twice, for any number of dispatchers, crashes,
\* lost connections and repeated ARMs (final_dispatch_guard).
THEOREM EntryAtMostOnce == Spec => []OneSend
<1>1. OperatorInv => OneSend
  BY DEF OperatorInv, ClaimInv, OneSend
<1> QED BY <1>1, OperatorInvariant, PTL

\* Every order sent traces to one audited ARM whose lease and session bound it
\* (bind_decision, _check).
THEOREM EntryTracesToArm == Spec => []SendTracesToArm
<1>1. OperatorInv => SendTracesToArm
  <2> SUFFICES ASSUME OperatorInv, NEW d \in Decisions, sent[d] > 0
               PROVE  /\ admission[d].version \in DOMAIN audit
                      /\ LET arm == audit[admission[d].version] IN
                         /\ arm.action = "ARM" /\ arm.session = admission[d].session
                         /\ admission[d].expires <= arm.expires
                         /\ arm.expires <= Deadline[arm.session]
    BY DEF SendTracesToArm
  <2>1. admission[d] # NoAdmission
    BY DEF OperatorInv, ClaimInv, LineageInv
  <2> QED BY <2>1 DEF OperatorInv, LineageInv
<1> QED BY <1>1, OperatorInvariant, PTL

\* While dispatchers keep their connections, KILL waits for the dispatch inside
\* the guard and no order leaves after it (_final_dispatch_guard); the run with
\* lost connections shows why the premise is needed.
THEOREM KillFencesEntries == ASSUME ~Disconnects PROVE Spec => KillFencesSends
<1>1. OperatorInv /\ [Next]_vars =>
        [\A d \in Decisions : sent'[d] # sent[d] =>
           latch.state = "ARMED" /\ latch.version = admission[d].version]_vars
  <2> SUFFICES ASSUME OperatorInv, [Next]_vars, NEW d \in Decisions, sent'[d] # sent[d]
               PROVE  latch.state = "ARMED" /\ latch.version = admission[d].version
    OBVIOUS
  <2>1. PICK x \in Dispatchers : SendEntry(x)
    BY DEF Next, Console, OperatorStep, Compose, SubmitCommand, ApplyCommand,
           RefuseCommand, Risk, Evaluate, BindDecision, Journal, PrepareEffect,
           SettleEffect, Dispatcher, Guarded, TryLock, ClaimDispatch, EnterGuard,
           LeaveGuard, LoseConnection, EndSession, Tick, vars
  <2>2. guard[x].pc = "inside" /\ sent' = [sent EXCEPT ![guard[x].decision] = @ + 1]
    BY <2>1 DEF SendEntry
  <2>3. guard[x].decision = d
    BY <2>2 DEF OperatorInv, TypeOK
  <2> QED BY <2>2, <2>3 DEF OperatorInv, FenceInv, Unsent
<1> QED BY <1>1, OperatorInvariant, PTL DEF Spec, KillFencesSends
=============================================================================
