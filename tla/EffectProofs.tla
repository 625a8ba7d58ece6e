----------------------------- MODULE EffectProofs -----------------------------
(***************************************************************************)
(* What holds of the mutation budget, the effect journal, the canary       *)
(* sessions and their evidence, for every set of effects, tasks, sessions  *)
(* and reviews and every plan.  A part is proved with an invariant of its  *)
(* own rows; a step of another part leaves them alone.                     *)
(***************************************************************************)
EXTENDS VenueEffects, SetLemmas

-----------------------------------------------------------------------------
(***************************************************************************)
(* MutationBudget.  The count is taken before the row is stamped, so the   *)
(* bound is not inductive as it stands: the invariant adds that what an    *)
(* admitted task counted still bounds the window when it stores its row,   *)
(* because the lock keeps others out and the clock only shrinks the window.*)
(***************************************************************************)
\* An admitted task has room for its row.
RoomInv ==
  \A x \in Tasks : task[x].at = "admitted" =>
    LET c == task[x].config
    IN  /\ Cardinality(Used(c)) + 1 <= c.capacity
        /\ task[x].effect \notin Compensations =>
             Cardinality(Used(c)) + 1 <= c.capacity - c.reserve

BudgetInv == TypeOK /\ WindowBound /\ RoomInv

-----------------------------------------------------------------------------
\* The rows of a window are finitely many.
LEMMA UsedFinite ==
  ASSUME TypeOK, NEW c
  PROVE  /\ IsFiniteSet(Used(c)) /\ Cardinality(Used(c)) \in Nat
         /\ IsFiniteSet(Ordinary(c)) /\ Cardinality(Ordinary(c)) \in Nat
         /\ IsFiniteSet(Compensating(c)) /\ Cardinality(Compensating(c)) \in Nat
         /\ Cardinality(Ordinary(c)) <= Cardinality(Used(c))
<1>1. IsFiniteSet(rows)
  BY DEF TypeOK
<1>2. Used(c) \in SUBSET rows
  BY DEF Used
<1>3. IsFiniteSet(Used(c))
  BY <1>1, <1>2, FS_Subset
<1>4. Ordinary(c) \in SUBSET Used(c) /\ Compensating(c) \in SUBSET Used(c)
  BY DEF Ordinary, Compensating
<1>5. /\ IsFiniteSet(Ordinary(c)) /\ IsFiniteSet(Compensating(c))
      /\ Cardinality(Ordinary(c)) <= Cardinality(Used(c))
  BY <1>3, <1>4, FS_Subset
<1>. QED  BY <1>3, <1>5, FS_CardinalityType

\* The same after a step.
LEMMA UsedFinitePrime ==
  ASSUME TypeOK', NEW c
  PROVE  /\ IsFiniteSet(Used(c)') /\ Cardinality(Used(c)') \in Nat
         /\ IsFiniteSet(Ordinary(c)') /\ Cardinality(Ordinary(c)') \in Nat
<1>1. IsFiniteSet(rows')
  BY DEF TypeOK
<1>2. Used(c)' \in SUBSET (rows') /\ Ordinary(c)' \in SUBSET (rows')
  BY DEF Used, Ordinary
<1>. QED  BY <1>1, <1>2, FS_Subset, FS_CardinalityType

\* A set inside a finite set with one more element has at most one more.
LEMMA OneMore ==
  ASSUME NEW S, IsFiniteSet(S), NEW e, NEW T \in SUBSET (S \cup {e})
  PROVE  Cardinality(T) <= Cardinality(S) + 1
<1>1. /\ IsFiniteSet(S \cup {e})
      /\ Cardinality(S \cup {e}) = IF e \in S THEN Cardinality(S) ELSE Cardinality(S) + 1
  BY FS_AddElement
<1>2. Cardinality(T) <= Cardinality(S \cup {e}) /\ IsFiniteSet(T)
  BY <1>1, FS_Subset
<1>3. Cardinality(S) \in Nat /\ Cardinality(T) \in Nat
  BY <1>2, FS_CardinalityType
<1>. QED  BY <1>1, <1>2, <1>3

\* Configurations are triples of numbers with room above the reserve.
LEMMA ConfigFacts ==
  ASSUME NEW c \in Configs
  PROVE  /\ c.capacity \in Nat /\ c.window \in Nat /\ c.reserve \in Nat
         /\ c.reserve < c.capacity /\ c # None
BY BudgetConstants

-----------------------------------------------------------------------------
\* The invariant holds at the start.
LEMMA BudgetInit == Init => BudgetInv
<1>. SUFFICES ASSUME Init PROVE BudgetInv
  OBVIOUS
<1>1. TypeOK
  BY FS_EmptySet, BudgetConstants DEF Init, TypeOK, Idle, TaskStates
<1>2. WindowBound /\ RoomInv
  BY DEF Init, WindowBound, RoomInv, Idle
<1>. QED  BY <1>1, <1>2 DEF BudgetInv

\* Every step keeps the types, among them one reservation per effect.
LEMMA TypeStep == TypeOK /\ [Next]_vars => TypeOK'
<1>. SUFFICES ASSUME TypeOK, [Next]_vars PROVE TypeOK'
  OBVIOUS
<1>. USE BudgetConstants
<1>1. CASE Tick
  BY <1>1 DEF Tick, TypeOK, Reservations, TaskStates
<1>2. ASSUME NEW x \in Tasks, Store(x) PROVE TypeOK'
  <2>. DEFINE row == [effect |-> task[x].effect, occurred |-> now]
  <2>1. task[x].effect \in Effects /\ task[x].config \in Configs /\ lock = x
    BY <1>2 DEF Store, TypeOK
  <2>2. row \in Reservations
    BY <2>1 DEF TypeOK, Reservations
  <2>3. IsFiniteSet(rows')
    BY <1>2, FS_AddElement DEF Store, TypeOK
  <2>4. \A q, r \in rows' : q.effect = r.effect => q = r
    BY <1>2, <2>1 DEF Store, TypeOK
  <2>5. /\ now' \in Nat /\ config' \in Configs /\ rows' \subseteq Reservations
        /\ \A r \in rows' : r.occurred <= now'
    BY <1>2, <2>1, <2>2 DEF Store, TypeOK
  <2>6. task' \in [Tasks -> TaskStates] /\ lock' = None
    BY <1>2, <2>1 DEF Store, TypeOK, TaskStates
  <2>7. \A y \in Tasks : task'[y].at # "admitted"
    BY <1>2, <2>1 DEF Store, TypeOK, TaskStates
  <2>. QED  BY <2>3, <2>4, <2>5, <2>6, <2>7 DEF TypeOK
<1>3. ASSUME NEW x \in Tasks, Abort(x) PROVE TypeOK'
  <2>1. lock = x
    BY <1>3 DEF Abort, TypeOK
  <2>2. task' \in [Tasks -> TaskStates] /\ \A y \in Tasks : task'[y].at # "admitted"
    BY <1>3, <2>1 DEF Abort, TypeOK, TaskStates, Idle
  <2>. QED  BY <1>3, <2>2 DEF Abort, TypeOK
<1>4. ASSUME NEW x \in Tasks, NEW e \in Effects, NEW c \in Configs, Admit(x, e, c) PROVE TypeOK'
  <2>1. task' \in [Tasks -> TaskStates]
    BY <1>4 DEF Admit, TypeOK, TaskStates
  <2>2. \A y \in Tasks : task'[y].at = "admitted" <=> lock' = y
    BY <1>4 DEF Admit, TypeOK, TaskStates
  <2>3. \A r \in rows : r.effect # e
    BY <1>4 DEF Admit, Reserved
  <2>. QED  BY <1>4, <2>1, <2>2, <2>3 DEF Admit, TypeOK, Configured
<1>5. ASSUME NEW x \in Tasks, NEW e \in Effects, NEW c \in Configs,
             Deny(x, e, c) \/ Replay(x, e, c) PROVE TypeOK'
  <2>1. /\ task' \in [Tasks -> TaskStates] /\ \A y \in Tasks : task'[y].at # "admitted"
    BY <1>5 DEF Deny, Replay, TypeOK, TaskStates
  <2>. QED  BY <1>5, <2>1 DEF Deny, Replay, TypeOK
<1>6. CASE UNCHANGED vars
  BY <1>6 DEF vars, TypeOK
<1>. QED  BY <1>1, <1>2, <1>3, <1>4, <1>5, <1>6 DEF Next

\* As time goes by without new rows the windows only lose rows.
LEMMA WindowShrinks ==
  ASSUME TypeOK, rows' = rows, now' >= now, now' \in Nat, NEW c \in Configs
  PROVE  /\ Cardinality(Used(c)') <= Cardinality(Used(c))
         /\ Cardinality(Ordinary(c)') <= Cardinality(Ordinary(c))
<1>1. c.window \in Nat /\ now \in Nat /\ \A r \in rows : r.occurred \in Nat
  BY ConfigFacts DEF TypeOK, Reservations
<1>2. Used(c)' \in SUBSET Used(c)
  BY <1>1 DEF Used, InWindow
<1>3. Ordinary(c)' \in SUBSET Ordinary(c)
  BY <1>2 DEF Ordinary
<1>. QED  BY <1>2, <1>3, UsedFinite, FS_Subset

\* Every step keeps the bound and the room of the admitted task.
LEMMA BoundStep == BudgetInv /\ [Next]_vars => WindowBound' /\ RoomInv'
<1>. SUFFICES ASSUME BudgetInv, [Next]_vars PROVE WindowBound' /\ RoomInv'
  OBVIOUS
<1>0. TypeOK /\ WindowBound /\ RoomInv /\ TypeOK'
  BY TypeStep DEF BudgetInv
<1>1. CASE Tick
  <2>1. rows' = rows /\ now' >= now /\ now' \in Nat /\ config' = config /\ task' = task
    BY <1>0, <1>1 DEF Tick, TypeOK
  <2>2. ASSUME NEW c \in Configs
        PROVE  /\ Cardinality(Used(c)') <= Cardinality(Used(c))
               /\ Cardinality(Ordinary(c)') <= Cardinality(Ordinary(c))
               /\ Cardinality(Used(c)) \in Nat /\ Cardinality(Used(c)') \in Nat
               /\ Cardinality(Ordinary(c)) \in Nat /\ Cardinality(Ordinary(c)') \in Nat
    <3>1. Cardinality(Used(c)') \in Nat /\ Cardinality(Ordinary(c)') \in Nat
      BY <1>0, UsedFinitePrime
    <3>. QED  BY <1>0, <2>1, <3>1, WindowShrinks, UsedFinite
  <2>3. WindowBound'
    BY <1>0, <2>1, <2>2, ConfigFacts DEF WindowBound, TypeOK
  <2>4. RoomInv'
    BY <1>0, <2>1, <2>2, ConfigFacts DEF RoomInv, TypeOK
  <2>. QED  BY <2>3, <2>4
<1>2. ASSUME NEW x \in Tasks, Store(x) PROVE WindowBound' /\ RoomInv'
  <2>0. task[x].config \in Configs
    BY <1>0, <1>2 DEF Store, TypeOK
  <2>00. PICK c \in Configs : c = task[x].config
    BY <2>0
  <2>01. PICK row : row = [effect |-> task[x].effect, occurred |-> now]
    OBVIOUS
  <2>1. /\ c \in Configs /\ task[x].effect \in Effects /\ lock = x
        /\ row.effect = task[x].effect
        /\ config \in {None, c} /\ config' = c /\ now' = now
        /\ rows' = rows \cup {row} /\ lock' = None
    BY <1>0, <1>2, <2>00, <2>01 DEF Store, TypeOK
  <2>2. /\ Cardinality(Used(c)) + 1 <= c.capacity
        /\ task[x].effect \notin Compensations => Cardinality(Used(c)) + 1 <= c.capacity - c.reserve
    BY <1>0, <1>2, <2>00 DEF Store, RoomInv
  <2>3. Used(c)' \in SUBSET (Used(c) \cup {row})
    BY <2>1 DEF Used, InWindow
  <2>4. Cardinality(Used(c)') <= Cardinality(Used(c)) + 1
    BY <1>0, <2>3, OneMore, UsedFinite
  <2>5. /\ Cardinality(Used(c)) \in Nat /\ Cardinality(Used(c)') \in Nat
        /\ Cardinality(Ordinary(c)) \in Nat /\ Cardinality(Ordinary(c)') \in Nat
        /\ Cardinality(Ordinary(c)) <= Cardinality(Used(c))
    BY <1>0, UsedFinite, UsedFinitePrime
  <2>6. Cardinality(Used(c)') <= c.capacity
    BY <2>1, <2>2, <2>4, <2>5, ConfigFacts
  <2>7. Cardinality(Ordinary(c)') <= c.capacity - c.reserve
    <3>1. CASE task[x].effect \in Compensations
      <4>1. Ordinary(c)' \in SUBSET Ordinary(c)
        BY <2>1, <2>3, <3>1 DEF Ordinary
      <4>2. Cardinality(Ordinary(c)') <= Cardinality(Ordinary(c))
        BY <1>0, <4>1, FS_Subset, UsedFinite
      <4>3. CASE config = c
        BY <1>0, <2>1, <2>5, <4>2, <4>3, ConfigFacts DEF WindowBound
      <4>4. CASE config = None
        <5>1. rows = {}
          BY <1>0, <4>4 DEF TypeOK
        <5>2. Ordinary(c) = {}
          BY <5>1 DEF Ordinary, Used
        <5>3. Cardinality(Ordinary(c)) = 0
          BY <5>2, FS_EmptySet
        <5>. QED  BY <2>1, <2>5, <4>2, <5>3, ConfigFacts
      <4>. QED  BY <2>1, <4>3, <4>4
    <3>2. CASE task[x].effect \notin Compensations
      <4>1. Ordinary(c)' \in SUBSET (Used(c)')
        BY DEF Ordinary
      <4>2. Cardinality(Ordinary(c)') <= Cardinality(Used(c)')
        BY <1>0, <4>1, FS_Subset, UsedFinitePrime
      <4>. QED  BY <2>1, <2>2, <2>4, <2>5, <3>2, <4>2, ConfigFacts
    <3>. QED  BY <3>1, <3>2
  <2>8. WindowBound'
    <3>1. Used(config)' = Used(c)' /\ Ordinary(config)' = Ordinary(c)'
      BY <2>1 DEF Ordinary, Used, InWindow
    <3>. QED  BY <2>1, <2>6, <2>7, <3>1 DEF WindowBound
  <2>9. RoomInv'
    BY <1>0, <2>1, BudgetConstants DEF RoomInv, TypeOK
  <2>. QED  BY <2>8, <2>9
<1>3. ASSUME NEW x \in Tasks, Abort(x) PROVE WindowBound' /\ RoomInv'
  <2>1. lock' = None /\ config' = config /\ rows' = rows /\ now' = now
    BY <1>3 DEF Abort
  <2>2. RoomInv'
    BY <1>0, <2>1, BudgetConstants DEF RoomInv, TypeOK
  <2>3. WindowBound'
    BY <1>0, <2>1 DEF WindowBound, Ordinary, Used, InWindow
  <2>. QED  BY <2>2, <2>3
<1>4. ASSUME NEW x \in Tasks, NEW e \in Effects, NEW c \in Configs, Admit(x, e, c)
      PROVE WindowBound' /\ RoomInv'
  <2>1. /\ lock' = x /\ config' = config /\ rows' = rows /\ now' = now
        /\ task'[x] = [at |-> "admitted", effect |-> e, config |-> c]
    BY <1>0, <1>4 DEF Admit, TypeOK
  <2>2. WindowBound'
    BY <1>0, <2>1 DEF WindowBound, Ordinary, Used, InWindow
  <2>3. Used(c)' = Used(c)
    BY <2>1 DEF Used, InWindow
  <2>4. /\ Cardinality(Used(c)) + 1 <= c.capacity
        /\ e \notin Compensations => Cardinality(Used(c)) + 1 <= c.capacity - c.reserve
    BY <1>0, <1>4, UsedFinite, ConfigFacts DEF Admit, Admits
  <2>5. \A y \in Tasks : task'[y].at = "admitted" => y = x
    BY <1>0, <2>1 DEF TypeOK
  <2>6. RoomInv'
    BY <2>1, <2>3, <2>4, <2>5 DEF RoomInv
  <2>. QED  BY <2>2, <2>6
<1>5. ASSUME NEW x \in Tasks, NEW e \in Effects, NEW c \in Configs,
             Deny(x, e, c) \/ Replay(x, e, c)
      PROVE WindowBound' /\ RoomInv'
  <2>1. /\ lock = None /\ lock' = None /\ config' = c /\ rows' = rows /\ now' = now
        /\ config \in {None, c}
    BY <1>5 DEF Deny, Replay, Configured
  <2>2. RoomInv'
    BY <1>0, <2>1, BudgetConstants DEF RoomInv, TypeOK
  <2>3. Used(config)' = Used(c) /\ Ordinary(config)' = Ordinary(c)
    BY <2>1 DEF Ordinary, Used, InWindow
  <2>4. CASE config = c
    BY <1>0, <2>1, <2>2, <2>3, <2>4, ConfigFacts DEF WindowBound
  <2>5. CASE config = None
    <3>1. rows = {}
      BY <1>0, <2>5 DEF TypeOK
    <3>2. Used(c) = {} /\ Ordinary(c) = {}
      BY <3>1 DEF Ordinary, Used
    <3>3. Cardinality(Used(c)) = 0 /\ Cardinality(Ordinary(c)) = 0
      BY <3>2, FS_EmptySet
    <3>. QED  BY <2>1, <2>3, <3>3, ConfigFacts, <2>2 DEF WindowBound
  <2>. QED  BY <2>1, <2>2, <2>4, <2>5
<1>6. CASE UNCHANGED vars
  BY <1>0, <1>6 DEF vars, WindowBound, RoomInv, Ordinary, Used, InWindow
<1>. QED  BY <1>1, <1>2, <1>3, <1>4, <1>5, <1>6 DEF Next

-----------------------------------------------------------------------------
\* The strengthened invariant of the budget.
THEOREM BudgetInvariant == Spec => []BudgetInv
<1>1. BudgetInv /\ [Next]_vars => BudgetInv'
  BY TypeStep, BoundStep DEF BudgetInv
<1>. QED  BY BudgetInit, <1>1, PTL DEF Spec

\* Tasks and rows stay well formed: one reservation per effect, one admitted task.
THEOREM BudgetTypes == Spec => []TypeOK
BY BudgetInvariant, PTL DEF BudgetInv

\* No trailing window exceeds the capacity, nor the ordinary part of it.
THEOREM BudgetBound == Spec => []WindowBound
BY BudgetInvariant, PTL DEF BudgetInv

\* A compensation is refused only when compensations fill the reserve.
LEMMA CrowdStep ==
  ASSUME BudgetInv, [Next]_vars, NEW x \in Tasks,
         task'[x].at = "denied", task'[x] # task[x], task'[x].effect \in Compensations
  PROVE  Cardinality(Compensating(config')) >= config'.reserve
<1>0. TypeOK /\ WindowBound
  BY DEF BudgetInv
<1>1. ~UNCHANGED task
  OBVIOUS
<1>2. PICK y \in Tasks : \/ Store(y) \/ Abort(y)
                        \/ \E e \in Effects, c \in Configs :
                             Admit(y, e, c) \/ Deny(y, e, c) \/ Replay(y, e, c)
  BY <1>1 DEF Next, vars, Tick
<1>3. PICK e \in Effects, c \in Configs : Deny(x, e, c)
  BY <1>0, <1>2 DEF Store, Abort, Admit, Deny, Replay, TypeOK, TaskStates, Idle
<1>4. /\ config' = c /\ rows' = rows /\ now' = now /\ task'[x].effect = e
      /\ config \in {None, c} /\ ~Admits(e, c)
  BY <1>0, <1>3 DEF Deny, TypeOK, Configured
<1>5. Cardinality(Used(c)) >= c.capacity
  BY <1>0, <1>4, UsedFinite, ConfigFacts DEF Admits
<1>6. config = c
  <2>. SUFFICES ASSUME config = None PROVE FALSE
    BY <1>4
  <2>1. rows = {}
    BY <1>0 DEF TypeOK
  <2>2. Used(c) = {}
    BY <2>1 DEF Used
  <2>. QED  BY <1>5, <2>2, FS_EmptySet, ConfigFacts
<1>7. Cardinality(Ordinary(c)) <= c.capacity - c.reserve
  BY <1>0, <1>6, ConfigFacts DEF WindowBound
<1>8. Cardinality(Used(c)) <= Cardinality(Ordinary(c)) + Cardinality(Compensating(c))
  <2>1. Used(c) = Ordinary(c) \cup Compensating(c)
    BY DEF Ordinary, Compensating
  <2>2. Ordinary(c) \cap Compensating(c) = {}
    BY DEF Ordinary, Compensating
  <2>3. Cardinality(Ordinary(c) \cap Compensating(c)) = 0
    BY <2>2, FS_EmptySet
  <2>4. Cardinality(Ordinary(c) \cup Compensating(c))
          = Cardinality(Ordinary(c)) + Cardinality(Compensating(c))
              - Cardinality(Ordinary(c) \cap Compensating(c))
    BY <1>0, UsedFinite, FS_Union
  <2>. QED  BY <1>0, <2>1, <2>3, <2>4, UsedFinite
<1>9. Cardinality(Compensating(c)) >= c.reserve
  BY <1>0, <1>5, <1>7, <1>8, UsedFinite, ConfigFacts
<1>. QED  BY <1>4, <1>9

\* Ordinary traffic never makes a compensation fail.
THEOREM CompensationsHaveRoom == Spec => OnlyCompensationsCrowdOut
<1>. DEFINE Crowd ==
       \A x \in Tasks :
         task'[x].at = "denied" /\ task'[x] # task[x] /\ task'[x].effect \in Compensations =>
           Cardinality(Compensating(config')) >= config'.reserve
<1>1. BudgetInv /\ [Next]_vars => [Crowd]_vars
  BY CrowdStep
<1>. QED  BY <1>1, BudgetInvariant, PTL DEF Spec, OnlyCompensationsCrowdOut

-----------------------------------------------------------------------------
(***************************************************************************)
(* ExecutionJournal.  The recovery lock is no premise: what keeps an       *)
(* executor and a recoverer apart is that an effect is due for recovery    *)
(* only after the last moment its request can reach the venue.             *)
(***************************************************************************)
\* A task that may still send, whose request is under way or whose order is there.
InPlay(s) == sender[s] \in {"created", "waiting"} \/ s \in flying \/ s \in venue[KeyOf[s]]

\* One task at most is in play for an effect, and only for one that was prepared.
OneInPlay ==
  /\ \A s \in Senders : InPlay(s) => effect[KeyOf[s]].status # "NONE"
  /\ \A s, t \in Senders : InPlay(s) /\ InPlay(t) /\ KeyOf[s] = KeyOf[t] => s = t

OrdersUnderKey == \A e \in EffectKeys : \A s \in venue[e] : KeyOf[s] = e

\* A row names an order only after the venue has it.
NamedIsThere == \A e \in EffectKeys : effect[e].id # None => effect[e].id \in venue[e]

RecoveryComesLater ==
  \A e \in EffectKeys : effect[e].status # "NONE" =>
    effect[e].recoveryAfter = effect[e].preparedAt + RecoveryDelay

Due(e) == effect[e].status # "NONE" /\ effect[e].recoveryAfter <= now

\* A recoverer works on an effect that is due, and what the venue told it about
\* the effect is still so.
AnswerIsCurrent ==
  \A r \in Tasks : rec[r].at # "idle" =>
    /\ Due(rec[r].effect)
    /\ rec[r].at = "asked" =>
         venue[rec[r].effect] = IF rec[r].id = None THEN {} ELSE {rec[r].id}

ReconciledWasDue == \A e \in EffectKeys : effect[e].status = "RECONCILED" => Due(e)

FreshHasNoEvents == \A e \in EffectKeys : effect[e].status = "NONE" <=> journal[e] = <<>>

\* The inductive invariant of the journal.
JournalInv ==
  /\ Journal!TypeOK /\ Journal!JournalIsTrue
  /\ OneInPlay /\ OrdersUnderKey /\ NamedIsThere
  /\ RecoveryComesLater /\ AnswerIsCurrent /\ ReconciledWasDue /\ FreshHasNoEvents

\* What the assumption says of the journal's constants.
LEMMA JournalFacts ==
  /\ KeyOf \in [Senders -> EffectKeys] /\ DOMAIN ContentOf = Senders
  /\ RecoveryDelay \in Nat /\ CallBound \in Nat /\ JournalTime \in Nat /\ MaxFaults \in Nat
  /\ CallBound < RecoveryDelay
  /\ None \notin EffectKeys \cup Senders \cup Tasks \cup Answers
  BY EffectConstants DEF Journal!JournalConstants

\* Empty tables satisfy it.
LEMMA JournalInit == Journal!Init => JournalInv
<1>. SUFFICES ASSUME Journal!Init PROVE JournalInv
  OBVIOUS
<1>. USE JournalFacts DEF Journal!Init, Journal!NoEffect, Journal!Idle
<1>1. Journal!TypeOK
  BY DEF Journal!TypeOK, Journal!Rows, Journal!Statuses, Journal!Entries, Journal!RecStates
<1>2. Journal!JournalIsTrue
  BY DEF Journal!JournalIsTrue, Journal!ReconciledIsTrue, Journal!RowIsJournalHead
<1>3. OneInPlay /\ OrdersUnderKey /\ NamedIsThere
  BY DEF OneInPlay, InPlay, OrdersUnderKey, NamedIsThere
<1>4. RecoveryComesLater /\ AnswerIsCurrent /\ ReconciledWasDue /\ FreshHasNoEvents
  BY DEF RecoveryComesLater, AnswerIsCurrent, ReconciledWasDue, FreshHasNoEvents, Due
<1>. QED BY <1>1, <1>2, <1>3, <1>4 DEF JournalInv

\* _transition leaves row and journal alone, or writes a status that follows the
\* one before, keeps the times, and appends the row's new head.
LEMMA TransitionFacts ==
  ASSUME Journal!TypeOK, NEW e \in EffectKeys, NEW status \in {"CONFIRMED", "RECONCILED", "FAILED"},
         NEW id \in Senders \cup {None}, NEW answer \in Answers \cup {None}, NEW error \in BOOLEAN,
         Journal!Transition(e, status, id, answer, error)
  PROVE  \/ UNCHANGED <<effect, journal>>
         \/ /\ status \in Journal!Allowed(effect[e].status) \ {effect[e].status}
            /\ effect' \in [EffectKeys -> Journal!Rows] /\ journal' \in [EffectKeys -> Seq(Journal!Entries)]
            /\ \A d \in EffectKeys \ {e} : effect'[d] = effect[d] /\ journal'[d] = journal[d]
            /\ effect'[e].status = status /\ effect'[e].error = error
            /\ effect'[e].id = IF id = None THEN effect[e].id ELSE id
            /\ effect'[e].preparedAt = effect[e].preparedAt
            /\ effect'[e].recoveryAfter = effect[e].recoveryAfter
            /\ journal'[e] = Append(journal[e],
                 [phase |-> status, id |-> effect'[e].id, answer |-> effect'[e].answer, error |-> error])
<1>. DEFINE new == Journal!After(e, status, id, answer, error)
            entry == [phase |-> status, id |-> new.id, answer |-> new.answer, error |-> error]
<1>1. effect[e] \in Journal!Rows /\ journal[e] \in Seq(Journal!Entries)
  BY DEF Journal!TypeOK
<1>2. /\ new \in Journal!Rows /\ new.status = status /\ new.error = error
      /\ new.id = (IF id = None THEN effect[e].id ELSE id)
      /\ new.preparedAt = effect[e].preparedAt /\ new.recoveryAfter = effect[e].recoveryAfter
  BY <1>1 DEF Journal!After, Journal!Given, Journal!Rows, Journal!Statuses
<1>3. entry \in Journal!Entries
  BY <1>2 DEF Journal!Entries, Journal!Rows, Journal!Statuses
<1>. HIDE DEF new
<1>4. ASSUME status \in Journal!Allowed(effect[e].status), status # effect[e].status
      PROVE  /\ effect' = [effect EXCEPT ![e] = new]
             /\ journal' = [journal EXCEPT ![e] = Append(@, entry)]
  BY <1>4 DEF Journal!Transition, new
<1>5. ASSUME ~(status \in Journal!Allowed(effect[e].status) /\ status # effect[e].status)
      PROVE  UNCHANGED <<effect, journal>>
  BY <1>5 DEF Journal!Transition
<1>. HIDE DEF entry
<1>6. ASSUME status \in Journal!Allowed(effect[e].status), status # effect[e].status
      PROVE  /\ effect' \in [EffectKeys -> Journal!Rows] /\ journal' \in [EffectKeys -> Seq(Journal!Entries)]
             /\ \A d \in EffectKeys \ {e} : effect'[d] = effect[d] /\ journal'[d] = journal[d]
             /\ effect'[e] = new /\ journal'[e] = Append(journal[e], entry)
  <2>1. Append(journal[e], entry) \in Seq(Journal!Entries)
    BY <1>1, <1>3
  <2>. QED BY <1>2, <1>4, <1>6, <2>1 DEF Journal!TypeOK
<1>. QED BY <1>2, <1>5, <1>6 DEF entry
\* A prepared effect stays prepared or later, and its times do not move.
EffectsPersist ==
  \A e \in EffectKeys : effect[e].status # "NONE" =>
    /\ effect'[e].status # "NONE"
    /\ effect'[e].preparedAt = effect[e].preparedAt
    /\ effect'[e].recoveryAfter = effect[e].recoveryAfter

\* The invariant's parts that are about rows and their journals.
RowsInv ==
  /\ Journal!JournalIsTrue /\ NamedIsThere /\ RecoveryComesLater /\ ReconciledWasDue
  /\ FreshHasNoEvents

\* What a row and its journal need to be.
RowTypes ==
  /\ effect \in [EffectKeys -> Journal!Rows]
  /\ \A e \in EffectKeys : /\ effect[e].error <=> effect[e].status = "FAILED"
                           /\ effect[e].status = "CONFIRMED" => effect[e].id # None
  /\ journal \in [EffectKeys -> Seq(Journal!Entries)]

\* _transition keeps row and journal together when it is called with what the venue
\* said: an order that is there, and for a reconciliation, the answer about an
\* effect that is due.
LEMMA TransitionKeepsRows ==
  ASSUME JournalInv, NEW e \in EffectKeys, NEW status \in {"CONFIRMED", "RECONCILED", "FAILED"},
         NEW id \in Senders \cup {None}, NEW answer \in Answers \cup {None}, NEW error \in BOOLEAN,
         Journal!Transition(e, status, id, answer, error),
         UNCHANGED <<now, venue, flying>>,
         \A s \in Senders : sender'[s] = "created" => sender[s] = "created",
         error <=> status = "FAILED", status = "CONFIRMED" => id # None,
         id # None => id \in venue[e],
         status = "RECONCILED" => Due(e) /\ venue[e] = IF id = None THEN {} ELSE {id}
  PROVE  RowTypes' /\ EffectsPersist /\ RowsInv'
<1>. USE JournalFacts
<1>1. CASE UNCHANGED <<effect, journal>>
  <2>1. RowTypes' /\ EffectsPersist
    BY <1>1 DEF RowTypes, EffectsPersist, JournalInv, Journal!TypeOK
  <2>2. NamedIsThere' /\ RecoveryComesLater' /\ ReconciledWasDue' /\ FreshHasNoEvents'
    BY <1>1 DEF NamedIsThere, RecoveryComesLater, ReconciledWasDue, FreshHasNoEvents, Due, JournalInv
  <2>3. Journal!RowIsJournalHead'
    BY <1>1 DEF Journal!RowIsJournalHead, Journal!JournalIsTrue, JournalInv
  <2>4. Journal!ReconciledIsTrue'
    BY <1>1 DEF Journal!ReconciledIsTrue, Journal!JournalIsTrue, Journal!InTime, JournalInv
  <2>. QED BY <2>1, <2>2, <2>3, <2>4 DEF RowsInv, Journal!JournalIsTrue
<1>2. CASE ~UNCHANGED <<effect, journal>>
  <2>1. /\ status \in Journal!Allowed(effect[e].status) \ {effect[e].status}
        /\ effect' \in [EffectKeys -> Journal!Rows] /\ journal' \in [EffectKeys -> Seq(Journal!Entries)]
        /\ \A d \in EffectKeys \ {e} : effect'[d] = effect[d] /\ journal'[d] = journal[d]
        /\ effect'[e].status = status /\ effect'[e].error = error
        /\ effect'[e].id = IF id = None THEN effect[e].id ELSE id
        /\ effect'[e].preparedAt = effect[e].preparedAt
        /\ effect'[e].recoveryAfter = effect[e].recoveryAfter
        /\ journal'[e] = Append(journal[e],
             [phase |-> status, id |-> effect'[e].id, answer |-> effect'[e].answer, error |-> error])
    BY <1>2, TransitionFacts DEF JournalInv
  <2>2. effect[e].status # "NONE" /\ effect[e].status # "RECONCILED"
    BY <2>1 DEF Journal!Allowed
  <2>. DEFINE Kept(d) == effect'[d] = effect[d] /\ journal'[d] = journal[d]
  <2>a. \A d \in EffectKeys : d = e \/ Kept(d)
    BY <2>1
  <2>3. RowTypes' /\ EffectsPersist
    <3>1. effect' \in [EffectKeys -> Journal!Rows] /\ journal' \in [EffectKeys -> Seq(Journal!Entries)]
      BY <2>1
    <3>2. ASSUME NEW d \in EffectKeys
          PROVE  /\ effect'[d].error <=> effect'[d].status = "FAILED"
                 /\ effect'[d].status = "CONFIRMED" => effect'[d].id # None
                 /\ effect[d].status # "NONE" =>
                      /\ effect'[d].status # "NONE"
                      /\ effect'[d].preparedAt = effect[d].preparedAt
                      /\ effect'[d].recoveryAfter = effect[d].recoveryAfter
      <4>1. CASE d = e
        <5>1. /\ effect'[e].status = status /\ effect'[e].error = error
              /\ effect'[e].id = IF id = None THEN effect[e].id ELSE id
              /\ effect'[e].preparedAt = effect[e].preparedAt
              /\ effect'[e].recoveryAfter = effect[e].recoveryAfter
          BY <2>1
        <5>. QED BY <4>1, <5>1
      <4>2. CASE Kept(d)
        BY <4>2 DEF JournalInv, Journal!TypeOK
      <4>. QED BY <2>a, <4>1, <4>2
    <3>. QED BY <3>1, <3>2 DEF RowTypes, EffectsPersist
  <2>4. NamedIsThere'
    BY <2>1 DEF NamedIsThere, JournalInv
  <2>5. RecoveryComesLater' /\ ReconciledWasDue'
    <3>1. ASSUME NEW d \in EffectKeys
          PROVE  /\ effect'[d].status # "NONE" =>
                      effect'[d].recoveryAfter = effect'[d].preparedAt + RecoveryDelay
                 /\ effect'[d].status = "RECONCILED" => Due(d)'
      <4>1. CASE d = e
        <5>1. /\ effect'[e].status = status
              /\ effect'[e].preparedAt = effect[e].preparedAt
              /\ effect'[e].recoveryAfter = effect[e].recoveryAfter
          BY <2>1
        <5>2. effect[e].recoveryAfter = effect[e].preparedAt + RecoveryDelay
          BY <2>2 DEF RecoveryComesLater, JournalInv
        <5>. QED BY <4>1, <5>1, <5>2 DEF Due
      <4>2. CASE Kept(d)
        BY <4>2 DEF RecoveryComesLater, ReconciledWasDue, Due, JournalInv
      <4>. QED BY <2>a, <4>1, <4>2
    <3>. QED BY <3>1 DEF RecoveryComesLater, ReconciledWasDue
  <2>6. journal[e] \in Seq(Journal!Entries) /\ journal[e] # <<>>
    BY <2>2 DEF JournalInv, Journal!TypeOK, FreshHasNoEvents
  <2>7. FreshHasNoEvents'
    <3>0. PICK entry : journal'[e] = Append(journal[e], entry)
      BY <2>1, Zenon
    <3>1. effect'[e].status # "NONE" /\ journal'[e] # <<>>
      <4>1. Append(journal[e], entry) # <<>>
        BY <2>6
      <4>2. effect'[e].status = status
        BY <2>1, Zenon
      <4>. QED BY <3>0, <4>1, <4>2
    <3>2. \A d \in EffectKeys : Kept(d) => (effect'[d].status = "NONE" <=> journal'[d] = <<>>)
      BY DEF FreshHasNoEvents, JournalInv
    <3>. QED BY <2>a, <3>1, <3>2 DEF FreshHasNoEvents
  <2>8. Journal!RowIsJournalHead'
    <3>. SUFFICES ASSUME NEW d \in EffectKeys, effect'[d].status # "NONE"
         PROVE  LET j == journal'[d]
                    head == j[Len(j)]
                IN  /\ j[1].phase = "PREPARED"
                    /\ head = [phase |-> effect'[d].status, id |-> effect'[d].id,
                               answer |-> effect'[d].answer, error |-> effect'[d].error]
                    /\ \A i \in 2..Len(j) :
                         j[i].phase \in Journal!Allowed(j[i - 1].phase) \ {j[i - 1].phase}
      BY DEF Journal!RowIsJournalHead
    <3>1. CASE d # e
      <4>1. effect'[d] = effect[d] /\ journal'[d] = journal[d]
        BY <2>a, <3>1
      <4>2. Journal!RowIsJournalHead
        BY DEF Journal!JournalIsTrue, JournalInv
      <4>. QED BY <4>1, <4>2, Zenon DEF Journal!RowIsJournalHead
    <3>2. CASE d = e
      <4>. DEFINE j == journal[e]
                  entry == [phase |-> status, id |-> effect'[e].id, answer |-> effect'[e].answer,
                            error |-> error]
      <4>1. /\ j[1].phase = "PREPARED" /\ j[Len(j)].phase = effect[e].status
            /\ \A i \in 2..Len(j) : j[i].phase \in Journal!Allowed(j[i - 1].phase) \ {j[i - 1].phase}
        <5>1. Journal!RowIsJournalHead
          BY DEF Journal!JournalIsTrue, JournalInv
        <5>2. j[Len(j)] = [phase |-> effect[e].status, id |-> effect[e].id,
                           answer |-> effect[e].answer, error |-> effect[e].error]
          BY <2>2, <5>1, Zenon DEF Journal!RowIsJournalHead
        <5>3. j[Len(j)].phase = effect[e].status
          BY <5>2
        <5>4. j[1].phase = "PREPARED"
          BY <2>2, <5>1, Zenon DEF Journal!RowIsJournalHead
        <5>5. \A i \in 2..Len(j) : j[i].phase \in Journal!Allowed(j[i - 1].phase) \ {j[i - 1].phase}
          BY <2>2, <5>1, Zenon DEF Journal!RowIsJournalHead
        <5>. QED BY <5>3, <5>4, <5>5
      <4>2. journal'[e] = Append(j, entry) /\ entry.phase = status
        BY <2>1
      <4>3. j \in Seq(Journal!Entries) /\ Len(j) \in Nat /\ Len(j) > 0
        BY <2>6
      <4>4. entry = [phase |-> effect'[d].status, id |-> effect'[d].id,
                     answer |-> effect'[d].answer, error |-> effect'[d].error]
        BY <2>1, <3>2
      <4>. HIDE DEF j, entry
      <4>5. /\ Len(journal'[e]) = Len(j) + 1 /\ journal'[e][Len(j) + 1] = entry
            /\ \A i \in 1..Len(j) : journal'[e][i] = j[i]
        BY <4>2, <4>3
      <4>6. \A i \in 2..(Len(j) + 1) : journal'[e][i].phase \in
              Journal!Allowed(journal'[e][i - 1].phase) \ {journal'[e][i - 1].phase}
        <5>. SUFFICES ASSUME NEW i \in 2..(Len(j) + 1)
             PROVE  journal'[e][i].phase \in
                      Journal!Allowed(journal'[e][i - 1].phase) \ {journal'[e][i - 1].phase}
          OBVIOUS
        <5>1. CASE i \in 2..Len(j)
          <6>1. i - 1 \in 1..Len(j) /\ i \in 1..Len(j)
            BY <4>3, <5>1
          <6>. QED BY <4>1, <4>5, <5>1, <6>1
        <5>2. CASE i = Len(j) + 1
          <6>1. i - 1 = Len(j) /\ Len(j) \in 1..Len(j)
            BY <4>3, <5>2
          <6>2. journal'[e][i].phase = status /\ journal'[e][i - 1] = j[Len(j)]
            BY <4>2, <4>5, <5>2, <6>1
          <6>3. status \in Journal!Allowed(effect[e].status) \ {effect[e].status}
            BY <2>1
          <6>. QED BY <4>1, <6>2, <6>3
        <5>. QED BY <4>3, <5>1, <5>2
      <4>7. 1 \in 1..Len(j)
        BY <4>3
      <4>. QED BY <3>2, <4>1, <4>4, <4>5, <4>6, <4>7
    <3>. QED BY <3>1, <3>2
  <2>9. Journal!ReconciledIsTrue'
    <3>. SUFFICES ASSUME NEW d \in EffectKeys, effect'[d].status = "RECONCILED"
         PROVE  /\ venue'[d] = IF effect'[d].id = None THEN {} ELSE {effect'[d].id}
                /\ \A s \in flying' : KeyOf[s] = d => ~Journal!InTime(s)'
                /\ \A s \in Senders : KeyOf[s] = d /\ sender'[s] = "created" => ~Journal!InTime(s)'
      BY DEF Journal!ReconciledIsTrue
    <3>1. CASE d # e
      <4>1. effect'[d] = effect[d]
        BY <2>a, <3>1
      <4>2. Journal!ReconciledIsTrue
        BY DEF Journal!JournalIsTrue, JournalInv
      <4>. QED BY <4>1, <4>2 DEF Journal!ReconciledIsTrue, Journal!InTime
    <3>2. CASE d = e
      <4>1. status = "RECONCILED" /\ Due(e) /\ venue[e] = IF id = None THEN {} ELSE {id}
        BY <2>1, <3>2
      <4>2. venue[e] = IF effect'[e].id = None THEN {} ELSE {effect'[e].id}
        BY <2>1, <4>1 DEF NamedIsThere, JournalInv
      <4>3. now \in Nat /\ effect[e].preparedAt \in Nat
            /\ effect[e].recoveryAfter = effect[e].preparedAt + RecoveryDelay
        BY <2>2 DEF JournalInv, Journal!TypeOK, Journal!Rows, RecoveryComesLater
      <4>4. ~(now <= effect'[e].preparedAt + CallBound)
        BY <2>1, <4>1, <4>3 DEF Due
      <4>. QED BY <3>2, <4>2, <4>4 DEF Journal!InTime
    <3>. QED BY <3>1, <3>2
  <2>. QED BY <2>3, <2>4, <2>5, <2>7, <2>8, <2>9 DEF RowsInv, Journal!JournalIsTrue
<1>. QED BY <1>1, <1>2

\* Nothing reaches the venue for an effect that is due.
LEMMA DueIsLate ==
  ASSUME JournalInv, NEW s \in Senders, Due(KeyOf[s])
  PROVE  ~Journal!InTime(s)
<1>. USE JournalFacts
<1>1. KeyOf[s] \in EffectKeys
  OBVIOUS
<1>2. now \in Nat /\ effect[KeyOf[s]].preparedAt \in Nat
      /\ effect[KeyOf[s]].recoveryAfter = effect[KeyOf[s]].preparedAt + RecoveryDelay
  BY <1>1 DEF JournalInv, Journal!TypeOK, Journal!Rows, RecoveryComesLater, Due
<1>3. effect[KeyOf[s]].recoveryAfter <= now
  BY DEF Due
<1>. QED BY <1>2, <1>3 DEF Journal!InTime

\* Steps that leave row and journal alone: time passes, requests leave and land in
\* time, recoverers move.
LEMMA RowsStay ==
  ASSUME JournalInv, UNCHANGED <<effect, journal>>, now' \in Nat, now <= now',
         \A e \in EffectKeys : venue[e] \subseteq venue'[e],
         \A e \in EffectKeys : venue'[e] # venue[e] =>
           \E s \in flying : KeyOf[s] = e /\ Journal!InTime(s),
         \A s \in flying' : s \in flying \/ (s \in Senders /\ sender[s] = "created"),
         \A s \in Senders : sender'[s] = "created" => sender[s] = "created"
  PROVE  RowTypes' /\ EffectsPersist /\ RowsInv'
<1>. USE JournalFacts
<1>0. now \in Nat /\ \A e \in EffectKeys : effect[e].preparedAt \in Nat /\ effect[e].recoveryAfter \in Nat
  BY DEF JournalInv, Journal!TypeOK, Journal!Rows
<1>1. RowTypes' /\ EffectsPersist
  BY DEF RowTypes, EffectsPersist, JournalInv, Journal!TypeOK
<1>2. NamedIsThere' /\ RecoveryComesLater' /\ FreshHasNoEvents'
  BY DEF NamedIsThere, RecoveryComesLater, FreshHasNoEvents, JournalInv
<1>3. ReconciledWasDue'
  BY <1>0 DEF ReconciledWasDue, Due, JournalInv
<1>4. Journal!RowIsJournalHead'
  BY DEF Journal!RowIsJournalHead, Journal!JournalIsTrue, JournalInv
<1>5. Journal!ReconciledIsTrue'
  <2>. SUFFICES ASSUME NEW d \in EffectKeys, effect[d].status = "RECONCILED"
       PROVE  /\ venue'[d] = IF effect[d].id = None THEN {} ELSE {effect[d].id}
              /\ \A s \in flying' : KeyOf[s] = d => ~Journal!InTime(s)'
              /\ \A s \in Senders : KeyOf[s] = d /\ sender'[s] = "created" => ~Journal!InTime(s)'
    BY DEF Journal!ReconciledIsTrue
  <2>1. /\ venue[d] = IF effect[d].id = None THEN {} ELSE {effect[d].id}
        /\ \A s \in flying : KeyOf[s] = d => ~Journal!InTime(s)
        /\ \A s \in Senders : KeyOf[s] = d /\ sender[s] = "created" => ~Journal!InTime(s)
    BY DEF Journal!ReconciledIsTrue, Journal!JournalIsTrue, JournalInv
  <2>2. venue'[d] = venue[d]
    BY <2>1
  <2>3. \A s \in Senders : ~Journal!InTime(s) => ~Journal!InTime(s)'
    BY <1>0 DEF Journal!InTime
  <2>4. flying \subseteq Senders
    BY DEF JournalInv, Journal!TypeOK
  <2>. QED BY <2>1, <2>2, <2>3, <2>4
<1>. QED BY <1>1, <1>2, <1>3, <1>4, <1>5 DEF RowsInv, Journal!JournalIsTrue

\* No step but an insert puts a task in play.
LEMMA InPlayStays ==
  ASSUME JournalInv, EffectsPersist, \A s \in Senders : InPlay(s)' => InPlay(s)
  PROVE  OneInPlay'
  BY JournalFacts DEF JournalInv, OneInPlay, EffectsPersist

\* While the venue keeps what a due effect has there, an answer stays true for
\* every recoverer that does not move.
LEMMA AnswersStay ==
  ASSUME JournalInv, EffectsPersist, now' \in Nat, now <= now',
         \A e \in EffectKeys : Due(e) => venue'[e] = venue[e],
         NEW r \in Tasks, rec'[r] = rec[r], rec[r].at # "idle"
  PROVE  /\ Due(rec[r].effect)'
         /\ rec'[r].at = "asked" =>
              venue'[rec'[r].effect] = IF rec'[r].id = None THEN {} ELSE {rec'[r].id}
<1>1. rec[r].effect \in EffectKeys
  BY DEF JournalInv, Journal!TypeOK, Journal!RecStates, Journal!Idle
<1>2. /\ Due(rec[r].effect)
      /\ rec[r].at = "asked" =>
           venue[rec[r].effect] = IF rec[r].id = None THEN {} ELSE {rec[r].id}
  BY DEF JournalInv, AnswerIsCurrent
<1>3. now \in Nat /\ effect[rec[r].effect].recoveryAfter \in Nat
  BY <1>1, JournalFacts DEF JournalInv, Journal!TypeOK, Journal!Rows
<1>4. Due(rec[r].effect)'
  BY <1>1, <1>2, <1>3 DEF Due, EffectsPersist
<1>. QED BY <1>1, <1>2, <1>4

\* The same when no recoverer moves.
LEMMA AllAnswersStay ==
  ASSUME JournalInv, EffectsPersist, now' \in Nat, now <= now',
         \A e \in EffectKeys : Due(e) => venue'[e] = venue[e], UNCHANGED rec
  PROVE  AnswerIsCurrent'
<1>1. \A r \in Tasks : rec'[r] = rec[r]
  OBVIOUS
<1>2. ASSUME NEW r \in Tasks, rec'[r].at # "idle"
      PROVE  /\ Due(rec[r].effect)'
             /\ rec'[r].at = "asked" =>
                  venue'[rec'[r].effect] = IF rec'[r].id = None THEN {} ELSE {rec'[r].id}
  BY <1>1, <1>2, AnswersStay
<1>. QED BY <1>2 DEF AnswerIsCurrent

\* The types of what is not a row.
RestTypes ==
  /\ now \in 0..JournalTime
  /\ sender \in [Senders -> {"new", "created", "waiting", "ended"}]
  /\ venue \in [EffectKeys -> SUBSET Senders] /\ flying \subseteq Senders
  /\ rec \in [Tasks -> Journal!RecStates] /\ held \in [EffectKeys -> Tasks \cup {None}]
  /\ faults \in 0..MaxFaults

\* The parts make up the invariant.
LEMMA JournalParts ==
  (RowTypes /\ RestTypes /\ RowsInv /\ OneInPlay /\ OrdersUnderKey /\ AnswerIsCurrent)
    <=> JournalInv
  BY DEF JournalInv, RowTypes, RestTypes, RowsInv, Journal!TypeOK

\* The parts of JournalInv, primed one by one: a step that establishes each establishes the whole.
LEMMA JournalPartsPrime ==
  (RowTypes' /\ RestTypes' /\ RowsInv' /\ OneInPlay' /\ OrdersUnderKey' /\ AnswerIsCurrent')
    => JournalInv'
  BY DEF JournalInv, RowTypes, RestTypes, RowsInv, Journal!TypeOK

\* Time, requests on their way, and executors that die.
LEMMA CallStep ==
  ASSUME JournalInv, Journal!Tick \/ \E s \in Senders : Journal!Send(s) \/ Journal!Land(s) \/ Journal!Die(s)
  PROVE  JournalInv'
<1>. USE JournalFacts
<1>0. RestTypes /\ flying \subseteq Senders /\ now \in Nat
  BY JournalParts DEF RestTypes
<1>1. CASE Journal!Tick
  <2>1. /\ now' \in Nat /\ now <= now' /\ now' \in 0..JournalTime
        /\ UNCHANGED <<effect, journal, sender, venue, flying, rec, held, faults>>
    BY <1>0, <1>1 DEF Journal!Tick
  <2>2. RowTypes' /\ EffectsPersist /\ RowsInv'
    BY <2>1, RowsStay
  <2>3. OneInPlay' /\ OrdersUnderKey'
    BY <2>1, <2>2, InPlayStays DEF InPlay, OrdersUnderKey, JournalInv
  <2>4. AnswerIsCurrent'
    BY <2>1, <2>2, AllAnswersStay
  <2>5. RestTypes'
    BY <1>0, <2>1 DEF RestTypes
  <2>. QED BY <2>2, <2>3, <2>4, <2>5, JournalPartsPrime
<1>2. ASSUME NEW s \in Senders, Journal!Send(s) PROVE JournalInv'
  <2>1. /\ sender[s] = "created" /\ sender' = [sender EXCEPT ![s] = "waiting"]
        /\ flying' = flying \cup {s}
        /\ UNCHANGED <<now, effect, journal, venue, rec, held, faults>>
    BY <1>2 DEF Journal!Send
  <2>2. \A t \in Senders : sender'[t] = IF t = s THEN "waiting" ELSE sender[t]
    BY <1>0, <2>1 DEF RestTypes
  <2>3. RowTypes' /\ EffectsPersist /\ RowsInv'
    BY <1>0, <2>1, <2>2, RowsStay
  <2>4. OneInPlay' /\ OrdersUnderKey'
    BY <2>1, <2>2, <2>3, InPlayStays DEF InPlay, OrdersUnderKey, JournalInv
  <2>5. AnswerIsCurrent'
    BY <1>0, <2>1, <2>3, AllAnswersStay
  <2>6. RestTypes'
    BY <1>0, <2>1 DEF RestTypes
  <2>. QED BY <2>3, <2>4, <2>5, <2>6, JournalPartsPrime
<1>3. ASSUME NEW s \in Senders, Journal!Land(s) PROVE JournalInv'
  <2>1. /\ s \in flying /\ Journal!InTime(s) /\ flying' = flying \ {s}
        /\ venue' = [venue EXCEPT ![KeyOf[s]] = @ \cup {s}]
        /\ UNCHANGED <<now, effect, journal, sender, rec, held, faults>>
    BY <1>3 DEF Journal!Land
  <2>2. \A e \in EffectKeys : venue'[e] = IF e = KeyOf[s] THEN venue[e] \cup {s} ELSE venue[e]
    BY <1>0, <2>1 DEF RestTypes
  <2>3. RowTypes' /\ EffectsPersist /\ RowsInv'
    BY <1>0, <2>1, <2>2, RowsStay
  <2>4. OneInPlay' /\ OrdersUnderKey'
    BY <2>1, <2>2, <2>3, InPlayStays DEF InPlay, OrdersUnderKey, JournalInv
  <2>5. \A e \in EffectKeys : Due(e) => venue'[e] = venue[e]
    BY <2>1, <2>2, DueIsLate
  <2>6. AnswerIsCurrent'
    BY <1>0, <2>1, <2>3, <2>5, AllAnswersStay
  <2>7. RestTypes'
    BY <1>0, <2>1 DEF RestTypes
  <2>. QED BY <2>3, <2>4, <2>6, <2>7, JournalPartsPrime
<1>4. ASSUME NEW s \in Senders, Journal!Die(s) PROVE JournalInv'
  <2>1. /\ sender' = [sender EXCEPT ![s] = "ended"]
        /\ UNCHANGED <<now, effect, journal, venue, flying, rec, held, faults>>
    BY <1>4 DEF Journal!Die
  <2>2. \A t \in Senders : sender'[t] = IF t = s THEN "ended" ELSE sender[t]
    BY <1>0, <2>1 DEF RestTypes
  <2>3. RowTypes' /\ EffectsPersist /\ RowsInv'
    BY <1>0, <2>1, <2>2, RowsStay
  <2>4. OneInPlay' /\ OrdersUnderKey'
    BY <2>1, <2>2, <2>3, InPlayStays DEF InPlay, OrdersUnderKey, JournalInv
  <2>5. AnswerIsCurrent'
    BY <1>0, <2>1, <2>3, AllAnswersStay
  <2>6. RestTypes'
    BY <1>0, <2>1 DEF RestTypes
  <2>. QED BY <2>3, <2>4, <2>5, <2>6, JournalPartsPrime
<1>. QED BY <1>1, <1>2, <1>3, <1>4

\* A task that confirms or fails names only an order that is there.
LEMMA AnswerStep ==
  ASSUME JournalInv, NEW s \in Senders,
         Journal!Fail(s) \/ \E a \in Answers : Journal!Confirm(s, a)
  PROVE  JournalInv'
<1>. USE JournalFacts
<1>0. RestTypes /\ now \in Nat /\ KeyOf[s] \in EffectKeys
  BY JournalParts DEF RestTypes
<1>1. /\ sender' = [sender EXCEPT ![s] = "ended"]
      /\ UNCHANGED <<now, venue, flying, rec, held, faults>>
  BY DEF Journal!Fail, Journal!Confirm
<1>2. \A t \in Senders : sender'[t] = IF t = s THEN "ended" ELSE sender[t]
  BY <1>0, <1>1 DEF RestTypes
<1>a. \A t \in Senders : sender'[t] = "created" => sender[t] = "created"
  BY <1>2
<1>3. RowTypes' /\ EffectsPersist /\ RowsInv'
  <2>1. CASE Journal!Fail(s)
    <3>1. Journal!Transition(KeyOf[s], "FAILED", None, None, TRUE)
      BY <2>1 DEF Journal!Fail
    <3>2. TRUE <=> "FAILED" = "FAILED"
      OBVIOUS
    <3>3. "FAILED" # "CONFIRMED" /\ "FAILED" # "RECONCILED"
      OBVIOUS
    <3>. QED BY <1>0, <1>1, <1>a, <3>1, <3>2, <3>3, TransitionKeepsRows, Zenon
  <2>2. ASSUME NEW a \in Answers, Journal!Confirm(s, a)
        PROVE  RowTypes' /\ EffectsPersist /\ RowsInv'
    <3>1. Journal!Transition(KeyOf[s], "CONFIRMED", s, a, FALSE) /\ s \in venue[KeyOf[s]]
      BY <2>2 DEF Journal!Confirm
    <3>2. s # None
      OBVIOUS
    <3>3. FALSE <=> "CONFIRMED" = "FAILED"
      OBVIOUS
    <3>4. "CONFIRMED" # "RECONCILED"
      OBVIOUS
    <3>. QED BY <1>0, <1>1, <1>a, <3>1, <3>2, <3>3, <3>4, TransitionKeepsRows, Zenon
  <2>. QED BY <2>1, <2>2
<1>4. OneInPlay' /\ OrdersUnderKey'
  BY <1>1, <1>2, <1>3, InPlayStays DEF InPlay, OrdersUnderKey, JournalInv
<1>5. AnswerIsCurrent'
  BY <1>0, <1>1, <1>3, AllAnswersStay
<1>6. RestTypes'
  BY <1>0, <1>1 DEF RestTypes
<1>. QED BY <1>3, <1>4, <1>5, <1>6, JournalPartsPrime

\* A row is inserted for an effect that had none, so that no task is in play for
\* it: its caller becomes the only one.
LEMMA InsertStep ==
  ASSUME JournalInv, NEW s \in Senders, Journal!Inserts(s), Journal!InsertEffect(s),
         sender' \in {sender, [sender EXCEPT ![s] = "created"]}, now + RecoveryDelay <= JournalTime,
         UNCHANGED <<now, venue, flying, rec, held, faults>>
  PROVE  JournalInv'
<1>. USE JournalFacts
<1>. DEFINE e == KeyOf[s]
            new == Journal!Prepared(s)
            entry == Journal!PreparedEntry
<1>0. RestTypes /\ RowTypes /\ now \in Nat /\ e \in EffectKeys /\ effect[e].status = "NONE"
  BY JournalParts DEF RestTypes, Journal!Inserts
<1>1. /\ new \in Journal!Rows /\ new.status = "PREPARED" /\ new.id = None /\ new.error = FALSE
      /\ new.preparedAt = now /\ new.recoveryAfter = now + RecoveryDelay /\ new.answer = None
  <2>1. now \in 0..JournalTime /\ now + RecoveryDelay \in 0..(JournalTime + RecoveryDelay)
    BY <1>0 DEF RestTypes
  <2>2. new = [status |-> "PREPARED", content |-> ContentOf[s], id |-> None, answer |-> None,
               error |-> FALSE, preparedAt |-> now, recoveryAfter |-> now + RecoveryDelay]
    BY DEF Journal!Prepared
  <2>3. ContentOf[s] \in {ContentOf[t] : t \in Senders}
    OBVIOUS
  <2>. QED BY <2>1, <2>2, <2>3 DEF Journal!Rows, Journal!Statuses
<1>2. entry \in Journal!Entries
  BY DEF Journal!PreparedEntry, Journal!Entries, Journal!Statuses
<1>3. effect' = [effect EXCEPT ![e] = new] /\ journal' = [journal EXCEPT ![e] = Append(@, entry)]
  BY DEF Journal!InsertEffect
<1>4. journal[e] = <<>>
  BY <1>0 DEF JournalInv, FreshHasNoEvents
<1>. HIDE DEF e, new, entry
<1>5. Append(journal[e], entry) = <<entry>> /\ <<entry>> \in Seq(Journal!Entries)
  BY <1>2, <1>4
<1>6. /\ effect' \in [EffectKeys -> Journal!Rows] /\ effect'[e] = new
      /\ \A d \in EffectKeys : d # e => effect'[d] = effect[d]
  BY <1>0, <1>1, <1>3 DEF RowTypes
<1>7. /\ journal' \in [EffectKeys -> Seq(Journal!Entries)] /\ journal'[e] = <<entry>>
      /\ \A d \in EffectKeys : d # e => journal'[d] = journal[d]
  BY <1>0, <1>3, <1>5 DEF RowTypes
<1>8. RowTypes'
  <2>1. \A d \in EffectKeys : /\ effect'[d].error <=> effect'[d].status = "FAILED"
                              /\ effect'[d].status = "CONFIRMED" => effect'[d].id # None
    BY <1>0, <1>1, <1>6 DEF RowTypes
  <2>. QED BY <1>6, <1>7, <2>1 DEF RowTypes
<1>9. EffectsPersist
  BY <1>0, <1>6 DEF EffectsPersist
<1>10. NamedIsThere' /\ ReconciledWasDue'
  BY <1>1, <1>6 DEF NamedIsThere, ReconciledWasDue, Due, JournalInv
<1>11. RecoveryComesLater'
  BY <1>0, <1>1, <1>6 DEF RecoveryComesLater, JournalInv
<1>12. FreshHasNoEvents'
  <2>1. <<entry>> # <<>>
    OBVIOUS
  <2>2. effect'[e].status # "NONE" /\ journal'[e] # <<>>
    BY <1>1, <1>6, <1>7, <2>1
  <2>3. \A d \in EffectKeys \ {e} : effect'[d].status = "NONE" <=> journal'[d] = <<>>
    BY <1>6, <1>7 DEF FreshHasNoEvents, JournalInv
  <2>. QED BY <2>2, <2>3 DEF FreshHasNoEvents
<1>13. Journal!RowIsJournalHead'
  <2>. SUFFICES ASSUME NEW d \in EffectKeys, effect'[d].status # "NONE"
       PROVE  LET j == journal'[d]
                  head == j[Len(j)]
              IN  /\ j[1].phase = "PREPARED"
                  /\ head = [phase |-> effect'[d].status, id |-> effect'[d].id,
                             answer |-> effect'[d].answer, error |-> effect'[d].error]
                  /\ \A i \in 2..Len(j) :
                       j[i].phase \in Journal!Allowed(j[i - 1].phase) \ {j[i - 1].phase}
    BY DEF Journal!RowIsJournalHead
  <2>1. CASE d = e
    <3>1. entry = [phase |-> new.status, id |-> new.id, answer |-> new.answer, error |-> new.error]
      BY <1>1 DEF entry, Journal!PreparedEntry
    <3>2. journal'[d] = <<entry>> /\ entry.phase = "PREPARED" /\ effect'[d] = new
      BY <1>6, <1>7, <2>1 DEF entry, Journal!PreparedEntry
    <3>3. Len(<<entry>>) = 1 /\ <<entry>>[1] = entry /\ 2..1 = {}
      OBVIOUS
    <3>. QED BY <3>1, <3>2, <3>3
  <2>2. CASE d # e
    <3>1. effect'[d] = effect[d] /\ journal'[d] = journal[d]
      BY <1>6, <1>7, <2>2
    <3>2. Journal!RowIsJournalHead
      BY DEF Journal!JournalIsTrue, JournalInv
    <3>. QED BY <3>1, <3>2, Zenon DEF Journal!RowIsJournalHead
  <2>. QED BY <2>1, <2>2
<1>14. \A t \in Senders : sender'[t] = sender[t] \/ (t = s /\ sender'[t] = "created")
  BY <1>0 DEF RestTypes
<1>15. Journal!ReconciledIsTrue'
  <2>. SUFFICES ASSUME NEW d \in EffectKeys, effect'[d].status = "RECONCILED"
       PROVE  /\ venue'[d] = IF effect'[d].id = None THEN {} ELSE {effect'[d].id}
              /\ \A t \in flying' : KeyOf[t] = d => ~Journal!InTime(t)'
              /\ \A t \in Senders : KeyOf[t] = d /\ sender'[t] = "created" => ~Journal!InTime(t)'
    BY DEF Journal!ReconciledIsTrue
  <2>1. d # e /\ effect'[d] = effect[d]
    BY <1>1, <1>6
  <2>2. Journal!ReconciledIsTrue
    BY DEF Journal!JournalIsTrue, JournalInv
  <2>3. \A t \in Senders : KeyOf[t] = d => sender'[t] = sender[t]
    BY <1>14, <2>1 DEF e
  <2>. QED BY <2>1, <2>2, <2>3 DEF Journal!ReconciledIsTrue, Journal!InTime
<1>16. OneInPlay' /\ OrdersUnderKey'
  <2>1. \A t \in Senders : KeyOf[t] = e => ~InPlay(t)
    BY <1>0 DEF JournalInv, OneInPlay
  <2>2. \A t \in Senders : InPlay(t)' => InPlay(t) \/ t = s
    BY <1>14 DEF InPlay
  <2>3. \A t \in Senders : InPlay(t)' => effect'[KeyOf[t]].status # "NONE"
    <3>1. effect'[KeyOf[s]].status # "NONE"
      BY <1>1, <1>6 DEF e
    <3>2. \A t \in Senders : InPlay(t) => effect'[KeyOf[t]].status # "NONE"
      BY <1>9 DEF EffectsPersist, JournalInv, OneInPlay
    <3>. QED BY <2>2, <3>1, <3>2
  <2>4. \A t, u \in Senders : InPlay(t)' /\ InPlay(u)' /\ KeyOf[t] = KeyOf[u] => t = u
    BY <2>1, <2>2 DEF JournalInv, OneInPlay, e
  <2>5. OrdersUnderKey'
    BY DEF OrdersUnderKey, JournalInv
  <2>. QED BY <2>3, <2>4, <2>5 DEF OneInPlay
<1>17. AnswerIsCurrent'
  BY <1>0, <1>9, AllAnswersStay
<1>18. RestTypes'
  BY <1>0 DEF RestTypes
<1>19. RowsInv'
  BY <1>10, <1>11, <1>12, <1>13, <1>15 DEF RowsInv, Journal!JournalIsTrue
<1>. QED BY <1>8, <1>16, <1>17, <1>18, <1>19, JournalPartsPrime

\* prepare inserts, or returns what is there.
LEMMA PrepareStep ==
  ASSUME JournalInv, NEW s \in Senders, Journal!Prepare(s) \/ Journal!PrepareAnswerLost(s)
  PROVE  JournalInv'
<1>. USE JournalFacts
<1>0. RestTypes /\ now \in Nat
  BY JournalParts DEF RestTypes
<1>1. CASE Journal!PrepareAnswerLost(s)
  BY <1>1, InsertStep DEF Journal!PrepareAnswerLost, Journal!MayCall
<1>2. CASE Journal!Prepare(s) /\ Journal!Inserts(s)
  BY <1>2, InsertStep DEF Journal!Prepare, Journal!MayCall
<1>3. CASE Journal!Prepare(s) /\ ~Journal!Inserts(s)
  <2>1. /\ sender' = [sender EXCEPT ![s] = "ended"]
        /\ UNCHANGED <<now, effect, journal, venue, flying, rec, held, faults>>
    BY <1>3 DEF Journal!Prepare
  <2>2. \A t \in Senders : sender'[t] = IF t = s THEN "ended" ELSE sender[t]
    BY <1>0, <2>1 DEF RestTypes
  <2>3. RowTypes' /\ EffectsPersist /\ RowsInv'
    BY <1>0, <2>1, <2>2, RowsStay
  <2>4. OneInPlay' /\ OrdersUnderKey'
    BY <2>1, <2>2, <2>3, InPlayStays DEF InPlay, OrdersUnderKey, JournalInv
  <2>5. AnswerIsCurrent'
    BY <1>0, <2>1, <2>3, AllAnswersStay
  <2>6. RestTypes'
    BY <1>0, <2>1 DEF RestTypes
  <2>. QED BY <2>3, <2>4, <2>5, <2>6, JournalPartsPrime
<1>. QED BY <1>1, <1>2, <1>3

\* Recoverers.
LEMMA RecovererMoves ==
  ASSUME JournalInv, NEW r \in Tasks, UNCHANGED <<now, effect, journal, sender, venue, flying>>,
         rec' \in [Tasks -> Journal!RecStates], \A q \in Tasks : q # r => rec'[q] = rec[q],
         held' \in [EffectKeys -> Tasks \cup {None}], faults' \in 0..MaxFaults,
         rec'[r].at # "idle" =>
           /\ Due(rec'[r].effect)
           /\ rec'[r].at = "asked" =>
                venue[rec'[r].effect] = IF rec'[r].id = None THEN {} ELSE {rec'[r].id}
  PROVE  JournalInv'
<1>. USE JournalFacts
<1>0. RestTypes /\ now \in Nat
  BY JournalParts DEF RestTypes
<1>1. RowTypes' /\ EffectsPersist /\ RowsInv'
  BY <1>0, RowsStay
<1>2. OneInPlay' /\ OrdersUnderKey'
  BY <1>1, InPlayStays DEF InPlay, OrdersUnderKey, JournalInv
<1>3. \A e : Due(e)' <=> Due(e)
  BY DEF Due
<1>4. \A q \in Tasks : rec'[q].at # "idle" =>
        /\ Due(rec'[q].effect)
        /\ rec'[q].at = "asked" =>
             venue'[rec'[q].effect] = IF rec'[q].id = None THEN {} ELSE {rec'[q].id}
  BY DEF AnswerIsCurrent, JournalInv
<1>5. AnswerIsCurrent'
  BY <1>4 DEF AnswerIsCurrent, Due
<1>6. RestTypes'
  BY <1>0 DEF RestTypes
<1>. QED BY <1>1, <1>2, <1>5, <1>6, JournalPartsPrime

\* The order of an effect that is due is the only one the venue can name.
LEMMA OneNamed ==
  ASSUME JournalInv, NEW e \in EffectKeys, NEW s \in venue[e]
  PROVE  venue[e] = {s}
<1>1. \A t \in venue[e] : t \in Senders /\ KeyOf[t] = e /\ InPlay(t)
  BY DEF JournalInv, Journal!TypeOK, OrdersUnderKey, InPlay
<1>. QED BY <1>1 DEF JournalInv, OneInPlay

\* recover(): whatever a recoverer learns of the venue, JournalInv survives it.
LEMMA RecoverStep ==
  ASSUME JournalInv, NEW r \in Tasks,
         Journal!Recover(r) \/ Journal!RecovererDies(r) \/ Journal!LoseLock(r)
  PROVE  JournalInv'
<1>. USE JournalFacts
<1>0. RestTypes /\ now \in Nat /\ rec \in [Tasks -> Journal!RecStates] /\ faults \in Nat
  BY JournalParts DEF RestTypes
<1>u. Journal!Unlocked(r) \in [EffectKeys -> Tasks \cup {None}]
  BY JournalParts DEF RestTypes, Journal!Unlocked
<1>i. Journal!Idle \in Journal!RecStates /\ Journal!Idle.at = "idle"
  BY DEF Journal!Idle, Journal!RecStates
<1>w. rec[r].at # "idle" =>
        /\ rec[r].effect \in EffectKeys /\ Due(rec[r].effect)
        /\ rec[r].at = "asked" =>
             venue[rec[r].effect] = IF rec[r].id = None THEN {} ELSE {rec[r].id}
  <2>1. rec[r].at # "idle" => rec[r].effect \in EffectKeys
    BY <1>0 DEF Journal!RecStates, Journal!Idle
  <2>. QED BY <2>1 DEF JournalInv, AnswerIsCurrent
<1>1. ASSUME NEW e \in EffectKeys, Journal!List(r, e) PROVE JournalInv'
  <2>. DEFINE new == [Journal!Idle EXCEPT !.at = "listed", !.effect = e]
  <2>1. /\ Journal!RecoveryRequired(e) /\ rec' = [rec EXCEPT ![r] = new]
        /\ UNCHANGED <<now, effect, journal, sender, venue, flying, held, faults>>
    BY <1>1 DEF Journal!List
  <2>2. new \in Journal!RecStates /\ new.at = "listed" /\ new.effect = e
    BY DEF Journal!RecStates, Journal!Idle
  <2>3. Due(e)
    BY <2>1 DEF Journal!RecoveryRequired, Due
  <2>. HIDE DEF new
  <2>4. rec' \in [Tasks -> Journal!RecStates] /\ rec'[r] = new /\ \A q \in Tasks : q # r => rec'[q] = rec[q]
    BY <1>0, <2>1, <2>2
  <2>. QED BY <1>0, <2>1, <2>2, <2>3, <2>4, RecovererMoves DEF RestTypes
<1>2. CASE Journal!RecoveryLock(r)
  <2>. DEFINE new == [rec[r] EXCEPT !.at = "locked"]
  <2>1. /\ rec[r].at = "listed" /\ rec' = [rec EXCEPT ![r] = new]
        /\ held' = [held EXCEPT ![rec[r].effect] = r]
        /\ UNCHANGED <<now, effect, journal, sender, venue, flying, faults>>
    BY <1>2 DEF Journal!RecoveryLock
  <2>2. new \in Journal!RecStates /\ new.at = "locked" /\ new.effect = rec[r].effect
    BY <1>0, <2>1 DEF Journal!RecStates, Journal!Idle
  <2>. HIDE DEF new
  <2>3. rec' \in [Tasks -> Journal!RecStates] /\ rec'[r] = new /\ \A q \in Tasks : q # r => rec'[q] = rec[q]
    BY <1>0, <2>1, <2>2
  <2>4. held' \in [EffectKeys -> Tasks \cup {None}]
    BY <1>0, <2>1 DEF RestTypes
  <2>. QED BY <1>0, <1>w, <2>1, <2>2, <2>3, <2>4, RecovererMoves DEF RestTypes
<1>3. ASSUME NEW a \in Answers, Journal!AskVenue(r, a) PROVE JournalInv'
  <2>1. PICK id \in IF venue[rec[r].effect] = {} THEN {None} ELSE venue[rec[r].effect] :
          rec' = [rec EXCEPT ![r].at = "asked", ![r].id = id, ![r].answer = a]
    BY <1>3 DEF Journal!AskVenue
  <2>. DEFINE new == [rec[r] EXCEPT !.at = "asked", !.id = id, !.answer = a]
  <2>2. /\ rec[r].at = "locked"
        /\ UNCHANGED <<now, effect, journal, sender, venue, flying, held, faults>>
    BY <1>3 DEF Journal!AskVenue
  <2>3. rec[r].effect \in EffectKeys /\ Due(rec[r].effect)
    BY <1>w, <2>2
  <2>4. id \in Senders \cup {None} /\ venue[rec[r].effect] = IF id = None THEN {} ELSE {id}
    <3>1. venue[rec[r].effect] \in SUBSET Senders
      BY <1>0, <2>3 DEF RestTypes
    <3>2. CASE venue[rec[r].effect] = {}
      BY <3>2
    <3>3. CASE venue[rec[r].effect] # {}
      <4>1. id \in venue[rec[r].effect] /\ id # None
        BY <3>1, <3>3
      <4>2. venue[rec[r].effect] = {id}
        BY <2>3, <4>1, OneNamed, Zenon
      <4>. QED BY <3>1, <4>1, <4>2
    <3>. QED BY <3>2, <3>3
  <2>5. new \in Journal!RecStates /\ new.at = "asked" /\ new.effect = rec[r].effect /\ new.id = id
    <3>1. rec[r] \in [at : {"listed", "locked"}, effect : EffectKeys, id : {None}, answer : {None}]
      BY <1>0, <2>2 DEF Journal!RecStates, Journal!Idle
    <3>2. new \in [at : {"asked"}, effect : EffectKeys, id : Senders \cup {None}, answer : Answers]
      BY <2>4, <3>1
    <3>3. new.at = "asked" /\ new.effect = rec[r].effect /\ new.id = id
      BY <3>1
    <3>. QED BY <3>2, <3>3, Zenon DEF Journal!RecStates
  <2>6. rec' = [rec EXCEPT ![r] = new]
    BY <1>0, <2>1
  <2>. HIDE DEF new
  <2>7. rec' \in [Tasks -> Journal!RecStates] /\ rec'[r] = new /\ \A q \in Tasks : q # r => rec'[q] = rec[q]
    BY <1>0, <2>5, <2>6
  <2>. QED BY <1>0, <2>2, <2>3, <2>4, <2>5, <2>7, RecovererMoves DEF RestTypes
<1>4. CASE Journal!Reconcile(r)
  <2>. DEFINE e == rec[r].effect
  <2>1. /\ rec[r].at = "asked" /\ Journal!Transition(e, "RECONCILED", rec[r].id, rec[r].answer, FALSE)
        /\ rec' = [rec EXCEPT ![r] = Journal!Idle] /\ held' = Journal!Unlocked(r)
        /\ UNCHANGED <<now, sender, venue, flying, faults>>
    BY <1>4 DEF Journal!Reconcile
  <2>2. e \in EffectKeys /\ Due(e) /\ venue[e] = IF rec[r].id = None THEN {} ELSE {rec[r].id}
    BY <1>w, <2>1
  <2>3. rec[r].id \in Senders \cup {None} /\ rec[r].answer \in Answers \cup {None}
    BY <1>0, <2>1 DEF Journal!RecStates, Journal!Idle
  <2>4. rec[r].id # None => rec[r].id \in venue[e]
    BY <2>2
  <2>5. FALSE <=> "RECONCILED" = "FAILED"
    OBVIOUS
  <2>6. "RECONCILED" # "CONFIRMED"
    OBVIOUS
  <2>7. \A s \in Senders : sender'[s] = "created" => sender[s] = "created"
    BY <2>1
  <2>. HIDE DEF e
  <2>8. RowTypes' /\ EffectsPersist /\ RowsInv'
    BY <2>1, <2>2, <2>3, <2>4, <2>5, <2>6, <2>7, TransitionKeepsRows, Zenon
  <2>9. OneInPlay' /\ OrdersUnderKey'
    BY <2>1, <2>8, InPlayStays DEF InPlay, OrdersUnderKey, JournalInv
  <2>10. /\ rec' \in [Tasks -> Journal!RecStates] /\ rec'[r] = Journal!Idle
         /\ \A q \in Tasks : q # r => rec'[q] = rec[q]
    BY <1>0, <1>i, <2>1
  <2>11. ASSUME NEW q \in Tasks, rec'[q].at # "idle"
         PROVE  /\ Due(rec[q].effect)'
                /\ rec'[q].at = "asked" =>
                     venue'[rec'[q].effect] = IF rec'[q].id = None THEN {} ELSE {rec'[q].id}
    <3>1. q # r /\ rec'[q] = rec[q] /\ rec[q].at # "idle"
      BY <1>i, <2>10, <2>11
    <3>. QED BY <1>0, <2>1, <2>8, <3>1, AnswersStay
  <2>12. AnswerIsCurrent'
    BY <2>11 DEF AnswerIsCurrent
  <2>13. RestTypes'
    BY <1>0, <1>u, <2>1, <2>10 DEF RestTypes
  <2>. QED BY <2>8, <2>9, <2>12, <2>13, JournalPartsPrime
<1>5. CASE Journal!RecovererDies(r)
  <2>1. /\ rec' = [rec EXCEPT ![r] = Journal!Idle] /\ held' = Journal!Unlocked(r)
        /\ UNCHANGED <<now, effect, journal, sender, venue, flying>>
        /\ faults' = faults + 1 /\ faults < MaxFaults
    BY <1>5 DEF Journal!RecovererDies, Journal!Fault
  <2>2. /\ rec' \in [Tasks -> Journal!RecStates] /\ rec'[r] = Journal!Idle
        /\ \A q \in Tasks : q # r => rec'[q] = rec[q]
    BY <1>0, <1>i, <2>1
  <2>3. faults' \in 0..MaxFaults
    BY <1>0, <2>1
  <2>. QED BY <1>i, <1>u, <2>1, <2>2, <2>3, RecovererMoves
<1>6. CASE Journal!LoseLock(r)
  <2>1. /\ held' = Journal!Unlocked(r) /\ UNCHANGED <<now, effect, journal, sender, venue, flying, rec>>
        /\ faults' = faults + 1 /\ faults < MaxFaults
    BY <1>6 DEF Journal!LoseLock, Journal!Fault
  <2>2. rec' \in [Tasks -> Journal!RecStates] /\ \A q \in Tasks : rec'[q] = rec[q]
    BY <1>0, <2>1
  <2>3. faults' \in 0..MaxFaults
    BY <1>0, <2>1
  <2>. QED BY <1>u, <1>w, <2>1, <2>2, <2>3, RecovererMoves
<1>. QED BY <1>1, <1>2, <1>3, <1>4, <1>5, <1>6 DEF Journal!Recover

\* Every step of the effect journal preserves JournalInv: one case per action.
LEMMA JournalStep == JournalInv /\ Journal!Next => JournalInv'
<1>. SUFFICES ASSUME JournalInv, Journal!Next PROVE JournalInv'
  OBVIOUS
<1>1. CASE Journal!Tick
  BY <1>1, CallStep
<1>2. ASSUME NEW s \in Senders,
             \/ Journal!Prepare(s) \/ Journal!PrepareAnswerLost(s) \/ Journal!Send(s)
             \/ Journal!Land(s) \/ Journal!Fail(s) \/ Journal!Die(s)
             \/ \E a \in Answers : Journal!Confirm(s, a)
      PROVE  JournalInv'
  BY <1>2, CallStep, PrepareStep, AnswerStep
<1>3. ASSUME NEW r \in Tasks, Journal!Recover(r) \/ Journal!RecovererDies(r) \/ Journal!LoseLock(r)
      PROVE  JournalInv'
  BY <1>3, RecoverStep
<1>. QED BY <1>1, <1>2, <1>3 DEF Journal!Next

\* Every other part leaves the journal's tables and the venue as they were.
JournalRows ==
  /\ part = "journal" => JournalInv
  /\ part # "journal" => venue = [e \in EffectKeys |-> {}]

\* The parts have different names.
LEMMA PartsApart ==
  /\ "budget" # "journal" /\ "evidence" # "journal" /\ "budget" # "evidence"
  /\ \A p \in CanaryParts : p # "budget" /\ p # "journal" /\ p # "evidence"
  BY EffectConstants

\* One behaviour is of one part, whose rows alone change.
LEMMA PartStep ==
  ASSUME [PartsNext]_partsVars
  PROVE  /\ UNCHANGED part
         /\ part = "journal" => Journal!Next \/ UNCHANGED <<now, journalVars>>
         /\ part # "journal" => UNCHANGED journalVars
         /\ \A p \in CanaryParts : part = p => Canary(p)!Next \/ UNCHANGED <<now, canaryVars>>
         /\ part = "budget" => Next \/ UNCHANGED vars
         /\ part = "evidence" => Evidence!Next \/ UNCHANGED <<now, evidenceVars>>
<1>. USE PartsApart
<1>1. CASE UNCHANGED partsVars
  BY <1>1 DEF partsVars, vars, budgetVars
<1>2. CASE BudgetNext
  BY <1>2 DEF BudgetNext
<1>3. CASE JournalNext
  BY <1>3 DEF JournalNext
<1>4. CASE CanaryNext
  BY <1>4 DEF CanaryNext
<1>5. CASE EvidenceNext
  BY <1>5 DEF EvidenceNext
<1>. QED BY <1>1, <1>2, <1>3, <1>4, <1>5 DEF PartsNext

\* Unchanged rows satisfy it again.
LEMMA JournalStutter == JournalInv /\ UNCHANGED <<now, journalVars>> => JournalInv'
<1>. SUFFICES ASSUME JournalInv, UNCHANGED <<now, journalVars>> PROVE JournalInv'
  OBVIOUS
<1>. USE DEF journalVars
<1>1. RowTypes' /\ EffectsPersist /\ RowsInv'
  <2>1. now \in Nat
    BY DEF JournalInv, Journal!TypeOK
  <2>. QED BY <2>1, RowsStay
<1>2. OneInPlay' /\ OrdersUnderKey'
  BY DEF JournalInv, OneInPlay, InPlay, OrdersUnderKey
<1>3. AnswerIsCurrent'
  BY DEF JournalInv, AnswerIsCurrent, Due
<1>4. RestTypes'
  BY DEF JournalInv, RestTypes, Journal!TypeOK
<1>. QED BY <1>1, <1>2, <1>3, <1>4, JournalPartsPrime

\* The journal's invariant holds in every behaviour of the parts.
THEOREM JournalInvariant == PartsSpec => []JournalRows
<1>1. PartsInit => JournalRows
  <2>1. PartsInit => Journal!Init
    BY DEF PartsInit
  <2>2. Journal!Init => venue = [e \in EffectKeys |-> {}]
    BY DEF Journal!Init
  <2>. QED BY <2>1, <2>2, JournalInit DEF JournalRows
<1>2. JournalRows /\ [PartsNext]_partsVars => JournalRows'
  <2>. SUFFICES ASSUME JournalRows, [PartsNext]_partsVars PROVE JournalRows'
    OBVIOUS
  <2>1. UNCHANGED part
    BY PartStep
  <2>2. CASE part = "journal"
    BY <2>1, <2>2, PartStep, JournalStep, JournalStutter DEF JournalRows
  <2>3. CASE part # "journal"
    BY <2>1, <2>3, PartStep DEF JournalRows, journalVars
  <2>. QED BY <2>2, <2>3
<1>. QED BY <1>1, <1>2, PTL DEF PartsSpec

\* An instance counts with the same Cardinality.
LEMMA SameCount == \A T : Journal!Cardinality(T) = Cardinality(T)
  BY Zenon DEF Journal!Cardinality, Cardinality

\* However many executors use a key, whenever they die and however often prepare is
\* repeated, the venue gets at most one order for an effect: OneInPlay says why.
THEOREM OneOrder == PartsSpec => []OneOrderPerEffect
<1>1. JournalRows => OneOrderPerEffect
  <2>. SUFFICES ASSUME JournalRows, NEW e \in EffectKeys PROVE Cardinality(venue[e]) <= 1
    BY SameCount DEF OneOrderPerEffect, Journal!OneOrderPerEffect
  <2>1. CASE venue[e] = {}
    BY <2>1, FS_EmptySet
  <2>2. CASE venue[e] # {}
    <3>1. JournalInv
      BY <2>2 DEF JournalRows
    <3>2. PICK s : s \in venue[e]
      BY <2>2
    <3>3. venue[e] = {s}
      BY <3>1, <3>2, OneNamed
    <3>4. Cardinality({s}) = 1
      BY FS_Singleton
    <3>. QED BY <3>3, <3>4
  <2>. QED BY <2>1, <2>2
<1>. QED BY <1>1, JournalInvariant, PTL

\* What recovery writes about an effect is true and stays true, and the row is the
\* head of a journal whose phases follow the protocol, although executors and
\* recoverers write without a common lock and lose the one recoverers have.
THEOREM JournalTruth == PartsSpec => []JournalIsTrue
<1>1. JournalRows => JournalIsTrue
  BY DEF JournalRows, JournalInv, JournalIsTrue
<1>. QED BY <1>1, JournalInvariant, PTL

-----------------------------------------------------------------------------
(***************************************************************************)
(* CanarySession, for the plan of any part p.  At most one session is open *)
(* and at most one attempt pending; whatever is live belongs to a consumed *)
(* attempt, which cannot close while its effect or its trade is open.      *)
(***************************************************************************)
S(p) == Plans[p].sessions
R(p) == Plans[p].reviews

OpenSession(s) == session[s].state \in {"ARMED", "RUNNING", "DRAINING"}
Pends(r) == attempt[r].state \in {"ARMED", "CONSUMED"}
PastClaim(x) == caller[x].at \in {"claimed", "inside", "sent"}

\* A session is fresh until armed, and has a reason only once it drains.
SessionsInOrder(p) ==
  /\ \A s \in S(p) : session[s].state = "NONE" => session[s].reserved = 0
  /\ \A s \in S(p) : session[s].state \in {"NONE", "ARMED", "RUNNING"} => session[s].reason = None
  /\ \A s, u \in S(p) : OpenSession(s) /\ OpenSession(u) => s = u

\* One attempt at most is pending, and its session is open.
OnePending(p) ==
  /\ \A r \in R(p) : arm[r] = "NONE" <=> attempt[r].state = "NONE"
  /\ \A r \in R(p) : Pends(r) => session[attempt[r].session].state \in {"RUNNING", "DRAINING"}
  /\ \A q, r \in R(p) : Pends(q) /\ Pends(r) => q = r

\* Whoever is past the claim has it alone, for a consumed attempt that was approved
\* and whose effect is prepared.
ClaimIsHeld(p) ==
  /\ \A x \in Tasks : caller[x].at # "outside" =>
       caller[x].review \in R(p) /\ attempt[caller[x].review].state # "NONE"
  /\ \A x \in Tasks : PastClaim(x) =>
       LET r == caller[x].review
       IN  /\ r \in claimed /\ order[r] = "PREPARED" /\ "APPROVE" \in decisions[r]
           /\ attempt[r].state = "CONSUMED"
           /\ caller[x].at # "sent" => sent[r] = 0
  /\ \A x, y \in Tasks : PastClaim(x) /\ PastClaim(y) /\ caller[x].review = caller[y].review => x = y

\* A review that was sent was claimed, and its attempt closes only with the trade
\* ended and the effect settled.
SentIsClaimed(p) ==
  \A r \in R(p) : sent[r] # 0 =>
    /\ sent[r] = 1 /\ r \in claimed /\ order[r] # "NONE" /\ "APPROVE" \in decisions[r]
    /\ attempt[r].state = "CONSUMED" \/ (/\ attempt[r].state = "TERMINAL"
                                         /\ trade[r].state = "ENDED" /\ order[r] = "SETTLED")

\* While no connection is lost, a caller holds the lock of its session from before the
\* claim on; and the time inside is bounded from the deadline on.
LockIsHeld(p) ==
  /\ ~Plans[p].disconnects => \A x \in Tasks : caller[x].at # "outside" =>
       dispatch[attempt[caller[x].review].session] = x
  /\ ~Plans[p].disconnects => \A x \in Tasks : PastClaim(x) =>
       session[attempt[caller[x].review].session].reason \notin {"OPERATOR_STOP", "UNKNOWN_MUTATION"}
  /\ \A x \in Tasks : caller[x].at \in {"inside", "sent"} =>
       /\ caller[x].since < session[attempt[caller[x].review].session].deadline
       /\ now <= caller[x].since + Plans[p].maxHold

\* The slots with the finiteness their count needs.
Mine(p, s) == {r \in R(p) : attempt[r].session = s}
SlotsFilled(p) ==
  \A s \in S(p) : /\ IsFiniteSet(Mine(p, s)) /\ Cardinality(Mine(p, s)) = session[s].reserved
                  /\ {attempt[r].ordinal : r \in Mine(p, s)} = 1..session[s].reserved

\* What the assumption says of a plan.
LEMMA PlanFacts ==
  ASSUME NEW p \in CanaryParts
  PROVE  /\ Plans[p].duration \in Nat \ {0} /\ Plans[p].maxAttempts \in Nat \ {0}
         /\ Plans[p].slots \in Nat \ {0} /\ Plans[p].maxHold \in Nat /\ Plans[p].maxTime \in Nat
         /\ Plans[p].slotOf \in [R(p) -> 1..Plans[p].slots] /\ Plans[p].expiry \in [R(p) -> Nat]
         /\ Plans[p].disconnects \in BOOLEAN
         /\ None \notin S(p) \cup R(p) \cup Tasks
         /\ None \notin {"ENTRY_EXPIRED", "RISK_REJECTED", "TRADE_ENDED", "SESSION_DEADLINE",
                         "OPERATOR_STOP", "UNKNOWN_MUTATION"}
<1>1. Canary(p)!CanaryConstants
  BY EffectConstants
<1>. QED BY <1>1 DEF Canary!CanaryConstants, Canary!CloseReasons, Canary!DrainReasons,
                     Canary!StopReasons, S, R

\* The rows and what the tasks of a plan hold, with their types.
SessionTypes(p) ==
  [state : {"ARMED", "RUNNING", "INCOMPLETE", "ABORTED", "NONE", "DRAINING"},
   deadline : 0..(Plans[p].maxTime + Plans[p].duration), reserved : 0..Plans[p].maxAttempts,
   reason : {"OPERATOR_STOP", "UNKNOWN_MUTATION", "SESSION_DEADLINE", None}]
AttemptTypes(p) ==
  [state : {"NONE", "ARMED", "CONSUMED", "TERMINAL"}, session : S(p) \cup {None},
   ordinal : 0..Plans[p].slots, bound : BOOLEAN,
   reason : {"ENTRY_EXPIRED", "RISK_REJECTED", "TRADE_ENDED", None}]
CallerTypes(p) ==
  [at : {"outside", "locked", "claimed", "inside", "sent"}, review : R(p) \cup {None},
   since : 0..Plans[p].maxTime]

\* An attempt and a session say why they ended.
AttemptRules(p) ==
  \A r \in R(p) : /\ attempt[r].session = None <=> attempt[r].state = "NONE"
                  /\ attempt[r].state = "CONSUMED" => arm[r] = "CONSUMED"
                  /\ attempt[r].state = "TERMINAL" <=> attempt[r].reason # None
SessionRules(p) ==
  \A s \in S(p) : session[s].state \in {"DRAINING", "ABORTED"} => session[s].reason # None

CanaryShape(p) ==
  /\ now \in 0..Plans[p].maxTime
  /\ session \in [S(p) -> SessionTypes(p)]
  /\ arm \in [R(p) -> {"NONE", "ARMED", "CONSUMED", "EXPIRED"}]
  /\ attempt \in [R(p) -> AttemptTypes(p)]
  /\ decisions \in [R(p) -> SUBSET {"APPROVE", "REJECT"}]
  /\ trade \in [R(p) -> [state : {"NONE", "OPEN", "ENDED"}, reconciled : BOOLEAN]]
  /\ order \in [R(p) -> {"NONE", "PREPARED", "FAILED", "SETTLED"}]
  /\ claimed \subseteq R(p)
  /\ caller \in [Tasks -> CallerTypes(p)]
  /\ dispatch \in [S(p) -> Tasks \cup {None}]
  /\ sent \in [R(p) -> Nat]

\* The inductive invariant of a plan.
CanaryInv(p) ==
  /\ CanaryShape(p) /\ SessionRules(p) /\ AttemptRules(p) /\ SessionsInOrder(p) /\ OnePending(p)
  /\ ClaimIsHeld(p) /\ SentIsClaimed(p) /\ LockIsHeld(p) /\ SlotsFilled(p)

\* The shape and the rules of CanaryInv are the module's TypeOK.
LEMMA CanaryTypes ==
  ASSUME NEW p \in CanaryParts, CanaryInv(p)
  PROVE  Canary(p)!TypeOK
<1>1. Canary(p)!SessionRows = SessionTypes(p)
  BY DEF Canary!SessionRows, SessionTypes, Canary!Active, Canary!Ended, Canary!DrainReasons, Canary!StopReasons
<1>2. Canary(p)!Attempts = AttemptTypes(p)
  BY DEF Canary!Attempts, AttemptTypes, Canary!CloseReasons, S
<1>3. Canary(p)!TaskStates = CallerTypes(p)
  BY DEF Canary!TaskStates, CallerTypes, R
<1>4. Canary(p)!Trades = [state : {"NONE", "OPEN", "ENDED"}, reconciled : BOOLEAN]
  BY DEF Canary!Trades
<1>. QED BY <1>1, <1>2, <1>3, <1>4, Zenon
         DEF CanaryInv, CanaryShape, Canary!TypeOK, SessionRules, AttemptRules, S, R

\* The slots are those of the component.
LEMMA SlotsMeaning == ASSUME NEW p \in CanaryParts, SlotsFilled(p) PROVE Canary(p)!SlotsInOrder
<1>1. \A T : Canary(p)!Cardinality(T) = Cardinality(T)
  BY Zenon DEF Canary!Cardinality, Cardinality
<1>. QED BY <1>1 DEF SlotsFilled, Mine, Canary!SlotsInOrder, S, R

\* Empty tables satisfy the invariant.
LEMMA CanaryInit == ASSUME NEW p \in CanaryParts, Canary(p)!Init PROVE CanaryInv(p)
<1>. USE PlanFacts DEF S, R
<1>1. /\ now = 0 /\ session \in [S(p) -> SessionTypes(p)] /\ attempt \in [R(p) -> AttemptTypes(p)]
      /\ \A s \in S(p) : /\ session[s].state = "NONE" /\ session[s].reserved = 0
                         /\ session[s].reason = None
      /\ \A r \in R(p) : /\ attempt[r].state = "NONE" /\ attempt[r].session = None
                         /\ attempt[r].reason = None /\ attempt[r].ordinal = 0
  BY DEF Canary!Init, Canary!NoSession, Canary!NoAttempt, SessionTypes, AttemptTypes
<1>2. /\ arm = [r \in R(p) |-> "NONE"] /\ decisions = [r \in R(p) |-> {}]
      /\ trade = [r \in R(p) |-> Canary(p)!NoTrade] /\ order = [r \in R(p) |-> "NONE"]
      /\ claimed = {} /\ caller = [x \in Tasks |-> Canary(p)!Outside]
      /\ dispatch = [s \in S(p) |-> None] /\ sent = [r \in R(p) |-> 0]
  BY DEF Canary!Init
<1>3. /\ Canary(p)!Outside \in CallerTypes(p) /\ Canary(p)!Outside.at = "outside"
      /\ Canary(p)!NoTrade \in [state : {"NONE", "OPEN", "ENDED"}, reconciled : BOOLEAN]
  BY DEF CallerTypes, Canary!Outside, Canary!NoTrade
<1>4. CanaryShape(p) /\ SessionRules(p) /\ AttemptRules(p)
  BY <1>1, <1>2, <1>3 DEF CanaryShape, SessionRules, AttemptRules
<1>5. SessionsInOrder(p) /\ OnePending(p)
  BY <1>1, <1>2 DEF SessionsInOrder, OnePending, OpenSession, Pends
<1>6. ClaimIsHeld(p) /\ LockIsHeld(p)
  BY <1>2, <1>3 DEF ClaimIsHeld, LockIsHeld, PastClaim
<1>7. SentIsClaimed(p)
  BY <1>2 DEF SentIsClaimed
<1>8. SlotsFilled(p)
  <2>1. \A s \in S(p) : Mine(p, s) = {} /\ session[s].reserved = 0
    BY <1>1 DEF Mine
  <2>2. 1..0 = {} /\ {attempt[r].ordinal : r \in {}} = {}
    OBVIOUS
  <2>. QED BY <2>1, <2>2, FS_EmptySet DEF SlotsFilled
<1>. QED BY <1>4, <1>5, <1>6, <1>7, <1>8 DEF CanaryInv

\* A caller past its claim works for a session that is open.
LEMMA ClaimFacts ==
  ASSUME NEW p \in CanaryParts, CanaryInv(p), NEW x \in Tasks, PastClaim(x)
  PROVE  /\ caller[x].review \in R(p) /\ attempt[caller[x].review].session \in S(p)
         /\ attempt[caller[x].review].state = "CONSUMED"
         /\ session[attempt[caller[x].review].session].state \in {"RUNNING", "DRAINING"}
<1>. USE PlanFacts
<1>1. caller[x].review \in R(p) /\ attempt[caller[x].review].state = "CONSUMED"
  BY DEF CanaryInv, ClaimIsHeld, PastClaim
<1>2. attempt[caller[x].review] \in AttemptTypes(p)
  BY <1>1 DEF CanaryInv, CanaryShape
<1>3. attempt[caller[x].review].session \in S(p)
  BY <1>1, <1>2 DEF AttemptTypes, CanaryInv, AttemptRules
<1>4. session[attempt[caller[x].review].session].state \in {"RUNNING", "DRAINING"}
  BY <1>1 DEF CanaryInv, OnePending, Pends
<1>. QED BY <1>1, <1>3, <1>4

\* What an attempt's session is.
LEMMA AttemptFacts ==
  ASSUME NEW p \in CanaryParts, CanaryInv(p), NEW r \in R(p)
  PROVE  /\ attempt[r].state \in {"NONE", "ARMED", "CONSUMED", "TERMINAL"}
         /\ attempt[r].state # "NONE" => attempt[r].session \in S(p)
         /\ attempt[r].ordinal \in Nat
  BY PlanFacts DEF CanaryInv, CanaryShape, AttemptTypes, AttemptRules

\* Sessions that are armed or stopped.
LEMMA SessionStep ==
  ASSUME NEW p \in CanaryParts, CanaryInv(p), NEW s \in S(p),
         Canary(p)!ArmSession(s) \/ \E w \in {"OPERATOR_STOP", "UNKNOWN_MUTATION"} : Canary(p)!Stop(s, w)
  PROVE  CanaryInv(p)'
<1>. USE PlanFacts
<1>f. UNCHANGED <<now, arm, attempt, decisions, trade, order, claimed, caller, dispatch, sent>>
  BY DEF Canary!ArmSession, Canary!Stop
<1>t. /\ session \in [S(p) -> SessionTypes(p)] /\ session[s] \in SessionTypes(p)
      /\ now \in Nat /\ now <= Plans[p].maxTime
  BY DEF CanaryInv, CanaryShape
<1>1. ASSUME NEW new \in SessionTypes(p), session' = [session EXCEPT ![s] = new],
             new.reserved = session[s].reserved,
             new.state \in {"NONE", "ARMED", "RUNNING"} => new.reason = None,
             new.state \in {"ARMED", "DRAINING"},
             new.state = "DRAINING" => new.reason # None,
             \A u \in S(p) : OpenSession(u) => u = s,
             \A x \in Tasks : PastClaim(x) /\ attempt[caller[x].review].session = s =>
               /\ new.deadline = session[s].deadline
               /\ ~Plans[p].disconnects => new.reason \notin {"OPERATOR_STOP", "UNKNOWN_MUTATION"},
             (\E r \in R(p) : Pends(r) /\ attempt[r].session = s) => new.state = "DRAINING"
      PROVE  CanaryInv(p)'
  <2>1. session' \in [S(p) -> SessionTypes(p)] /\ \A u \in S(p) : session'[u] = IF u = s THEN new ELSE session[u]
    BY <1>t, <1>1
  <2>2. CanaryShape(p)' /\ AttemptRules(p)'
    BY <1>f, <2>1 DEF CanaryInv, CanaryShape, AttemptRules
  <2>3. SessionRules(p)' /\ SessionsInOrder(p)'
    BY <1>1, <2>1 DEF CanaryInv, SessionRules, SessionsInOrder, OpenSession
  <2>4. OnePending(p)'
    <3>1. ASSUME NEW r \in R(p), Pends(r)
          PROVE  session'[attempt[r].session].state \in {"RUNNING", "DRAINING"}
      <4>1. attempt[r].session \in S(p)
        BY <3>1, AttemptFacts DEF Pends
      <4>2. session[attempt[r].session].state \in {"RUNNING", "DRAINING"}
        BY <3>1 DEF CanaryInv, OnePending
      <4>. QED BY <1>1, <2>1, <3>1, <4>1, <4>2
    <3>. QED BY <1>f, <3>1 DEF CanaryInv, OnePending, Pends
  <2>5. ClaimIsHeld(p)' /\ SentIsClaimed(p)'
    BY <1>f DEF CanaryInv, ClaimIsHeld, SentIsClaimed, PastClaim
  <2>6. LockIsHeld(p)'
    <3>1. ASSUME NEW x \in Tasks, PastClaim(x)
          PROVE  /\ attempt[caller[x].review].session \in S(p)
                 /\ session'[attempt[caller[x].review].session].deadline =
                      session[attempt[caller[x].review].session].deadline
                 /\ ~Plans[p].disconnects => session'[attempt[caller[x].review].session].reason
                      \notin {"OPERATOR_STOP", "UNKNOWN_MUTATION"}
      BY <1>1, <2>1, <3>1, ClaimFacts DEF CanaryInv, LockIsHeld
    <3>. QED BY <1>f, <3>1 DEF CanaryInv, LockIsHeld, PastClaim
  <2>7. SlotsFilled(p)'
    <3>1. \A u \in S(p) : session'[u].reserved = session[u].reserved
      BY <1>1, <2>1
    <3>. QED BY <1>f, <3>1 DEF CanaryInv, SlotsFilled, Mine
  <2>. QED BY <2>2, <2>3, <2>4, <2>5, <2>6, <2>7 DEF CanaryInv
<1>2. CASE Canary(p)!ArmSession(s)
  <2>. DEFINE new == [Canary(p)!NoSession EXCEPT !.state = "ARMED", !.deadline = now + Plans[p].duration]
  <2>1. /\ session[s].state = "NONE" /\ now + Plans[p].duration < Plans[p].maxTime
        /\ session' = [session EXCEPT ![s] = new]
        /\ \A u \in S(p) : ~OpenSession(u)
    BY <1>2 DEF Canary!ArmSession, OpenSession, Canary!Active, S
  <2>2. /\ new \in SessionTypes(p) /\ new.state = "ARMED" /\ new.reserved = 0 /\ new.reason = None
    <3>1. now + Plans[p].duration \in 0..(Plans[p].maxTime + Plans[p].duration)
      BY <1>t
    <3>2. 0 \in 0..Plans[p].maxAttempts
      OBVIOUS
    <3>. QED BY <3>1, <3>2 DEF SessionTypes, Canary!NoSession
  <2>. HIDE DEF new
  <2>3. session[s].reserved = 0
    BY <2>1 DEF CanaryInv, SessionsInOrder
  <2>4. \A x \in Tasks : PastClaim(x) => attempt[caller[x].review].session # s
    BY <2>1, ClaimFacts
  <2>5. \A r \in R(p) : Pends(r) => attempt[r].session # s
    BY <2>1 DEF CanaryInv, OnePending
  <2>. QED BY <1>1, <2>1, <2>2, <2>3, <2>4, <2>5
<1>3. ASSUME NEW w \in {"OPERATOR_STOP", "UNKNOWN_MUTATION"}, Canary(p)!Stop(s, w) PROVE CanaryInv(p)'
  <2>. DEFINE new == [session[s] EXCEPT !.state = "DRAINING", !.reason = w]
  <2>1. /\ session[s].state \in {"ARMED", "RUNNING"} /\ dispatch[s] = None
        /\ session' = [session EXCEPT ![s].state = "DRAINING", ![s].reason = w]
    BY <1>3 DEF Canary!Stop, Canary!Active
  <2>2. /\ new \in SessionTypes(p) /\ new.state = "DRAINING" /\ new.reason = w
        /\ new.reserved = session[s].reserved /\ new.deadline = session[s].deadline
    BY <1>t DEF SessionTypes
  <2>3. session' = [session EXCEPT ![s] = new]
    BY <1>t, <2>1
  <2>. HIDE DEF new
  <2>4. \A u \in S(p) : OpenSession(u) => u = s
    BY <2>1 DEF CanaryInv, SessionsInOrder, OpenSession
  <2>5. ~Plans[p].disconnects =>
          \A x \in Tasks : PastClaim(x) => attempt[caller[x].review].session # s
    BY <2>1 DEF CanaryInv, LockIsHeld, PastClaim
  <2>. QED BY <1>1, <2>2, <2>3, <2>4, <2>5
<1>. QED BY <1>2, <1>3

\* A step on the rows that no task of final_dispatch takes: attempts get older and
\* stay where they are charged, decisions are added, and what a caller past its
\* claim or an order that was sent relies on is left alone.
LEMMA RowsAge ==
  ASSUME NEW p \in CanaryParts, CanaryInv(p), CanaryShape(p)', AttemptRules(p)',
         UNCHANGED <<now, claimed, caller, dispatch, sent>>,
         SessionRules(p)', SessionsInOrder(p)',
         \A s \in S(p) :
           /\ session'[s].reserved = session[s].reserved /\ session'[s].deadline = session[s].deadline
           /\ session[s].reason \notin {"OPERATOR_STOP", "UNKNOWN_MUTATION"} =>
                session'[s].reason \notin {"OPERATOR_STOP", "UNKNOWN_MUTATION"},
         \A r \in R(p) :
           /\ attempt'[r].session = attempt[r].session /\ attempt'[r].ordinal = attempt[r].ordinal
           /\ Pends(r)' => /\ Pends(r)
                           /\ session'[attempt[r].session].state \in {"RUNNING", "DRAINING"}
           /\ attempt'[r].state = "NONE" <=> attempt[r].state = "NONE"
           /\ arm'[r] = "NONE" <=> arm[r] = "NONE"
           /\ decisions[r] \subseteq decisions'[r],
         \A x \in Tasks : PastClaim(x) =>
           order'[caller[x].review] = "PREPARED" /\ attempt'[caller[x].review].state = "CONSUMED",
         \A r \in R(p) : sent[r] # 0 =>
           /\ order'[r] # "NONE"
           /\ attempt'[r].state = "CONSUMED" \/ (/\ attempt'[r].state = "TERMINAL"
                                                 /\ trade'[r].state = "ENDED" /\ order'[r] = "SETTLED")
  PROVE  CanaryInv(p)'
<1>. USE PlanFacts
<1>1. OnePending(p)'
  <2>1. \A r \in R(p) : Pends(r)' =>
          session'[attempt'[r].session].state \in {"RUNNING", "DRAINING"}
    OBVIOUS
  <2>2. \A r \in R(p) : Pends(r)' => Pends(r)
    OBVIOUS
  <2>3. \A q, r \in R(p) : Pends(q)' /\ Pends(r)' => q = r
    BY <2>2 DEF CanaryInv, OnePending
  <2>4. \A r \in R(p) : arm'[r] = "NONE" <=> attempt'[r].state = "NONE"
    BY DEF CanaryInv, OnePending
  <2>. QED BY <2>1, <2>3, <2>4 DEF OnePending
<1>2. ClaimIsHeld(p)'
  <2>1. \A x \in Tasks : caller[x].at # "outside" =>
          caller[x].review \in R(p) /\ attempt'[caller[x].review].state # "NONE"
    BY DEF CanaryInv, ClaimIsHeld
  <2>2. ASSUME NEW x \in Tasks, PastClaim(x)
        PROVE  LET r == caller[x].review
               IN  /\ r \in claimed /\ order'[r] = "PREPARED" /\ "APPROVE" \in decisions'[r]
                   /\ attempt'[r].state = "CONSUMED"
                   /\ caller[x].at # "sent" => sent[r] = 0
    <3>1. caller[x].review \in R(p)
      BY <2>2, ClaimFacts
    <3>2. caller[x].review \in claimed /\ "APPROVE" \in decisions[caller[x].review]
          /\ (caller[x].at # "sent" => sent[caller[x].review] = 0)
      BY <2>2 DEF CanaryInv, ClaimIsHeld
    <3>. QED BY <2>2, <3>1, <3>2
  <2>3. \A x, y \in Tasks : PastClaim(x) /\ PastClaim(y) /\ caller[x].review = caller[y].review => x = y
    BY DEF CanaryInv, ClaimIsHeld
  <2>. QED BY <2>1, <2>2, <2>3 DEF ClaimIsHeld, PastClaim
<1>3. SentIsClaimed(p)'
  BY DEF CanaryInv, SentIsClaimed
<1>4. LockIsHeld(p)'
  <2>1. ASSUME NEW x \in Tasks, caller[x].at # "outside"
        PROVE  /\ caller[x].review \in R(p)
               /\ attempt'[caller[x].review].session = attempt[caller[x].review].session
               /\ attempt[caller[x].review].session \in S(p)
    <3>1. caller[x].review \in R(p) /\ attempt[caller[x].review].state # "NONE"
      BY <2>1 DEF CanaryInv, ClaimIsHeld
    <3>. QED BY <3>1, AttemptFacts
  <2>2. ~Plans[p].disconnects => \A x \in Tasks : caller[x].at # "outside" =>
          dispatch[attempt'[caller[x].review].session] = x
    BY <2>1 DEF CanaryInv, LockIsHeld
  <2>3. ~Plans[p].disconnects => \A x \in Tasks : PastClaim(x) =>
          session'[attempt'[caller[x].review].session].reason \notin {"OPERATOR_STOP", "UNKNOWN_MUTATION"}
    <3>. SUFFICES ASSUME ~Plans[p].disconnects, NEW x \in Tasks, PastClaim(x)
         PROVE  session'[attempt'[caller[x].review].session].reason \notin {"OPERATOR_STOP", "UNKNOWN_MUTATION"}
      OBVIOUS
    <3>1. caller[x].at # "outside"
      BY DEF PastClaim
    <3>2. session[attempt[caller[x].review].session].reason \notin {"OPERATOR_STOP", "UNKNOWN_MUTATION"}
      BY DEF CanaryInv, LockIsHeld
    <3>. QED BY <2>1, <3>1, <3>2
  <2>4. \A x \in Tasks : caller[x].at \in {"inside", "sent"} =>
          /\ caller[x].since < session'[attempt'[caller[x].review].session].deadline
          /\ now <= caller[x].since + Plans[p].maxHold
    BY <2>1 DEF CanaryInv, LockIsHeld
  <2>. QED BY <2>2, <2>3, <2>4 DEF LockIsHeld, PastClaim
<1>5. SlotsFilled(p)'
  <2>. SUFFICES ASSUME NEW s \in S(p)
       PROVE  /\ IsFiniteSet(Mine(p, s)') /\ Cardinality(Mine(p, s)') = session'[s].reserved
              /\ {attempt'[r].ordinal : r \in Mine(p, s)'} = 1..session'[s].reserved
    BY DEF SlotsFilled
  <2>1. Mine(p, s)' = Mine(p, s) /\ Mine(p, s) \subseteq R(p)
    BY DEF Mine
  <2>2. {attempt'[r].ordinal : r \in Mine(p, s)} = {attempt[r].ordinal : r \in Mine(p, s)}
    BY <2>1
  <2>. QED BY <2>1, <2>2 DEF CanaryInv, SlotsFilled
<1>. QED BY <1>1, <1>2, <1>3, <1>4, <1>5 DEF CanaryInv

\* Steps that leave the sessions alone.
LEMMA EntryRowsAge ==
  ASSUME NEW p \in CanaryParts, CanaryInv(p), CanaryShape(p)', AttemptRules(p)',
         UNCHANGED <<now, session, claimed, caller, dispatch, sent>>,
         \A r \in R(p) :
           /\ attempt'[r].session = attempt[r].session /\ attempt'[r].ordinal = attempt[r].ordinal
           /\ attempt'[r].state = attempt[r].state \/ (attempt[r].state = "ARMED" /\ attempt'[r].state = "CONSUMED")
           /\ arm'[r] = "NONE" <=> arm[r] = "NONE"
           /\ decisions[r] \subseteq decisions'[r]
           /\ order'[r] = order[r] \/ (order'[r] # "NONE" /\ order[r] # "SETTLED")
           /\ trade[r].state = "ENDED" => trade'[r].state = "ENDED",
         \A x \in Tasks : PastClaim(x) => order'[caller[x].review] = order[caller[x].review]
  PROVE  CanaryInv(p)'
<1>. USE PlanFacts
<1>1. SessionRules(p)' /\ SessionsInOrder(p)'
  BY DEF CanaryInv, SessionRules, SessionsInOrder, OpenSession
<1>2. ASSUME NEW r \in R(p)
      PROVE  /\ Pends(r)' => Pends(r) /\ session'[attempt[r].session].state \in {"RUNNING", "DRAINING"}
             /\ attempt'[r].state = "NONE" <=> attempt[r].state = "NONE"
  BY DEF CanaryInv, OnePending, Pends
<1>3. ASSUME NEW x \in Tasks, PastClaim(x)
      PROVE  order'[caller[x].review] = "PREPARED" /\ attempt'[caller[x].review].state = "CONSUMED"
  <2>1. caller[x].review \in R(p) /\ attempt[caller[x].review].state = "CONSUMED"
    BY <1>3, ClaimFacts
  <2>2. order[caller[x].review] = "PREPARED"
    BY <1>3 DEF CanaryInv, ClaimIsHeld
  <2>. QED BY <1>3, <2>1, <2>2
<1>4. ASSUME NEW r \in R(p), sent[r] # 0
      PROVE  /\ order'[r] # "NONE"
             /\ attempt'[r].state = "CONSUMED" \/ (/\ attempt'[r].state = "TERMINAL"
                                                   /\ trade'[r].state = "ENDED" /\ order'[r] = "SETTLED")
  BY <1>4 DEF CanaryInv, SentIsClaimed
<1>. QED BY <1>1, <1>2, <1>3, <1>4, RowsAge

\* Whoever is past its claim dispatches its review.
LEMMA ClaimDispatches ==
  ASSUME NEW p \in CanaryParts, NEW r, ~Canary(p)!Dispatching(r)
  PROVE  \A x \in Tasks : PastClaim(x) => caller[x].review # r
  BY DEF Canary!Dispatching

\* Decisions, trades, bindings and effects.
LEMMA EntryStep ==
  ASSUME NEW p \in CanaryParts, CanaryInv(p), NEW r \in R(p),
         \/ \E d \in {"APPROVE", "REJECT"} : Canary(p)!Decide(r, d)
         \/ Canary(p)!CreateTrade(r) \/ Canary(p)!BindEntry(r) \/ Canary(p)!PrepareEffect(r)
         \/ Canary(p)!FailEffect(r) \/ Canary(p)!SettleEffect(r)
         \/ Canary(p)!EndTrade(r) \/ Canary(p)!MarkReconciled(r)
  PROVE  CanaryInv(p)'
<1>. USE PlanFacts
<1>t. CanaryShape(p) /\ AttemptRules(p)
  BY DEF CanaryInv
<1>f. UNCHANGED <<now, session, arm, claimed, caller, dispatch, sent>>
  BY DEF Canary!Decide, Canary!CreateTrade, Canary!BindEntry, Canary!PrepareEffect,
         Canary!FailEffect, Canary!SettleEffect, Canary!EndTrade, Canary!MarkReconciled
<1>1. ASSUME NEW d \in {"APPROVE", "REJECT"}, Canary(p)!Decide(r, d) PROVE CanaryInv(p)'
  <2>1. decisions' = [decisions EXCEPT ![r] = @ \cup {d}] /\ UNCHANGED <<attempt, trade, order>>
    BY <1>1 DEF Canary!Decide
  <2>2. /\ decisions' \in [R(p) -> SUBSET {"APPROVE", "REJECT"}]
        /\ \A q \in R(p) : decisions[q] \subseteq decisions'[q]
    BY <1>t, <2>1 DEF CanaryShape
  <2>3. CanaryShape(p)' /\ AttemptRules(p)'
    BY <1>t, <1>f, <2>1, <2>2 DEF CanaryShape, AttemptRules
  <2>. QED BY <1>f, <2>1, <2>2, <2>3, EntryRowsAge
<1>2. ASSUME UNCHANGED <<attempt, decisions, order>>, NEW new,
             new \in [state : {"NONE", "OPEN", "ENDED"}, reconciled : BOOLEAN],
             trade' = [trade EXCEPT ![r] = new], trade[r].state = "ENDED" => new.state = "ENDED"
      PROVE  CanaryInv(p)'
  <2>1. /\ trade' \in [R(p) -> [state : {"NONE", "OPEN", "ENDED"}, reconciled : BOOLEAN]]
        /\ \A q \in R(p) : trade[q].state = "ENDED" => trade'[q].state = "ENDED"
    BY <1>t, <1>2 DEF CanaryShape
  <2>2. CanaryShape(p)' /\ AttemptRules(p)'
    BY <1>t, <1>f, <1>2, <2>1 DEF CanaryShape, AttemptRules
  <2>. QED BY <1>f, <1>2, <2>1, <2>2, EntryRowsAge
<1>a. trade[r] \in [state : {"NONE", "OPEN", "ENDED"}, reconciled : BOOLEAN]
  BY <1>t DEF CanaryShape
<1>3. CASE Canary(p)!CreateTrade(r)
  <2>. DEFINE new == [trade[r] EXCEPT !.state = "OPEN"]
  <2>1. /\ trade' = [trade EXCEPT ![r] = new] /\ UNCHANGED <<attempt, decisions, order>>
        /\ trade[r].state = "NONE"
    BY <1>3 DEF Canary!CreateTrade
  <2>2. new \in [state : {"NONE", "OPEN", "ENDED"}, reconciled : BOOLEAN]
    BY <1>a
  <2>. QED BY <1>2, <2>1, <2>2
<1>4. CASE Canary(p)!EndTrade(r)
  <2>. DEFINE new == [trade[r] EXCEPT !.state = "ENDED"]
  <2>1. trade' = [trade EXCEPT ![r] = new] /\ UNCHANGED <<attempt, decisions, order>>
    BY <1>4 DEF Canary!EndTrade
  <2>2. new \in [state : {"NONE", "OPEN", "ENDED"}, reconciled : BOOLEAN] /\ new.state = "ENDED"
    BY <1>a
  <2>. QED BY <1>2, <2>1, <2>2
<1>5. CASE Canary(p)!MarkReconciled(r)
  <2>. DEFINE new == [trade[r] EXCEPT !.reconciled = TRUE]
  <2>1. trade' = [trade EXCEPT ![r] = new] /\ UNCHANGED <<attempt, decisions, order>>
    BY <1>5 DEF Canary!MarkReconciled
  <2>2. new \in [state : {"NONE", "OPEN", "ENDED"}, reconciled : BOOLEAN] /\ new.state = trade[r].state
    BY <1>a
  <2>. QED BY <1>2, <2>1, <2>2
<1>6. ASSUME UNCHANGED <<attempt, decisions, trade>>, NEW new \in {"PREPARED", "FAILED", "SETTLED"},
             order' = [order EXCEPT ![r] = new], order[r] # "SETTLED",
             \A x \in Tasks : PastClaim(x) => caller[x].review # r
      PROVE  CanaryInv(p)'
  <2>1. /\ order' \in [R(p) -> {"NONE", "PREPARED", "FAILED", "SETTLED"}]
        /\ \A q \in R(p) : order'[q] = IF q = r THEN new ELSE order[q]
    BY <1>t, <1>6 DEF CanaryShape
  <2>2. CanaryShape(p)' /\ AttemptRules(p)'
    BY <1>t, <1>f, <1>6, <2>1 DEF CanaryShape, AttemptRules
  <2>3. \A x \in Tasks : PastClaim(x) => order'[caller[x].review] = order[caller[x].review]
    BY <1>6, <2>1, ClaimFacts
  <2>. QED BY <1>f, <1>6, <2>1, <2>2, <2>3, EntryRowsAge
<1>7. CASE Canary(p)!PrepareEffect(r)
  <2>1. /\ order[r] = "NONE" /\ order' = [order EXCEPT ![r] = "PREPARED"]
        /\ UNCHANGED <<attempt, decisions, trade>>
    BY <1>7 DEF Canary!PrepareEffect
  <2>2. \A x \in Tasks : PastClaim(x) => caller[x].review # r
    BY <2>1 DEF CanaryInv, ClaimIsHeld
  <2>. QED BY <1>6, <2>1, <2>2
<1>8. CASE Canary(p)!FailEffect(r)
  BY <1>6, <1>8, ClaimDispatches DEF Canary!FailEffect
<1>9. CASE Canary(p)!SettleEffect(r)
  BY <1>6, <1>9, ClaimDispatches DEF Canary!SettleEffect
<1>10. CASE Canary(p)!BindEntry(r)
  <2>. DEFINE new == [attempt[r] EXCEPT !.bound = TRUE]
  <2>1. attempt' = [attempt EXCEPT ![r] = new] /\ UNCHANGED <<decisions, trade, order>>
    BY <1>10 DEF Canary!BindEntry
  <2>2. attempt[r] \in AttemptTypes(p)
    BY <1>t DEF CanaryShape
  <2>3. /\ new \in AttemptTypes(p) /\ new.state = attempt[r].state /\ new.session = attempt[r].session
        /\ new.ordinal = attempt[r].ordinal /\ new.reason = attempt[r].reason
    BY <2>2 DEF AttemptTypes
  <2>. HIDE DEF new
  <2>4. /\ attempt' \in [R(p) -> AttemptTypes(p)]
        /\ \A q \in R(p) : /\ attempt'[q].state = attempt[q].state /\ attempt'[q].session = attempt[q].session
                           /\ attempt'[q].ordinal = attempt[q].ordinal /\ attempt'[q].reason = attempt[q].reason
    BY <1>t, <2>1, <2>3 DEF CanaryShape
  <2>5. CanaryShape(p)' /\ AttemptRules(p)'
    BY <1>t, <1>f, <2>1, <2>4 DEF CanaryShape, AttemptRules
  <2>. QED BY <1>f, <2>1, <2>4, <2>5, EntryRowsAge
<1>. QED BY <1>1, <1>3, <1>4, <1>5, <1>7, <1>8, <1>9, <1>10

\* Arms that expire or are consumed.
LEMMA ArmStep ==
  ASSUME NEW p \in CanaryParts, CanaryInv(p), NEW r \in R(p),
         Canary(p)!ArmAgain(r) \/ Canary(p)!Consume(r)
  PROVE  CanaryInv(p)'
<1>. USE PlanFacts
<1>t. CanaryShape(p) /\ AttemptRules(p) /\ OnePending(p)
  BY DEF CanaryInv
<1>f. UNCHANGED <<now, session, decisions, trade, order, claimed, caller, dispatch, sent>>
  BY DEF Canary!ArmAgain, Canary!Consume
<1>1. CASE Canary(p)!ArmAgain(r)
  <2>1. arm' = Canary(p)!ExpiredArms /\ UNCHANGED attempt
    BY <1>1 DEF Canary!ArmAgain
  <2>2. /\ arm' \in [R(p) -> {"NONE", "ARMED", "CONSUMED", "EXPIRED"}]
        /\ \A q \in R(p) : arm'[q] = arm[q] \/ (arm[q] = "ARMED" /\ arm'[q] = "EXPIRED")
    BY <1>t, <2>1 DEF Canary!ExpiredArms, CanaryShape, R
  <2>3. CanaryShape(p)' /\ AttemptRules(p)'
    BY <1>t, <1>f, <2>1, <2>2 DEF CanaryShape, AttemptRules
  <2>. QED BY <1>f, <2>1, <2>2, <2>3, EntryRowsAge
<1>2. CASE Canary(p)!Consume(r) /\ Plans[p].expiry[r] < now
  <2>1. arm[r] = "ARMED" /\ arm' = [arm EXCEPT ![r] = "EXPIRED"] /\ UNCHANGED attempt
    BY <1>2 DEF Canary!Consume
  <2>2. /\ arm' \in [R(p) -> {"NONE", "ARMED", "CONSUMED", "EXPIRED"}]
        /\ \A q \in R(p) : arm'[q] = arm[q] \/ (arm[q] = "ARMED" /\ arm'[q] = "EXPIRED")
    BY <1>t, <2>1 DEF CanaryShape
  <2>3. CanaryShape(p)' /\ AttemptRules(p)'
    BY <1>t, <1>f, <2>1, <2>2 DEF CanaryShape, AttemptRules
  <2>. QED BY <1>f, <2>1, <2>2, <2>3, EntryRowsAge
<1>3. CASE Canary(p)!Consume(r) /\ ~(Plans[p].expiry[r] < now)
  <2>. DEFINE new == [attempt[r] EXCEPT !.state = IF @ = "ARMED" THEN "CONSUMED" ELSE @]
  <2>1. /\ arm[r] = "ARMED" /\ arm' = [arm EXCEPT ![r] = "CONSUMED"]
        /\ attempt' = [attempt EXCEPT ![r] = new]
    BY <1>3 DEF Canary!Consume
  <2>2. attempt[r] \in AttemptTypes(p)
    BY <1>t DEF CanaryShape
  <2>3. /\ new \in AttemptTypes(p) /\ new.session = attempt[r].session
        /\ new.state = (IF attempt[r].state = "ARMED" THEN "CONSUMED" ELSE attempt[r].state)
        /\ new.ordinal = attempt[r].ordinal /\ new.reason = attempt[r].reason
    BY <2>2 DEF AttemptTypes
  <2>. HIDE DEF new
  <2>4. /\ attempt' \in [R(p) -> AttemptTypes(p)] /\ attempt'[r] = new
        /\ \A q \in R(p) : q # r => attempt'[q] = attempt[q]
        /\ arm' \in [R(p) -> {"NONE", "ARMED", "CONSUMED", "EXPIRED"}] /\ arm'[r] = "CONSUMED"
        /\ \A q \in R(p) : q # r => arm'[q] = arm[q]
    BY <1>t, <2>1, <2>3 DEF CanaryShape
  <2>5. CanaryShape(p)'
    BY <1>t, <1>f, <2>4 DEF CanaryShape
  <2>6. AttemptRules(p)'
    BY <1>t, <2>3, <2>4 DEF AttemptRules
  <2>7. \A q \in R(p) :
          /\ attempt'[q].session = attempt[q].session /\ attempt'[q].ordinal = attempt[q].ordinal
          /\ attempt'[q].state = attempt[q].state \/ (attempt[q].state = "ARMED" /\ attempt'[q].state = "CONSUMED")
          /\ arm'[q] = "NONE" <=> arm[q] = "NONE"
    BY <2>1, <2>3, <2>4
  <2>. QED BY <1>f, <2>5, <2>6, <2>7, EntryRowsAge
<1>. QED BY <1>1, <1>2, <1>3

\* refresh_attempts: an attempt that closes was pending and is not that of a caller
\* past its claim; one whose order was sent closes with everything settled.
LEMMA RefreshedFacts ==
  ASSUME NEW p \in CanaryParts, CanaryInv(p), NEW s \in S(p), NEW r \in R(p)
  PROVE  LET row == Canary(p)!RefreshedAttempts(s)[r]
         IN  /\ row \in AttemptTypes(p)
             /\ row.session = attempt[r].session /\ row.ordinal = attempt[r].ordinal
             /\ \/ row = attempt[r]
                \/ /\ Pends(r) /\ row.state = "TERMINAL" /\ row.reason # None
                   /\ \A x \in Tasks : PastClaim(x) => caller[x].review # r
                   /\ sent[r] # 0 => trade[r].state = "ENDED" /\ order[r] = "SETTLED"
<1>. USE PlanFacts
<1>. DEFINE row == Canary(p)!RefreshedAttempts(s)[r]
            why == Canary(p)!CloseReason(r)
<1>1. attempt[r] \in AttemptTypes(p) /\ order[r] \in {"NONE", "PREPARED", "FAILED", "SETTLED"}
  BY DEF CanaryInv, CanaryShape
<1>2. why \in {"ENTRY_EXPIRED", "RISK_REJECTED", "TRADE_ENDED", None}
  BY DEF Canary!CloseReason
<1>3. row = IF Canary(p)!Closes(s, r)
            THEN [attempt[r] EXCEPT !.state = "TERMINAL", !.reason = why] ELSE attempt[r]
  BY DEF Canary!RefreshedAttempts, R
<1>4. CASE ~Canary(p)!Closes(s, r)
  BY <1>1, <1>3, <1>4
<1>5. CASE Canary(p)!Closes(s, r)
  <2>1. Pends(r) /\ why # None
    BY <1>5 DEF Canary!Closes, Canary!Pending, Pends
  <2>2. /\ row \in AttemptTypes(p) /\ row.state = "TERMINAL" /\ row.reason = why
        /\ row.session = attempt[r].session /\ row.ordinal = attempt[r].ordinal
    <3>. HIDE DEF why, row
    <3>1. row = [attempt[r] EXCEPT !.state = "TERMINAL", !.reason = why]
      BY <1>3, <1>5
    <3>. QED BY <1>1, <1>2, <3>1 DEF AttemptTypes
  <2>3. ASSUME attempt[r].state = "CONSUMED", "APPROVE" \in decisions[r]
        PROVE  trade[r].state = "ENDED" /\ order[r] \notin {"PREPARED", "FAILED"}
    <3>1. arm[r] = "CONSUMED"
      BY <2>3 DEF CanaryInv, AttemptRules
    <3>2. ~Canary(p)!ArmExpired(r)
      BY <3>1 DEF Canary!ArmExpired
    <3>3. decisions[r] # {"REJECT"}
      BY <2>3
    <3>. QED BY <2>1, <3>2, <3>3 DEF Canary!CloseReason
  <2>4. \A x \in Tasks : PastClaim(x) => caller[x].review # r
    BY <2>3 DEF CanaryInv, ClaimIsHeld
  <2>5. sent[r] # 0 => trade[r].state = "ENDED" /\ order[r] = "SETTLED"
    BY <1>1, <2>1, <2>3 DEF CanaryInv, SentIsClaimed, Pends
  <2>. HIDE DEF row, why
  <2>6. row.reason # None
    BY <2>1, <2>2
  <2>. QED BY <2>1, <2>2, <2>4, <2>5, <2>6 DEF row
<1>. QED BY <1>4, <1>5

\* The session after a refresh: nothing moves but its state and, at the deadline,
\* its reason; it ends only when none of its attempts is pending.
LEMMA AfterRefreshFacts ==
  ASSUME NEW p \in CanaryParts, CanaryInv(p), NEW s \in S(p), session[s].state # "NONE", NEW fresh
  PROVE  LET new == Canary(p)!AfterRefresh(s, fresh)
         IN  /\ new \in SessionTypes(p)
             /\ new.reserved = session[s].reserved /\ new.deadline = session[s].deadline
             /\ new.state # "NONE"
             /\ new.state \in {"ARMED", "RUNNING"} => new.reason = None
             /\ new.state \in {"ARMED", "RUNNING", "DRAINING"} => OpenSession(s)
             /\ new.state = "ARMED" => session[s].state = "ARMED"
             /\ new.state \in {"DRAINING", "ABORTED"} => new.reason # None
             /\ new.reason = session[s].reason \/ new.reason = "SESSION_DEADLINE"
             /\ OpenSession(s) /\ ~Canary(p)!NonePending(s, fresh) => new.state \in {"ARMED", "RUNNING", "DRAINING"}
<1>. USE PlanFacts
<1>. DEFINE late == session[s].state \in Canary(p)!Active /\ now >= session[s].deadline
            row == IF late THEN [session[s] EXCEPT !.state = "DRAINING", !.reason = "SESSION_DEADLINE"]
                   ELSE session[s]
            ends == /\ Canary(p)!NonePending(s, fresh)
                    /\ row.state = "DRAINING" \/ row.reserved >= Plans[p].maxAttempts
                       \/ row.reserved >= Plans[p].slots
            new == Canary(p)!AfterRefresh(s, fresh)
<1>1. session[s] \in SessionTypes(p)
  BY DEF CanaryInv, CanaryShape
<1>2. /\ row \in SessionTypes(p) /\ row.reserved = session[s].reserved
      /\ row.deadline = session[s].deadline /\ row.state # "NONE"
      /\ \/ row = session[s]
         \/ /\ session[s].state \in {"ARMED", "RUNNING"} /\ row.state = "DRAINING"
            /\ row.reason = "SESSION_DEADLINE"
  BY <1>1 DEF SessionTypes, Canary!Active
<1>3. new = IF ends THEN [row EXCEPT !.state = IF row.reason = "OPERATOR_STOP" THEN "ABORTED" ELSE "INCOMPLETE"]
            ELSE row
  BY DEF Canary!AfterRefresh
<1>4. ends => Canary(p)!NonePending(s, fresh)
  OBVIOUS
<1>5. /\ session[s].state \in {"ARMED", "RUNNING"} => session[s].reason = None
      /\ session[s].state \in {"DRAINING", "ABORTED"} => session[s].reason # None
  BY DEF CanaryInv, SessionsInOrder, SessionRules
<1>6. row.reason \in {"OPERATOR_STOP", "UNKNOWN_MUTATION", "SESSION_DEADLINE", None}
      /\ row.state \in {"ARMED", "RUNNING", "INCOMPLETE", "ABORTED", "NONE", "DRAINING"}
  BY <1>2 DEF SessionTypes
<1>. HIDE DEF row, ends, new, late
<1>7. CASE ends
  <2>1. /\ new \in SessionTypes(p) /\ new.reserved = row.reserved /\ new.deadline = row.deadline
        /\ new.state = (IF row.reason = "OPERATOR_STOP" THEN "ABORTED" ELSE "INCOMPLETE")
        /\ new.reason = row.reason
    BY <1>2, <1>3, <1>7 DEF SessionTypes
  <2>. QED BY <1>2, <1>4, <1>7, <2>1 DEF new
<1>8. CASE ~ends
  <2>1. new = row
    BY <1>3, <1>8
  <2>2. row.state \in {"ARMED", "RUNNING", "DRAINING"} => OpenSession(s)
    BY <1>2 DEF OpenSession
  <2>3. OpenSession(s) => row.state \in {"ARMED", "RUNNING", "DRAINING"}
    BY <1>2 DEF OpenSession
  <2>. QED BY <1>2, <1>5, <1>6, <2>1, <2>2, <2>3 DEF new
<1>. QED BY <1>7, <1>8

\* refresh_attempts(): closing the attempts that are over preserves CanaryInv.
LEMMA RefreshStep ==
  ASSUME NEW p \in CanaryParts, CanaryInv(p), NEW s \in S(p), Canary(p)!Refresh(s)
  PROVE  CanaryInv(p)'
<1>. USE PlanFacts
<1>. DEFINE fresh == Canary(p)!RefreshedAttempts(s)
            new == Canary(p)!AfterRefresh(s, fresh)
<1>1. /\ session[s].state # "NONE" /\ attempt' = fresh /\ arm' = Canary(p)!RefreshedArms(s)
      /\ session' = [session EXCEPT ![s] = new]
      /\ UNCHANGED <<now, decisions, trade, order, claimed, caller, dispatch, sent>>
  BY DEF Canary!Refresh
<1>t. CanaryShape(p) /\ AttemptRules(p) /\ SessionRules(p) /\ SessionsInOrder(p) /\ OnePending(p)
  BY DEF CanaryInv
<1>2. \A r \in R(p) : /\ fresh[r] \in AttemptTypes(p)
                      /\ fresh[r].session = attempt[r].session /\ fresh[r].ordinal = attempt[r].ordinal
                      /\ \/ fresh[r] = attempt[r]
                         \/ /\ Pends(r) /\ fresh[r].state = "TERMINAL" /\ fresh[r].reason # None
                            /\ \A x \in Tasks : PastClaim(x) => caller[x].review # r
                            /\ sent[r] # 0 => trade[r].state = "ENDED" /\ order[r] = "SETTLED"
  BY RefreshedFacts
<1>3. /\ new \in SessionTypes(p)
      /\ new.reserved = session[s].reserved /\ new.deadline = session[s].deadline
      /\ new.state # "NONE"
      /\ new.state \in {"ARMED", "RUNNING"} => new.reason = None
      /\ new.state \in {"ARMED", "RUNNING", "DRAINING"} => OpenSession(s)
      /\ new.state = "ARMED" => session[s].state = "ARMED"
      /\ new.state \in {"DRAINING", "ABORTED"} => new.reason # None
      /\ new.reason = session[s].reason \/ new.reason = "SESSION_DEADLINE"
      /\ OpenSession(s) /\ ~Canary(p)!NonePending(s, fresh) => new.state \in {"ARMED", "RUNNING", "DRAINING"}
  BY <1>1, AfterRefreshFacts, Zenon
<1>4. fresh \in [R(p) -> AttemptTypes(p)]
  BY <1>2 DEF Canary!RefreshedAttempts, R
<1>5. /\ arm' \in [R(p) -> {"NONE", "ARMED", "CONSUMED", "EXPIRED"}]
      /\ \A r \in R(p) : arm'[r] = arm[r] \/ (arm[r] \in {"ARMED", "EXPIRED"} /\ arm'[r] = "EXPIRED")
  BY <1>1, <1>t DEF Canary!RefreshedArms, Canary!ArmExpired, CanaryShape, R
<1>6. \A r \in R(p) : Canary(p)!NonePending(s, fresh) /\ fresh[r].session = s => fresh[r].state = "TERMINAL"
  BY DEF Canary!NonePending, R
<1>. HIDE DEF fresh, new
<1>7. session' \in [S(p) -> SessionTypes(p)] /\ \A u \in S(p) : session'[u] = IF u = s THEN new ELSE session[u]
  BY <1>1, <1>3, <1>t DEF CanaryShape
<1>8. CanaryShape(p)'
  BY <1>1, <1>4, <1>5, <1>7, <1>t DEF CanaryShape
<1>9. AttemptRules(p)'
  <2>1. \A r \in R(p) : Pends(r) => attempt[r].session # None
    BY <1>t DEF AttemptRules, Pends
  <2>. QED BY <1>1, <1>2, <1>5, <1>t, <2>1 DEF AttemptRules
<1>10. SessionRules(p)' /\ SessionsInOrder(p)'
  BY <1>3, <1>7, <1>t DEF SessionRules, SessionsInOrder, OpenSession
<1>11. ASSUME NEW u \in S(p)
       PROVE  /\ session'[u].reserved = session[u].reserved /\ session'[u].deadline = session[u].deadline
              /\ session[u].reason \notin {"OPERATOR_STOP", "UNKNOWN_MUTATION"} =>
                   session'[u].reason \notin {"OPERATOR_STOP", "UNKNOWN_MUTATION"}
  BY <1>3, <1>7
<1>12. ASSUME NEW r \in R(p)
       PROVE  /\ attempt'[r].session = attempt[r].session /\ attempt'[r].ordinal = attempt[r].ordinal
              /\ Pends(r)' => /\ Pends(r)
                              /\ session'[attempt[r].session].state \in {"RUNNING", "DRAINING"}
              /\ attempt'[r].state = "NONE" <=> attempt[r].state = "NONE"
              /\ arm'[r] = "NONE" <=> arm[r] = "NONE"
  <2>1. Pends(r)' => Pends(r) /\ fresh[r] = attempt[r]
    BY <1>1, <1>2 DEF Pends
  <2>2. Pends(r)' => session'[attempt[r].session].state \in {"RUNNING", "DRAINING"}
    <3>. SUFFICES ASSUME Pends(r)' PROVE session'[attempt[r].session].state \in {"RUNNING", "DRAINING"}
      OBVIOUS
    <3>1. Pends(r) /\ fresh[r] = attempt[r] /\ attempt[r].state # "TERMINAL"
      BY <2>1 DEF Pends
    <3>2. attempt[r].session \in S(p) /\ session[attempt[r].session].state \in {"RUNNING", "DRAINING"}
      BY <1>t, <3>1, AttemptFacts DEF OnePending, Pends
    <3>3. CASE attempt[r].session = s
      <4>1. ~Canary(p)!NonePending(s, fresh)
        BY <1>6, <3>1, <3>3
      <4>2. OpenSession(s) /\ session[s].state # "ARMED"
        BY <3>2, <3>3 DEF OpenSession
      <4>. QED BY <1>3, <1>7, <3>3, <4>1, <4>2
    <3>. QED BY <1>7, <3>2, <3>3
  <2>3. attempt'[r].state = "NONE" <=> attempt[r].state = "NONE"
    BY <1>1, <1>2 DEF Pends
  <2>4. attempt'[r].session = attempt[r].session /\ attempt'[r].ordinal = attempt[r].ordinal
    BY <1>1, <1>2
  <2>5. arm'[r] = "NONE" <=> arm[r] = "NONE"
    BY <1>5
  <2>. QED BY <2>1, <2>2, <2>3, <2>4, <2>5
<1>13. ASSUME NEW x \in Tasks, PastClaim(x)
       PROVE  order'[caller[x].review] = "PREPARED" /\ attempt'[caller[x].review].state = "CONSUMED"
  <2>1. caller[x].review \in R(p) /\ attempt[caller[x].review].state = "CONSUMED"
    BY <1>13, ClaimFacts
  <2>2. order[caller[x].review] = "PREPARED"
    BY <1>13 DEF CanaryInv, ClaimIsHeld
  <2>. QED BY <1>1, <1>2, <1>13, <2>1, <2>2
<1>14. ASSUME NEW r \in R(p), sent[r] # 0
       PROVE  /\ order'[r] # "NONE"
              /\ attempt'[r].state = "CONSUMED" \/ (/\ attempt'[r].state = "TERMINAL"
                                                    /\ trade'[r].state = "ENDED" /\ order'[r] = "SETTLED")
  BY <1>1, <1>2, <1>14 DEF CanaryInv, SentIsClaimed
<1>15. \A r \in R(p) : decisions[r] \subseteq decisions'[r]
  BY <1>1
<1>. QED BY <1>1, <1>8, <1>9, <1>10, <1>11, <1>12, <1>13, <1>14, <1>15, RowsAge

\* arm: the only pending attempt is the new one, in the next slot of the only open
\* session.
LEMMA NewAttemptStep ==
  ASSUME NEW p \in CanaryParts, CanaryInv(p), NEW r \in R(p), NEW s \in S(p), Canary(p)!Arm(r, s)
  PROVE  CanaryInv(p)'
<1>. USE PlanFacts
<1>. DEFINE fresh == Canary(p)!RefreshedAttempts(s)
            slot == Plans[p].slotOf[r]
            new == [Canary(p)!NoAttempt EXCEPT !.state = "ARMED", !.session = s, !.ordinal = slot]
            row == [session[s] EXCEPT !.state = "RUNNING", !.reserved = @ + 1]
<1>t. /\ CanaryShape(p) /\ AttemptRules(p) /\ SessionRules(p) /\ SessionsInOrder(p) /\ OnePending(p)
      /\ ClaimIsHeld(p) /\ SentIsClaimed(p) /\ LockIsHeld(p) /\ SlotsFilled(p)
  BY DEF CanaryInv
<1>0. session[s] \in SessionTypes(p) /\ session \in [S(p) -> SessionTypes(p)] /\ slot \in 1..Plans[p].slots
  BY <1>t DEF CanaryShape
<1>1. /\ arm[r] = "NONE" /\ session[s].state \in {"ARMED", "RUNNING"}
      /\ Canary(p)!NonePending(s, fresh)
      /\ session[s].reserved + 1 <= Plans[p].maxAttempts /\ slot = session[s].reserved + 1
      /\ arm' = [Canary(p)!ExpiredArms EXCEPT ![r] = "ARMED"]
      /\ attempt' = [fresh EXCEPT ![r] = new]
      /\ session' = [session EXCEPT ![s].state = "RUNNING", ![s].reserved = @ + 1]
      /\ UNCHANGED <<now, decisions, trade, order, claimed, caller, dispatch, sent>>
  BY DEF Canary!Arm, Canary!MayReserve, Canary!Active
<1>2. \A q \in R(p) : /\ fresh[q] \in AttemptTypes(p)
                      /\ fresh[q].session = attempt[q].session /\ fresh[q].ordinal = attempt[q].ordinal
                      /\ \/ fresh[q] = attempt[q]
                         \/ /\ Pends(q) /\ fresh[q].state = "TERMINAL" /\ fresh[q].reason # None
                            /\ \A x \in Tasks : PastClaim(x) => caller[x].review # q
                            /\ sent[q] # 0 => trade[q].state = "ENDED" /\ order[q] = "SETTLED"
  BY RefreshedFacts
<1>3. fresh \in [R(p) -> AttemptTypes(p)]
  BY <1>2 DEF Canary!RefreshedAttempts, R
<1>4. \A q \in R(p) : fresh[q].session = s => fresh[q].state = "TERMINAL"
  BY <1>1 DEF Canary!NonePending, R
<1>5. /\ new \in AttemptTypes(p) /\ new.state = "ARMED" /\ new.session = s /\ new.ordinal = slot
      /\ new.reason = None
  <2>1. slot \in 0..Plans[p].slots
    BY <1>0
  <2>. HIDE DEF slot
  <2>. QED BY <2>1 DEF AttemptTypes, Canary!NoAttempt
<1>6. /\ row \in SessionTypes(p) /\ row.state = "RUNNING" /\ row.reserved = session[s].reserved + 1
      /\ row.deadline = session[s].deadline /\ row.reason = session[s].reason
  <2>1. session[s].reserved + 1 \in 0..Plans[p].maxAttempts
    BY <1>0, <1>1 DEF SessionTypes
  <2>. QED BY <1>0, <2>1 DEF SessionTypes
<1>7. session' = [session EXCEPT ![s] = row]
  BY <1>0, <1>1
<1>8. /\ Canary(p)!ExpiredArms \in [R(p) -> {"NONE", "ARMED", "CONSUMED", "EXPIRED"}]
      /\ \A q \in R(p) : \/ Canary(p)!ExpiredArms[q] = arm[q]
                         \/ arm[q] = "ARMED" /\ Canary(p)!ExpiredArms[q] = "EXPIRED"
  BY <1>t DEF Canary!ExpiredArms, CanaryShape, R
<1>9. attempt[r].state = "NONE" /\ attempt[r].session = None /\ session[s].reason = None
  BY <1>1, <1>t DEF OnePending, AttemptRules, SessionsInOrder
<1>. HIDE DEF fresh, new, row
<1>10. /\ attempt' \in [R(p) -> AttemptTypes(p)] /\ attempt'[r] = new
       /\ \A q \in R(p) : q # r => attempt'[q] = fresh[q]
  BY <1>1, <1>3, <1>5
<1>11. /\ session' \in [S(p) -> SessionTypes(p)] /\ session'[s] = row
       /\ \A u \in S(p) : u # s => session'[u] = session[u]
  BY <1>0, <1>6, <1>7
<1>12. /\ arm' \in [R(p) -> {"NONE", "ARMED", "CONSUMED", "EXPIRED"}] /\ arm'[r] = "ARMED"
       /\ \A q \in R(p) : q # r => arm'[q] = arm[q] \/ (arm[q] = "ARMED" /\ arm'[q] = "EXPIRED")
  BY <1>1, <1>8
<1>13. CanaryShape(p)'
  BY <1>1, <1>10, <1>11, <1>12, <1>t DEF CanaryShape
<1>14. AttemptRules(p)'
  <2>1. ASSUME NEW q \in R(p), q # r
        PROVE  /\ fresh[q].session = None <=> fresh[q].state = "NONE"
               /\ fresh[q].state = "CONSUMED" => arm'[q] = "CONSUMED"
               /\ fresh[q].state = "TERMINAL" <=> fresh[q].reason # None
    BY <1>2, <1>12, <1>t, <2>1 DEF AttemptRules, Pends
  <2>. QED BY <1>5, <1>10, <2>1 DEF AttemptRules
<1>15. SessionRules(p)' /\ SessionsInOrder(p)'
  <2>1. OpenSession(s)
    BY <1>1 DEF OpenSession
  <2>. QED BY <1>6, <1>9, <1>11, <1>t, <2>1 DEF SessionRules, SessionsInOrder, OpenSession
<1>16. \A q \in R(p) : q # r => fresh[q].state \notin {"ARMED", "CONSUMED"}
  <2>. SUFFICES ASSUME NEW q \in R(p), fresh[q].state \in {"ARMED", "CONSUMED"} PROVE FALSE
    OBVIOUS
  <2>1. Pends(q) /\ fresh[q] = attempt[q]
    BY <1>2 DEF Pends
  <2>2. attempt[q].session \in S(p) /\ session[attempt[q].session].state \in {"RUNNING", "DRAINING"}
    BY <1>t, <2>1, AttemptFacts DEF OnePending, Pends
  <2>3. attempt[q].session = s
    BY <1>1, <1>t, <2>2 DEF SessionsInOrder, OpenSession
  <2>. QED BY <1>4, <2>1, <2>3
<1>17. OnePending(p)'
  <2>1. \A q \in R(p) : Pends(q)' => q = r
    BY <1>10, <1>16 DEF Pends
  <2>2. session'[attempt'[r].session].state = "RUNNING"
    BY <1>5, <1>6, <1>10, <1>11
  <2>3. \A q \in R(p) : arm'[q] = "NONE" <=> attempt'[q].state = "NONE"
    <3>1. ASSUME NEW q \in R(p), q # r PROVE arm'[q] = "NONE" <=> fresh[q].state = "NONE"
      BY <1>2, <1>12, <1>t, <3>1 DEF OnePending, Pends
    <3>. QED BY <1>5, <1>10, <1>12, <3>1
  <2>. QED BY <2>1, <2>2, <2>3 DEF OnePending
<1>18. \A x \in Tasks : ~PastClaim(x)
  <2>. SUFFICES ASSUME NEW x \in Tasks, PastClaim(x) PROVE FALSE
    OBVIOUS
  <2>1. caller[x].review \in R(p) /\ attempt[caller[x].review].state = "CONSUMED"
    BY ClaimFacts
  <2>. QED BY <1>2, <1>9, <1>16, <2>1
<1>19. \A x \in Tasks : caller[x].at # "outside" =>
         /\ caller[x].review \in R(p) /\ caller[x].review # r
         /\ attempt'[caller[x].review].state # "NONE"
         /\ attempt'[caller[x].review].session = attempt[caller[x].review].session
  <2>. SUFFICES ASSUME NEW x \in Tasks, caller[x].at # "outside"
       PROVE  /\ caller[x].review \in R(p) /\ caller[x].review # r
              /\ attempt'[caller[x].review].state # "NONE"
              /\ attempt'[caller[x].review].session = attempt[caller[x].review].session
    OBVIOUS
  <2>1. caller[x].review \in R(p) /\ attempt[caller[x].review].state # "NONE"
    BY <1>t DEF ClaimIsHeld
  <2>2. caller[x].review # r
    BY <1>9, <2>1
  <2>. QED BY <1>2, <1>10, <2>1, <2>2
<1>20. ClaimIsHeld(p)'
  BY <1>1, <1>18, <1>19 DEF ClaimIsHeld, PastClaim
<1>21. LockIsHeld(p)'
  <2>1. \A x \in Tasks : caller[x].at \notin {"inside", "sent"}
    BY <1>18 DEF PastClaim
  <2>. QED BY <1>1, <1>18, <1>19, <1>t, <2>1 DEF LockIsHeld, PastClaim
<1>22. SentIsClaimed(p)'
  <2>1. ASSUME NEW q \in R(p), sent[q] # 0
        PROVE  /\ sent[q] = 1 /\ q \in claimed /\ order[q] # "NONE" /\ "APPROVE" \in decisions[q]
               /\ attempt'[q].state = "TERMINAL" /\ trade[q].state = "ENDED" /\ order[q] = "SETTLED"
    <3>1. /\ sent[q] = 1 /\ q \in claimed /\ order[q] # "NONE" /\ "APPROVE" \in decisions[q]
          /\ attempt[q].state = "CONSUMED" \/ (/\ attempt[q].state = "TERMINAL"
                                               /\ trade[q].state = "ENDED" /\ order[q] = "SETTLED")
      BY <1>t, <2>1 DEF SentIsClaimed
    <3>2. q # r /\ attempt'[q] = fresh[q]
      BY <1>9, <1>10, <3>1
    <3>. QED BY <1>2, <1>16, <2>1, <3>1, <3>2
  <2>. QED BY <1>1, <2>1 DEF SentIsClaimed
<1>23. SlotsFilled(p)'
  <2>1. \A q \in R(p) : q # r => /\ attempt'[q].session = attempt[q].session
                                 /\ attempt'[q].ordinal = attempt[q].ordinal
    BY <1>2, <1>10
  <2>2. attempt'[r].session = s /\ attempt'[r].ordinal = session[s].reserved + 1
    BY <1>1, <1>5, <1>10
  <2>3. ASSUME NEW u \in S(p), u # s
        PROVE  /\ IsFiniteSet(Mine(p, u)') /\ Cardinality(Mine(p, u)') = session'[u].reserved
               /\ {attempt'[q].ordinal : q \in Mine(p, u)'} = 1..session'[u].reserved
    <3>1. Mine(p, u)' = Mine(p, u) /\ Mine(p, u) \subseteq R(p) /\ r \notin Mine(p, u)
      BY <1>9, <2>1, <2>2, <2>3 DEF Mine
    <3>2. {attempt'[q].ordinal : q \in Mine(p, u)} = {attempt[q].ordinal : q \in Mine(p, u)}
      BY <2>1, <3>1
    <3>3. session'[u] = session[u]
      BY <1>11, <2>3
    <3>. QED BY <1>t, <3>1, <3>2, <3>3 DEF SlotsFilled
  <2>4. /\ IsFiniteSet(Mine(p, s)') /\ Cardinality(Mine(p, s)') = session'[s].reserved
        /\ {attempt'[q].ordinal : q \in Mine(p, s)'} = 1..session'[s].reserved
    <3>. DEFINE n == session[s].reserved
    <3>0. n \in Nat
      BY <1>0 DEF SessionTypes
    <3>1. Mine(p, s)' = Mine(p, s) \cup {r} /\ Mine(p, s) \subseteq R(p) /\ r \notin Mine(p, s)
      BY <1>9, <2>1, <2>2 DEF Mine
    <3>2. /\ IsFiniteSet(Mine(p, s)) /\ Cardinality(Mine(p, s)) = n
          /\ {attempt[q].ordinal : q \in Mine(p, s)} = 1..n
      BY <1>t DEF SlotsFilled
    <3>3. IsFiniteSet(Mine(p, s)') /\ Cardinality(Mine(p, s)') = n + 1
      BY <3>1, <3>2, FS_AddElement
    <3>4. {attempt'[q].ordinal : q \in Mine(p, s)'} =
            {attempt[q].ordinal : q \in Mine(p, s)} \cup {n + 1}
      BY <2>1, <2>2, <3>1
    <3>5. (1..n) \cup {n + 1} = 1..(n + 1)
      BY <3>0
    <3>6. session'[s].reserved = n + 1
      BY <1>6, <1>11
    <3>. QED BY <3>2, <3>3, <3>4, <3>5, <3>6
  <2>. QED BY <2>3, <2>4 DEF SlotsFilled
<1>. QED BY <1>13, <1>14, <1>15, <1>17, <1>20, <1>21, <1>22, <1>23 DEF CanaryInv

\* What a step of one caller leaves to prove: the rows of the plan stay.
LEMMA CallerRows ==
  ASSUME NEW p \in CanaryParts, CanaryInv(p), UNCHANGED <<session, arm, attempt>>
  PROVE  SessionRules(p)' /\ AttemptRules(p)' /\ SessionsInOrder(p)' /\ OnePending(p)' /\ SlotsFilled(p)'
<1>1. SessionRules(p)' /\ AttemptRules(p)'
  BY DEF CanaryInv, SessionRules, AttemptRules
<1>2. SessionsInOrder(p)' /\ OnePending(p)'
  BY DEF CanaryInv, SessionsInOrder, OnePending, OpenSession, Pends
<1>3. SlotsFilled(p)'
  BY DEF CanaryInv, SlotsFilled, Mine
<1>. QED BY <1>1, <1>2, <1>3

\* Releasing a lock gives it to no one else.
LEMMA ReleasedFacts ==
  ASSUME NEW p \in CanaryParts, CanaryInv(p), NEW x \in Tasks
  PROVE  /\ Canary(p)!Released(x) \in [S(p) -> Tasks \cup {None}]
         /\ \A s \in S(p) : dispatch[s] # x => Canary(p)!Released(x)[s] = dispatch[s]
  BY DEF CanaryInv, CanaryShape, Canary!Released, S

\* final_dispatch.
LEMMA CallerStep ==
  ASSUME NEW p \in CanaryParts, CanaryInv(p), NEW x \in Tasks,
         \/ \E r \in R(p) : Canary(p)!TakeDispatchLock(x, r)
         \/ Canary(p)!Claim(x) \/ Canary(p)!Enter(x) \/ Canary(p)!Send(x)
         \/ Canary(p)!Leave(x) \/ Canary(p)!LoseConnection(x)
  PROVE  CanaryInv(p)'
<1>. USE PlanFacts
<1>t. /\ CanaryShape(p) /\ ClaimIsHeld(p) /\ SentIsClaimed(p) /\ LockIsHeld(p)
      /\ AttemptRules(p) /\ SessionsInOrder(p)
  BY DEF CanaryInv
<1>f. UNCHANGED <<now, session, arm, attempt, decisions, trade, order>>
  BY DEF Canary!TakeDispatchLock, Canary!Claim, Canary!Enter, Canary!Send, Canary!Leave,
         Canary!LoseConnection, Canary!durable
<1>r. SessionRules(p)' /\ AttemptRules(p)' /\ SessionsInOrder(p)' /\ OnePending(p)' /\ SlotsFilled(p)'
  BY <1>f, CallerRows
<1>c. /\ caller \in [Tasks -> CallerTypes(p)] /\ caller[x] \in CallerTypes(p) /\ now \in Nat
      /\ now \in 0..Plans[p].maxTime
  BY <1>t DEF CanaryShape
<1>s. \A y \in Tasks : caller[y].at # "outside" =>
        /\ caller[y].review \in R(p) /\ attempt[caller[y].review].state # "NONE"
        /\ attempt[caller[y].review].session \in S(p)
  BY <1>t, AttemptFacts DEF ClaimIsHeld
<1>1. ASSUME NEW r \in R(p), Canary(p)!TakeDispatchLock(x, r) PROVE CanaryInv(p)'
  <2>. DEFINE new == [Canary(p)!Outside EXCEPT !.at = "locked", !.review = r]
  <2>1. /\ attempt[r].session # None /\ dispatch[attempt[r].session] = None
        /\ dispatch' = [dispatch EXCEPT ![attempt[r].session] = x]
        /\ caller' = [caller EXCEPT ![x] = new] /\ UNCHANGED <<claimed, sent>>
    BY <1>1 DEF Canary!TakeDispatchLock, Canary!durable
  <2>2. new \in CallerTypes(p) /\ new.at = "locked" /\ new.review = r
    <3>1. 0 \in 0..Plans[p].maxTime
      OBVIOUS
    <3>. QED BY <3>1 DEF CallerTypes, Canary!Outside
  <2>. HIDE DEF new
  <2>3. attempt[r].state # "NONE" /\ attempt[r].session \in S(p)
    BY <1>t, <2>1, AttemptFacts DEF AttemptRules
  <2>4. /\ caller' \in [Tasks -> CallerTypes(p)] /\ caller'[x] = new
        /\ \A y \in Tasks : y # x => caller'[y] = caller[y]
    BY <1>c, <2>1, <2>2
  <2>5. /\ dispatch' \in [S(p) -> Tasks \cup {None}] /\ dispatch'[attempt[r].session] = x
        /\ \A s \in S(p) : dispatch[s] # None => dispatch'[s] = dispatch[s]
    BY <1>t, <2>1, <2>3 DEF CanaryShape
  <2>6. CanaryShape(p)'
    BY <1>t, <1>f, <2>1, <2>4, <2>5 DEF CanaryShape
  <2>7. ClaimIsHeld(p)'
    BY <1>t, <1>f, <2>1, <2>2, <2>3, <2>4 DEF ClaimIsHeld, PastClaim
  <2>8. SentIsClaimed(p)'
    BY <1>t, <1>f, <2>1 DEF SentIsClaimed
  <2>9. LockIsHeld(p)'
    <3>1. ~Plans[p].disconnects => \A y \in Tasks : y # x /\ caller[y].at # "outside" =>
            dispatch'[attempt[caller[y].review].session] = y
      BY <1>s, <1>t, <2>5 DEF LockIsHeld
    <3>. QED BY <1>t, <1>f, <2>2, <2>4, <2>5, <3>1 DEF LockIsHeld, PastClaim
  <2>. QED BY <1>r, <2>6, <2>7, <2>8, <2>9 DEF CanaryInv
<1>2. CASE Canary(p)!Claim(x)
  <2>. DEFINE r == caller[x].review
              new == [caller[x] EXCEPT !.at = "claimed"]
  <2>1. /\ caller[x].at = "locked" /\ Canary(p)!MayClaim(r) /\ claimed' = claimed \cup {r}
        /\ caller' = [caller EXCEPT ![x] = new] /\ UNCHANGED <<dispatch, sent>>
    BY <1>2 DEF Canary!Claim
  <2>2. new \in CallerTypes(p) /\ new.at = "claimed" /\ new.review = r
    BY <1>c DEF CallerTypes
  <2>3. /\ r \notin claimed /\ order[r] = "PREPARED" /\ "APPROVE" \in decisions[r]
        /\ attempt[r].state = "CONSUMED" /\ session[attempt[r].session].state = "RUNNING"
    BY <2>1 DEF Canary!MayClaim, Canary!BindingActive, Canary!PreparedEffect
  <2>4. r \in R(p) /\ attempt[r].session \in S(p)
    BY <1>s, <2>1
  <2>. HIDE DEF new, r
  <2>5. /\ caller' \in [Tasks -> CallerTypes(p)] /\ caller'[x] = new
        /\ \A y \in Tasks : y # x => caller'[y] = caller[y]
    BY <1>c, <2>1, <2>2
  <2>6. CanaryShape(p)'
    BY <1>t, <1>f, <2>1, <2>4, <2>5 DEF CanaryShape
  <2>7. sent[r] = 0
    BY <1>t, <2>3, <2>4 DEF SentIsClaimed
  <2>8. \A y \in Tasks : PastClaim(y) => caller[y].review # r
    BY <1>t, <2>3 DEF ClaimIsHeld
  <2>9. ClaimIsHeld(p)'
    BY <1>t, <1>f, <2>1, <2>2, <2>3, <2>4, <2>5, <2>7, <2>8 DEF ClaimIsHeld, PastClaim
  <2>10. SentIsClaimed(p)'
    BY <1>t, <1>f, <2>1 DEF SentIsClaimed
  <2>11. LockIsHeld(p)'
    <3>1. session[attempt[r].session].reason = None
      BY <1>t, <2>3, <2>4 DEF SessionsInOrder
    <3>2. ~Plans[p].disconnects => dispatch[attempt[r].session] = x
      BY <1>t, <2>1 DEF LockIsHeld, r
    <3>. QED BY <1>t, <1>f, <2>1, <2>2, <2>5, <3>1, <3>2 DEF LockIsHeld, PastClaim
  <2>. QED BY <1>r, <2>6, <2>9, <2>10, <2>11 DEF CanaryInv
<1>3. CASE Canary(p)!Enter(x)
  <2>. DEFINE r == caller[x].review
              new == [caller[x] EXCEPT !.at = "inside", !.since = now]
  <2>1. /\ caller[x].at = "claimed" /\ now < session[attempt[r].session].deadline
        /\ caller' = [caller EXCEPT ![x].at = "inside", ![x].since = now]
        /\ UNCHANGED <<claimed, dispatch, sent>>
    BY <1>3 DEF Canary!Enter, Canary!durable
  <2>2. new \in CallerTypes(p) /\ new.at = "inside" /\ new.review = r /\ new.since = now
    BY <1>c DEF CallerTypes
  <2>3. caller' = [caller EXCEPT ![x] = new]
    BY <1>c, <2>1
  <2>. HIDE DEF new
  <2>4. /\ caller' \in [Tasks -> CallerTypes(p)] /\ caller'[x] = new
        /\ \A y \in Tasks : y # x => caller'[y] = caller[y]
    BY <1>c, <2>2, <2>3
  <2>5. CanaryShape(p)'
    BY <1>t, <1>f, <2>1, <2>4 DEF CanaryShape
  <2>6. PastClaim(x) /\ caller[x].at # "outside"
    BY <2>1 DEF PastClaim
  <2>7. ClaimIsHeld(p)'
    BY <1>t, <1>f, <2>1, <2>2, <2>4, <2>6 DEF ClaimIsHeld, PastClaim
  <2>8. SentIsClaimed(p)'
    BY <1>t, <1>f, <2>1 DEF SentIsClaimed
  <2>9. LockIsHeld(p)'
    <3>1. now <= now + Plans[p].maxHold
      BY <1>c
    <3>. QED BY <1>t, <1>f, <2>1, <2>2, <2>4, <2>6, <3>1 DEF LockIsHeld, PastClaim
  <2>. QED BY <1>r, <2>5, <2>7, <2>8, <2>9 DEF CanaryInv
<1>4. CASE Canary(p)!Send(x)
  <2>. DEFINE r == caller[x].review
              new == [caller[x] EXCEPT !.at = "sent"]
  <2>1. /\ caller[x].at = "inside" /\ sent' = [sent EXCEPT ![r] = @ + 1]
        /\ caller' = [caller EXCEPT ![x] = new] /\ UNCHANGED <<claimed, dispatch>>
    BY <1>4 DEF Canary!Send, Canary!durable
  <2>2. new \in CallerTypes(p) /\ new.at = "sent" /\ new.review = r /\ new.since = caller[x].since
    BY <1>c DEF CallerTypes
  <2>3. PastClaim(x) /\ caller[x].at # "outside" /\ caller[x].at # "sent"
    BY <2>1 DEF PastClaim
  <2>4. /\ r \in R(p) /\ r \in claimed /\ order[r] = "PREPARED" /\ "APPROVE" \in decisions[r]
        /\ attempt[r].state = "CONSUMED" /\ sent[r] = 0
    BY <1>s, <1>t, <2>3 DEF ClaimIsHeld
  <2>. HIDE DEF new
  <2>5. /\ caller' \in [Tasks -> CallerTypes(p)] /\ caller'[x] = new
        /\ \A y \in Tasks : y # x => caller'[y] = caller[y]
    BY <1>c, <2>1, <2>2
  <2>6. /\ sent' \in [R(p) -> Nat] /\ sent'[r] = 1
        /\ \A q \in R(p) : q # r => sent'[q] = sent[q]
    BY <1>t, <2>1, <2>4 DEF CanaryShape
  <2>7. CanaryShape(p)'
    BY <1>t, <1>f, <2>1, <2>5, <2>6 DEF CanaryShape
  <2>8. ClaimIsHeld(p)'
    <3>1. \A y \in Tasks : y # x /\ PastClaim(y) => caller[y].review \in R(p) /\ caller[y].review # r
      BY <1>t, <2>3, ClaimFacts DEF ClaimIsHeld
    <3>2. \A y \in Tasks : y # x /\ PastClaim(y) => sent'[caller[y].review] = sent[caller[y].review]
      BY <2>6, <3>1
    <3>. QED BY <1>t, <1>f, <2>1, <2>2, <2>3, <2>5, <3>1, <3>2 DEF ClaimIsHeld, PastClaim
  <2>9. SentIsClaimed(p)'
    BY <1>t, <1>f, <2>1, <2>4, <2>6 DEF SentIsClaimed
  <2>10. LockIsHeld(p)'
    BY <1>t, <1>f, <2>1, <2>2, <2>3, <2>5 DEF LockIsHeld, PastClaim
  <2>. QED BY <1>r, <2>7, <2>8, <2>9, <2>10 DEF CanaryInv
<1>5. CASE Canary(p)!Leave(x)
  <2>1. /\ dispatch' = Canary(p)!Released(x) /\ caller' = [caller EXCEPT ![x] = Canary(p)!Outside]
        /\ UNCHANGED <<claimed, sent>>
    BY <1>5 DEF Canary!Leave, Canary!durable
  <2>2. Canary(p)!Outside \in CallerTypes(p) /\ Canary(p)!Outside.at = "outside"
    BY DEF CallerTypes, Canary!Outside
  <2>3. /\ caller' \in [Tasks -> CallerTypes(p)] /\ caller'[x].at = "outside"
        /\ \A y \in Tasks : y # x => caller'[y] = caller[y]
    BY <1>c, <2>1, <2>2
  <2>4. /\ dispatch' \in [S(p) -> Tasks \cup {None}]
        /\ \A s \in S(p) : dispatch[s] # x => dispatch'[s] = dispatch[s]
    BY <2>1, ReleasedFacts
  <2>5. CanaryShape(p)'
    BY <1>t, <1>f, <2>1, <2>3, <2>4 DEF CanaryShape
  <2>6. ClaimIsHeld(p)'
    BY <1>t, <1>f, <2>1, <2>3 DEF ClaimIsHeld, PastClaim
  <2>7. SentIsClaimed(p)'
    BY <1>t, <1>f, <2>1 DEF SentIsClaimed
  <2>8. LockIsHeld(p)'
    <3>1. ~Plans[p].disconnects => \A y \in Tasks : y # x /\ caller[y].at # "outside" =>
            dispatch'[attempt[caller[y].review].session] = y
      BY <1>s, <1>t, <2>4 DEF LockIsHeld
    <3>. QED BY <1>t, <1>f, <2>3, <3>1 DEF LockIsHeld, PastClaim
  <2>. QED BY <1>r, <2>5, <2>6, <2>7, <2>8 DEF CanaryInv
<1>6. CASE Canary(p)!LoseConnection(x)
  <2>1. Plans[p].disconnects /\ dispatch' = Canary(p)!Released(x) /\ UNCHANGED <<claimed, caller, sent>>
    BY <1>6 DEF Canary!LoseConnection, Canary!durable
  <2>2. dispatch' \in [S(p) -> Tasks \cup {None}]
    BY <2>1, ReleasedFacts
  <2>3. CanaryShape(p)'
    BY <1>t, <1>f, <2>1, <2>2 DEF CanaryShape
  <2>4. ClaimIsHeld(p)' /\ SentIsClaimed(p)'
    BY <1>t, <1>f, <2>1 DEF ClaimIsHeld, SentIsClaimed, PastClaim
  <2>5. LockIsHeld(p)'
    BY <1>t, <1>f, <2>1 DEF LockIsHeld, PastClaim
  <2>. QED BY <1>r, <2>3, <2>4, <2>5 DEF CanaryInv
<1>. QED BY <1>1, <1>2, <1>3, <1>4, <1>5, <1>6

\* Time passes, but not for a caller whose time inside is over.
LEMMA CanaryTick == ASSUME NEW p \in CanaryParts, CanaryInv(p), Canary(p)!Tick PROVE CanaryInv(p)'
<1>. USE PlanFacts
<1>1. /\ now < Plans[p].maxTime /\ now' = now + 1
      /\ \A x \in Tasks : caller[x].at \in {"inside", "sent"} => now < caller[x].since + Plans[p].maxHold
      /\ UNCHANGED <<session, arm, attempt, decisions, trade, order, claimed, caller, dispatch, sent>>
  BY DEF Canary!Tick, Canary!durable
<1>2. CanaryShape(p)'
  BY <1>1 DEF CanaryInv, CanaryShape
<1>3. ClaimIsHeld(p)' /\ SentIsClaimed(p)'
  BY <1>1 DEF CanaryInv, ClaimIsHeld, SentIsClaimed, PastClaim
<1>4. LockIsHeld(p)'
  <2>1. \A x \in Tasks : caller[x].at \in {"inside", "sent"} => now + 1 <= caller[x].since + Plans[p].maxHold
    BY <1>1 DEF CanaryInv, CanaryShape, CallerTypes
  <2>. QED BY <1>1, <2>1 DEF CanaryInv, LockIsHeld, PastClaim
<1>. QED BY <1>1, <1>2, <1>3, <1>4, CallerRows DEF CanaryInv

\* Every step of a canary plan preserves its CanaryInv: one case per action.
LEMMA CanaryStep == ASSUME NEW p \in CanaryParts, CanaryInv(p), Canary(p)!Next PROVE CanaryInv(p)'
<1>1. CASE Canary(p)!Tick
  BY <1>1, CanaryTick
<1>2. ASSUME NEW s \in S(p), \/ Canary(p)!ArmSession(s) \/ Canary(p)!Refresh(s)
                             \/ \E w \in Canary(p)!StopReasons : Canary(p)!Stop(s, w)
      PROVE  CanaryInv(p)'
  <2>1. CASE Canary(p)!Refresh(s)
    BY <2>1, RefreshStep
  <2>. QED BY <1>2, <2>1, SessionStep DEF Canary!StopReasons
<1>3. ASSUME NEW r \in R(p),
             \/ \E s \in S(p) : Canary(p)!Arm(r, s)
             \/ Canary(p)!ArmAgain(r)
             \/ Canary(p)!Consume(r) \/ \E d \in {"APPROVE", "REJECT"} : Canary(p)!Decide(r, d)
             \/ Canary(p)!CreateTrade(r) \/ Canary(p)!BindEntry(r) \/ Canary(p)!PrepareEffect(r)
             \/ Canary(p)!FailEffect(r) \/ Canary(p)!SettleEffect(r) \/ Canary(p)!EndTrade(r)
             \/ Canary(p)!MarkReconciled(r)
      PROVE  CanaryInv(p)'
  BY <1>3, NewAttemptStep, ArmStep, EntryStep
<1>4. ASSUME NEW x \in Tasks,
             \/ \E r \in R(p) : Canary(p)!TakeDispatchLock(x, r)
             \/ Canary(p)!Claim(x) \/ Canary(p)!Enter(x) \/ Canary(p)!Send(x)
             \/ Canary(p)!Leave(x) \/ Canary(p)!LoseConnection(x)
      PROVE  CanaryInv(p)'
  BY <1>4, CallerStep
<1>. QED BY <1>1, <1>2, <1>3, <1>4 DEF Canary!Next, S, R

\* A step of another part leaves a plan's variables and with them CanaryInv alone.
LEMMA CanaryStutter ==
  ASSUME NEW p \in CanaryParts, CanaryInv(p), UNCHANGED <<now, canaryVars>>
  PROVE  CanaryInv(p)'
<1>. USE DEF canaryVars
<1>1. SessionRules(p)' /\ AttemptRules(p)' /\ SessionsInOrder(p)' /\ OnePending(p)' /\ SlotsFilled(p)'
  BY CallerRows
<1>2. CanaryShape(p)'
  BY DEF CanaryInv, CanaryShape
<1>3. ClaimIsHeld(p)' /\ SentIsClaimed(p)' /\ LockIsHeld(p)'
  BY DEF CanaryInv, ClaimIsHeld, SentIsClaimed, LockIsHeld, PastClaim
<1>. QED BY <1>1, <1>2, <1>3 DEF CanaryInv

\* The invariant of the plan a behaviour is about.
CanaryRows == \A p \in CanaryParts : part = p => CanaryInv(p)

\* It holds in every behaviour of the parts.
THEOREM CanaryInvariant == PartsSpec => []CanaryRows
<1>1. PartsInit => CanaryRows
  <2>. SUFFICES ASSUME PartsInit, NEW p \in CanaryParts, part = p PROVE CanaryInv(p)
    BY DEF CanaryRows
  <2>1. PICK q \in CanaryParts : q = Planned /\ Canary(q)!Init
    BY DEF PartsInit
  <2>2. Planned = p
    BY DEF Planned
  <2>. QED BY <2>1, <2>2, CanaryInit
<1>2. CanaryRows /\ [PartsNext]_partsVars => CanaryRows'
  <2>. SUFFICES ASSUME CanaryRows, [PartsNext]_partsVars, NEW p \in CanaryParts, part' = p
       PROVE  CanaryInv(p)'
    BY DEF CanaryRows
  <2>1. part = p /\ (Canary(p)!Next \/ UNCHANGED <<now, canaryVars>>)
    BY PartStep
  <2>2. CanaryInv(p)
    BY <2>1 DEF CanaryRows
  <2>. QED BY <2>1, <2>2, CanaryStep, CanaryStutter
<1>. QED BY <1>1, <1>2, PTL DEF PartsSpec

\* A live order is that of a consumed attempt.
LEMMA LiveIsConsumed ==
  ASSUME NEW p \in CanaryParts, CanaryInv(p), NEW r \in R(p), Canary(p)!Live(r)
  PROVE  attempt[r].state = "CONSUMED"
<1>1. CASE \E x \in Tasks : caller[x].review = r /\ caller[x].at \in {"inside", "sent"}
  BY <1>1, ClaimFacts DEF PastClaim
<1>2. CASE sent[r] > 0 /\ ~(trade[r].state = "ENDED" /\ order[r] = "SETTLED")
  <2>1. sent[r] # 0
    BY <1>2 DEF CanaryInv, CanaryShape
  <2>. QED BY <1>2, <2>1 DEF CanaryInv, SentIsClaimed
<1>. QED BY <1>1, <1>2 DEF Canary!Live

\* One canary order at most is out of control and no review is sent twice, for every
\* plan, number of sessions and tasks, also when connections are lost: the one live
\* order is that of the one pending attempt.
THEOREM LiveEntryIsOne == PartsSpec => []OneLiveEntry
<1>1. CanaryRows => OneLiveEntry
  <2>. SUFFICES ASSUME CanaryRows, NEW p \in CanaryParts, part = p PROVE Canary(p)!OneLiveEntry
    BY DEF OneLiveEntry
  <2>1. CanaryInv(p)
    BY DEF CanaryRows
  <2>2. \A q, r \in R(p) : Canary(p)!Live(q) /\ Canary(p)!Live(r) => q = r
    BY <2>1, LiveIsConsumed DEF CanaryInv, OnePending, Pends
  <2>3. \A r \in R(p) : sent[r] <= 1
    <3>1. \A r \in R(p) : sent[r] = 0 \/ sent[r] = 1
      BY <2>1 DEF CanaryInv, SentIsClaimed
    <3>. QED BY <3>1
  <2>. QED BY <2>2, <2>3 DEF Canary!OneLiveEntry, R
<1>. QED BY <1>1, CanaryInvariant, PTL

\* The slots of every session are charged once and in order, and a session that ended
\* leaves nothing open.
THEOREM SessionAccounts == PartsSpec => []SessionIsAccounted
<1>1. CanaryRows => SessionIsAccounted
  <2>. SUFFICES ASSUME CanaryRows, NEW p \in CanaryParts, part = p PROVE Canary(p)!SessionIsAccounted
    BY DEF SessionIsAccounted
  <2>1. CanaryInv(p)
    BY DEF CanaryRows
  <2>2. Canary(p)!SlotsInOrder
    BY <2>1, SlotsMeaning DEF CanaryInv
  <2>3. ASSUME NEW r \in R(p), attempt[r].session # None,
               session[attempt[r].session].state \in {"INCOMPLETE", "ABORTED"}
        PROVE  attempt[r].state = "TERMINAL" /\ ~Canary(p)!Live(r)
    <3>1. attempt[r].state # "NONE"
      BY <2>1, <2>3 DEF CanaryInv, AttemptRules
    <3>2. ~Pends(r)
      BY <2>1, <2>3 DEF CanaryInv, OnePending
    <3>3. attempt[r].state = "TERMINAL"
      BY <2>1, <3>1, <3>2, AttemptFacts DEF Pends
    <3>. QED BY <2>1, <3>3, LiveIsConsumed
  <2>4. Canary(p)!EndedIsQuiet
    BY <2>3 DEF Canary!EndedIsQuiet, Canary!Ended, R
  <2>. QED BY <2>2, <2>4 DEF Canary!SessionIsAccounted
<1>. QED BY <1>1, CanaryInvariant, PTL

\* Only the call inside final_dispatch sends.
LEMMA OnlySendSends ==
  ASSUME NEW p \in CanaryParts, CanaryInv(p), Canary(p)!Next, NEW r \in R(p), sent'[r] # sent[r]
  PROVE  \E x \in Tasks : caller[x].at = "inside" /\ caller[x].review = r
<1>1. PICK x \in Tasks : Canary(p)!Send(x)
  <2>1. ASSUME \A x \in Tasks : ~Canary(p)!Send(x) PROVE UNCHANGED sent
    BY <2>1 DEF Canary!Next, Canary!Tick, Canary!ArmSession, Canary!Refresh, Canary!Stop, Canary!Arm,
         Canary!ArmAgain, Canary!Consume, Canary!Decide, Canary!CreateTrade, Canary!BindEntry,
         Canary!PrepareEffect, Canary!FailEffect, Canary!SettleEffect, Canary!EndTrade,
         Canary!MarkReconciled, Canary!TakeDispatchLock, Canary!Claim, Canary!Enter, Canary!Leave,
         Canary!LoseConnection
  <2>. QED BY <2>1
<1>2. caller[x].at = "inside" /\ sent' = [sent EXCEPT ![caller[x].review] = @ + 1]
  BY <1>1 DEF Canary!Send
<1>. QED BY <1>2 DEF CanaryInv, CanaryShape

\* While no connection is lost, no order leaves after an operator stopped the session or
\* after it ended, and none more than MaxHold after its deadline: the sender holds the
\* lock that stop waits for.
THEOREM StopIsFence == PartsSpec => StopFencesSends
<1>. DEFINE Fenced == \A p \in CanaryParts : part = p /\ ~Plans[p].disconnects => Canary(p)!SendIsFenced
<1>1. CanaryRows /\ [PartsNext]_partsVars => [Fenced]_partsVars
  <2>. SUFFICES ASSUME CanaryRows, [PartsNext]_partsVars, NEW p \in CanaryParts, part = p,
                       ~Plans[p].disconnects
       PROVE  Canary(p)!SendIsFenced
    OBVIOUS
  <2>. USE PlanFacts
  <2>1. CanaryInv(p) /\ (Canary(p)!Next \/ UNCHANGED <<now, canaryVars>>)
    BY PartStep DEF CanaryRows
  <2>2. ASSUME NEW r \in R(p), sent'[r] # sent[r]
        PROVE  LET s == session[attempt[r].session]
               IN  /\ s.state \in {"RUNNING", "DRAINING"}
                   /\ s.reason \notin {"OPERATOR_STOP", "UNKNOWN_MUTATION"}
                   /\ attempt[r].state = "CONSUMED"
                   /\ now <= s.deadline + Plans[p].maxHold
    <3>1. Canary(p)!Next
      BY <2>1, <2>2 DEF canaryVars
    <3>2. PICK x \in Tasks : caller[x].at = "inside" /\ caller[x].review = r
      BY <2>1, <2>2, <3>1, OnlySendSends
    <3>3. PastClaim(x)
      BY <3>2 DEF PastClaim
    <3>4. /\ attempt[r].session \in S(p) /\ attempt[r].state = "CONSUMED"
          /\ session[attempt[r].session].state \in {"RUNNING", "DRAINING"}
      BY <2>1, <3>2, <3>3, ClaimFacts
    <3>5. session[attempt[r].session].reason \notin {"OPERATOR_STOP", "UNKNOWN_MUTATION"}
      BY <2>1, <3>2, <3>3 DEF CanaryInv, LockIsHeld
    <3>6. caller[x].since < session[attempt[r].session].deadline /\ now <= caller[x].since + Plans[p].maxHold
      BY <2>1, <3>2 DEF CanaryInv, LockIsHeld
    <3>7. caller[x].since \in Nat /\ now \in Nat
      BY <2>1 DEF CanaryInv, CanaryShape, CallerTypes
    <3>8. session[attempt[r].session].deadline \in Nat
      BY <2>1, <3>4 DEF CanaryInv, CanaryShape, SessionTypes
    <3>9. now <= session[attempt[r].session].deadline + Plans[p].maxHold
      BY <3>6, <3>7, <3>8
    <3>. QED BY <3>4, <3>5, <3>9
  <2>. QED BY <2>2 DEF Canary!SendIsFenced, Canary!StopReasons, R
<1>. QED BY <1>1, CanaryInvariant, PTL DEF PartsSpec, StopFencesSends

-----------------------------------------------------------------------------
(***************************************************************************)
(* ReadonlyEvidence.  Samples are apart by the cadence, so that a repeated *)
(* observation is only ever the last one; a sealed run keeps its samples.  *)
(* The time a sample stands for ends before the next one, so the times     *)
(* that verification sums are disjoint parts of the window.                *)
(***************************************************************************)
\* Samples come in the order of time, at least Period - Slack apart, and within Slack
\* of their observation.
SamplesApart ==
  /\ \A i \in DOMAIN samples : /\ samples[i].received <= now
                               /\ samples[i].received - samples[i].observed \in (0 - Slack)..Slack
  /\ \A i, j \in DOMAIN samples : i < j =>
       samples[j].received - samples[i].received >= Period - Slack
  /\ \A i, j \in DOMAIN samples : i + 1 < j =>
       samples[j].received - samples[i].received >= 2 * (Period - Slack)

\* Effects commit after they began, and the receipt comes before the arm.
EffectTimes ==
  /\ \A e \in effects : e.committed <= now
  /\ receipt # None => receipt <= now
  /\ armed # None => receipt # None /\ armed <= now


\* The inductive invariant of the evidence.
EvidenceInv ==
  /\ Evidence!TypeOK /\ SamplesApart /\ EffectTimes
  /\ Evidence!ObservedOnce /\ Evidence!ArmedOnCleanWindow
  /\ Evidence!ReceiptEndsFresh /\ Evidence!ReceiptIsCoverage

\* What the assumption on the constants says of periods, windows and shares.
LEMMA EvidenceFacts ==
  /\ Slack \in Nat /\ Period \in Nat /\ Period > 2 * Slack /\ Window \in Nat \ {0} /\ Ttl \in Nat
  /\ EvidenceTime \in Nat /\ EvidenceEffects \in Nat /\ MinShare \in 0..100 /\ Quantile \in 1..100
  /\ None \notin Nat
  BY EffectConstants DEF Evidence!EvidenceConstants

\* Before the first sample there is nothing to be wrong about.
LEMMA EvidenceInit == Evidence!Init => EvidenceInv
<1>. SUFFICES ASSUME Evidence!Init PROVE EvidenceInv
  OBVIOUS
<1>. USE EvidenceFacts DEF Evidence!Init
<1>1. Evidence!TypeOK
  BY DEF Evidence!TypeOK, Evidence!Times
<1>2. SamplesApart /\ EffectTimes
  BY DEF SamplesApart, EffectTimes
<1>3. Evidence!ObservedOnce /\ Evidence!ArmedOnCleanWindow /\ Evidence!ReceiptEndsFresh
  BY DEF Evidence!ObservedOnce, Evidence!ArmedOnCleanWindow, Evidence!ReceiptEndsFresh
<1>4. Evidence!ReceiptIsCoverage
  BY DEF Evidence!ReceiptIsCoverage
<1>. QED BY <1>1, <1>2, <1>3, <1>4 DEF EvidenceInv

\* The count behind a quantile that is not wide.
LEMMA QuantileShare ==
  ASSUME NEW n \in Nat, NEW w \in Nat, NEW q \in 1..100, ~(n - w < (n * q + 99) \div 100)
  PROVE  w * 100 <= (100 - q) * n
<1>1. PICK m \in Nat : m = n * q
  OBVIOUS
<1>2. PICK k \in Nat : k = (m + 99) \div 100
  OBVIOUS
<1>3. k * 100 >= m
  BY <1>1, <1>2
<1>4. n - w >= k
  BY <1>1, <1>2
<1>5. (100 - q) * n = 100 * n - n * q
  OBVIOUS
<1>. QED BY <1>1, <1>2, <1>3, <1>4, <1>5

\* The samples of a symbol can be counted.
LEMMA SamplesCount ==
  ASSUME Evidence!TypeOK, NEW sym, NEW T \in SUBSET Evidence!SamplesWith(sym)
  PROVE  Evidence!Cardinality(T) \in Nat
<1>1. Len(samples) \in Nat /\ DOMAIN samples = 1..Len(samples)
  BY DEF Evidence!TypeOK
<1>2. IsFiniteSet(1..Len(samples))
  BY <1>1, FS_Interval
<1>3. T \in SUBSET (1..Len(samples))
  BY <1>1 DEF Evidence!SamplesWith
<1>4. Cardinality(T) \in Nat
  BY <1>2, <1>3, FS_Subset, FS_CardinalityType
<1>5. Evidence!Cardinality(T) = Cardinality(T)
  BY Zenon DEF Evidence!Cardinality, Cardinality
<1>. QED BY <1>4, <1>5

\* An appended sample is new and apart from the others.
LEMMA AppendStep ==
  ASSUME EvidenceInv, NEW observed \in (now - Slack)..(now + Slack), NEW content \in Observations,
         Evidence!AppendObservation(observed, content)
  PROVE  EvidenceInv'
<1>. USE EvidenceFacts
<1>. DEFINE new == [received |-> now, observed |-> observed, content |-> content]
            n == Len(samples)
<1>1. /\ run = "RECORDING" /\ samples' = Append(samples, new)
      /\ samples # <<>> => /\ samples[n].observed # observed
                           /\ now - samples[n].received >= Period - Slack
      /\ now - observed \in (0 - Slack)..Slack
      /\ UNCHANGED <<now, run, receipt, open, effects, armed>>
  BY DEF Evidence!AppendObservation, Evidence!Appends, Evidence!Last
<1>2. /\ now \in 0..EvidenceTime /\ samples \in Seq(Evidence!Samples) /\ n \in Nat
      /\ receipt = None /\ DOMAIN samples = 1..n
  BY <1>1 DEF EvidenceInv, Evidence!TypeOK, Evidence!Times
<1>3. observed \in (0 - Slack)..(EvidenceTime + Slack)
  BY <1>2
<1>4. new \in Evidence!Samples /\ new.received = now /\ new.observed = observed
  BY <1>2, <1>3 DEF Evidence!Samples, Evidence!Times
<1>5. \A i \in 1..n : samples[i].received \in Int /\ samples[i].observed \in Int
  <2>1. \A i \in 1..n : samples[i] \in Evidence!Samples
    BY <1>2
  <2>2. \A t \in Evidence!Samples : t.received \in Int /\ t.observed \in Int
    BY DEF Evidence!Samples, Evidence!Times
  <2>. QED BY <2>1, <2>2
<1>. HIDE DEF new, n
<1>6. /\ samples' \in Seq(Evidence!Samples) /\ Len(samples') = n + 1 /\ DOMAIN samples' = 1..(n + 1)
      /\ samples'[n + 1] = new /\ \A i \in 1..n : samples'[i] = samples[i]
  BY <1>1, <1>2, <1>4 DEF n
<1>7. n > 0 => /\ samples[n].observed # observed /\ now - samples[n].received >= Period - Slack
  BY <1>1, <1>2 DEF n
<1>8. SamplesApart
  BY DEF EvidenceInv
<1>9. \A i \in 1..n : now - samples[i].received >= Period - Slack
  <2>. SUFFICES ASSUME NEW i \in 1..n PROVE now - samples[i].received >= Period - Slack
    OBVIOUS
  <2>1. CASE i = n
    BY <1>2, <1>7, <2>1
  <2>2. CASE i < n
    <3>1. samples[n].received - samples[i].received >= Period - Slack /\ n \in 1..n
      BY <1>2, <1>8, <2>2 DEF SamplesApart
    <3>2. now - samples[n].received >= Period - Slack
      BY <1>2, <1>7, <2>2
    <3>. QED BY <1>2, <1>5, <3>1, <3>2
  <2>. QED BY <1>2, <2>1, <2>2
<1>10. \A i \in 1..n : i < n => now - samples[i].received >= 2 * (Period - Slack)
  <2>. SUFFICES ASSUME NEW i \in 1..n, i < n PROVE now - samples[i].received >= 2 * (Period - Slack)
    OBVIOUS
  <2>1. samples[n].received - samples[i].received >= Period - Slack /\ n \in 1..n
    BY <1>2, <1>8 DEF SamplesApart
  <2>2. now - samples[n].received >= Period - Slack
    BY <1>2, <1>7
  <2>3. samples[n].received \in Int /\ samples[i].received \in Int
    BY <1>5, <2>1
  <2>4. \A a, b \in Int : b - a >= Period - Slack /\ now - b >= Period - Slack =>
          now - a >= 2 * (Period - Slack)
    BY <1>2
  <2>. QED BY <2>1, <2>2, <2>3, <2>4
<1>11. \A i \in 1..n : samples[i].observed # observed
  <2>. SUFFICES ASSUME NEW i \in 1..n, samples[i].observed = observed PROVE FALSE
    OBVIOUS
  <2>1. i < n
    BY <1>2, <1>7
  <2>2. now - samples[i].received >= 2 * (Period - Slack)
    BY <1>10, <2>1
  <2>3. samples[i].received - samples[i].observed \in (0 - Slack)..Slack
    BY <1>2, <1>8 DEF SamplesApart
  <2>. QED BY <1>1, <1>2, <1>5, <2>2, <2>3
<1>12. Evidence!TypeOK'
  <2>1. \A i \in 2..(n + 1) : samples'[i].received - samples'[i - 1].received >= Period - Slack
    <3>. SUFFICES ASSUME NEW i \in 2..(n + 1)
         PROVE  samples'[i].received - samples'[i - 1].received >= Period - Slack
      OBVIOUS
    <3>1. i - 1 \in 1..n
      BY <1>2
    <3>2. CASE i = n + 1
      BY <1>4, <1>6, <1>9, <3>1, <3>2
    <3>3. CASE i \in 2..n
      <4>1. i \in 1..n /\ i - 1 < i
        BY <1>2, <3>3
      <4>2. samples'[i] = samples[i] /\ samples'[i - 1] = samples[i - 1]
        BY <1>6, <3>1, <4>1
      <4>. QED BY <1>2, <1>8, <3>1, <4>1, <4>2 DEF SamplesApart
    <3>. QED BY <1>2, <3>2, <3>3
  <2>. QED BY <1>1, <1>6, <2>1 DEF EvidenceInv, Evidence!TypeOK
<1>13. SamplesApart'
  <2>1. \A i \in 1..(n + 1) : /\ samples'[i].received <= now
                              /\ samples'[i].received - samples'[i].observed \in (0 - Slack)..Slack
    <3>. SUFFICES ASSUME NEW i \in 1..(n + 1)
         PROVE  /\ samples'[i].received <= now
                /\ samples'[i].received - samples'[i].observed \in (0 - Slack)..Slack
      OBVIOUS
    <3>1. CASE i = n + 1
      BY <1>1, <1>2, <1>4, <1>6, <3>1
    <3>2. CASE i \in 1..n
      BY <1>2, <1>6, <1>8, <3>2 DEF SamplesApart
    <3>. QED BY <1>2, <3>1, <3>2
  <2>2. \A i, j \in 1..(n + 1) : i < j => samples'[j].received - samples'[i].received >= Period - Slack
    <3>. SUFFICES ASSUME NEW i \in 1..(n + 1), NEW j \in 1..(n + 1), i < j
         PROVE  samples'[j].received - samples'[i].received >= Period - Slack
      OBVIOUS
    <3>1. i \in 1..n
      BY <1>2
    <3>2. CASE j = n + 1
      BY <1>4, <1>6, <1>9, <3>1, <3>2
    <3>3. CASE j \in 1..n
      BY <1>2, <1>6, <1>8, <3>1, <3>3 DEF SamplesApart
    <3>. QED BY <1>2, <3>2, <3>3
  <2>3. \A i, j \in 1..(n + 1) : i + 1 < j =>
          samples'[j].received - samples'[i].received >= 2 * (Period - Slack)
    <3>. SUFFICES ASSUME NEW i \in 1..(n + 1), NEW j \in 1..(n + 1), i + 1 < j
         PROVE  samples'[j].received - samples'[i].received >= 2 * (Period - Slack)
      OBVIOUS
    <3>1. i \in 1..n
      BY <1>2
    <3>2. CASE j = n + 1
      <4>1. i < n
        BY <1>2, <3>2
      <4>. QED BY <1>4, <1>6, <1>10, <3>1, <3>2, <4>1
    <3>3. CASE j \in 1..n
      BY <1>2, <1>6, <1>8, <3>1, <3>3 DEF SamplesApart
    <3>. QED BY <1>2, <3>2, <3>3
  <2>. QED BY <1>1, <1>6, <2>1, <2>2, <2>3 DEF SamplesApart
<1>14. Evidence!ObservedOnce'
  <2>. SUFFICES ASSUME NEW i \in 1..(n + 1), NEW j \in 1..(n + 1),
                       samples'[i].observed = samples'[j].observed
       PROVE  i = j
    BY <1>6 DEF Evidence!ObservedOnce
  <2>1. \A k \in 1..(n + 1) : k = n + 1 \/ k \in 1..n
    BY <1>2
  <2>2. CASE i \in 1..n /\ j \in 1..n
    BY <1>2, <1>6, <2>2 DEF EvidenceInv, Evidence!ObservedOnce
  <2>3. CASE i = n + 1 /\ j \in 1..n
    BY <1>4, <1>6, <1>11, <2>3
  <2>4. CASE i \in 1..n /\ j = n + 1
    BY <1>4, <1>6, <1>11, <2>4
  <2>. QED BY <2>1, <2>2, <2>3, <2>4
<1>15. EffectTimes' /\ Evidence!ArmedOnCleanWindow'
  BY <1>1 DEF EvidenceInv, EffectTimes, Evidence!ArmedOnCleanWindow
<1>16. Evidence!ReceiptEndsFresh' /\ Evidence!ReceiptIsCoverage'
  BY <1>1, <1>2 DEF Evidence!ReceiptEndsFresh, Evidence!ReceiptIsCoverage
<1>. QED BY <1>12, <1>13, <1>14, <1>15, <1>16 DEF EvidenceInv

\* The smaller and the larger of two numbers.
LEMMA MinMaxOfTwo ==
  ASSUME NEW a \in Int, NEW b \in Int
  PROVE  /\ Evidence!Min({a, b}) \in {a, b} /\ Evidence!Min({a, b}) <= a /\ Evidence!Min({a, b}) <= b
         /\ Evidence!Max({a, b}) \in {a, b} /\ Evidence!Max({a, b}) >= a /\ Evidence!Max({a, b}) >= b
<1>1. \E x \in {a, b} : \A y \in {a, b} : x =< y
  OBVIOUS
<1>2. \E x \in {a, b} : \A y \in {a, b} : x >= y
  OBVIOUS
<1>3. Evidence!Min({a, b}) \in {a, b} /\ \A y \in {a, b} : Evidence!Min({a, b}) =< y
  BY <1>1, Zenon DEF Evidence!Min
<1>4. Evidence!Max({a, b}) \in {a, b} /\ \A y \in {a, b} : Evidence!Max({a, b}) >= y
  BY <1>2, Zenon DEF Evidence!Max
<1>. QED BY <1>3, <1>4

\* Where a sample stands in time.
Received(i) == samples[i].received

\* Samples come one after the other.
LEMMA SamplesAscend ==
  ASSUME Evidence!TypeOK, SamplesApart
  PROVE  /\ Len(samples) \in Nat /\ DOMAIN samples = 1..Len(samples)
         /\ \A i \in DOMAIN samples : Received(i) \in Nat
         /\ \A i, j \in DOMAIN samples : i < j => Received(i) < Received(j)
<1>. USE EvidenceFacts
<1>1. Len(samples) \in Nat /\ DOMAIN samples = 1..Len(samples)
  BY DEF Evidence!TypeOK
<1>2. ASSUME NEW i \in DOMAIN samples PROVE Received(i) \in Nat
  <2>1. samples[i] \in Evidence!Samples
    BY DEF Evidence!TypeOK
  <2>. QED BY <2>1 DEF Received, Evidence!Samples, Evidence!Times
<1>3. \A i, j \in DOMAIN samples : i < j => Received(j) - Received(i) >= Period - Slack
  BY DEF SamplesApart, Received
<1>4. Period - Slack > 0
  OBVIOUS
<1>5. ASSUME NEW i \in DOMAIN samples, NEW j \in DOMAIN samples, i < j PROVE Received(i) < Received(j)
  <2>1. Received(i) \in Nat /\ Received(j) \in Nat
    BY <1>2
  <2>2. Received(j) - Received(i) >= Period - Slack
    BY <1>3, <1>5
  <2>. QED BY <1>4, <2>1, <2>2
<1>. QED BY <1>1, <1>2, <1>5

\* A sample stands for some time up to the next one, or to the end of the window.
LEMMA WeightFits ==
  ASSUME Evidence!TypeOK, SamplesApart, NEW ended \in Nat,
         \A i \in DOMAIN samples : Received(i) <= ended, NEW i \in DOMAIN samples
  PROVE  /\ Evidence!Weight(i, ended) \in Nat /\ Evidence!Weight(i, ended) <= Period
         /\ Received(i) + Evidence!Weight(i, ended) <= ended
         /\ \A j \in DOMAIN samples : i < j => Received(i) + Evidence!Weight(i, ended) <= Received(j)
<1>. USE EvidenceFacts
<1>. DEFINE x == Evidence!NextReceived(i, ended)
            d == x - Received(i)
            m == Evidence!Min({Period, d})
            w == Evidence!Weight(i, ended)
<1>1. /\ Len(samples) \in Nat /\ DOMAIN samples = 1..Len(samples)
      /\ \A k \in DOMAIN samples : Received(k) \in Nat
      /\ \A k, j \in DOMAIN samples : k < j => Received(k) < Received(j)
  BY SamplesAscend
<1>2. x = IF i < Len(samples) THEN Received(i + 1) ELSE ended
  BY DEF Evidence!NextReceived, Received
<1>3. w = Evidence!Max({0, m})
  BY DEF Evidence!Weight, Received
<1>. HIDE DEF x, w
<1>4. x \in Nat /\ Received(i) <= x /\ x <= ended /\ Received(i) \in Nat
  <2>1. CASE i < Len(samples)
    <3>1. i + 1 \in DOMAIN samples /\ i < i + 1
      BY <1>1, <2>1
    <3>2. Received(i + 1) \in Nat /\ Received(i) < Received(i + 1) /\ Received(i + 1) <= ended
      BY <1>1, <3>1
    <3>. QED BY <1>1, <1>2, <2>1, <3>2
  <2>2. CASE ~(i < Len(samples))
    BY <1>1, <1>2, <2>2
  <2>. QED BY <2>1, <2>2
<1>5. \A j \in DOMAIN samples : i < j => x <= Received(j)
  <2>. SUFFICES ASSUME NEW j \in DOMAIN samples, i < j PROVE x <= Received(j)
    OBVIOUS
  <2>1. i < Len(samples) /\ i + 1 \in DOMAIN samples
    BY <1>1
  <2>2. i + 1 = j \/ i + 1 < j
    BY <1>1
  <2>3. Received(i + 1) <= Received(j)
    BY <1>1, <2>1, <2>2
  <2>. QED BY <1>2, <2>1, <2>3
<1>6. d \in Nat /\ Received(i) + d = x
  BY <1>4
<1>. HIDE DEF d, m
<1>7. m \in {Period, d} /\ m <= Period /\ m <= d
  <2>1. Period \in Int /\ d \in Int
    BY <1>6
  <2>. QED BY <2>1, MinMaxOfTwo, Zenon DEF m
<1>8. m \in Nat
  BY <1>6, <1>7
<1>9. w \in {0, m} /\ w >= 0 /\ w >= m
  <2>1. 0 \in Int /\ m \in Int
    BY <1>8
  <2>. QED BY <1>3, <2>1, MinMaxOfTwo, Zenon
<1>10. w \in Nat /\ w <= Period /\ w <= d
  BY <1>6, <1>7, <1>8, <1>9
<1>11. Received(i) + w <= x
  BY <1>4, <1>6, <1>10
<1>12. Received(i) + w <= ended
  BY <1>4, <1>10, <1>11
<1>13. \A j \in DOMAIN samples : i < j => Received(i) + w <= Received(j)
  BY <1>1, <1>4, <1>5, <1>10, <1>11
<1>. QED BY <1>10, <1>12, <1>13 DEF w

\* The availability that verify_readonly_evidence sums is time in which the books
\* really showed the symbol.
LEMMA WeightIsObserved ==
  ASSUME Evidence!TypeOK, SamplesApart, NEW ended \in Nat,
         \A i \in DOMAIN samples : Received(i) <= ended, NEW sym
  PROVE  /\ Evidence!AvailableTime(sym, ended) \in Nat
         /\ Evidence!Cardinality({t \in 0..(ended - 1) : Evidence!Observed(sym, t)}) \in Nat
         /\ Evidence!AvailableTime(sym, ended)
              <= Evidence!Cardinality({t \in 0..(ended - 1) : Evidence!Observed(sym, t)})
<1>. USE EvidenceFacts
<1>. DEFINE W(i) == Evidence!Weight(i, ended)
            I == Evidence!SamplesWith(sym)
            U == {t \in 0..(ended - 1) : Evidence!Observed(sym, t)}
            f == [i \in DOMAIN samples |-> W(i)]
            A == [i \in DOMAIN samples |-> Received(i)..(Received(i) + W(i) - 1)]
<1>1. /\ Len(samples) \in Nat /\ DOMAIN samples = 1..Len(samples)
      /\ \A k \in DOMAIN samples : Received(k) \in Nat
  BY SamplesAscend
<1>2. \A i \in DOMAIN samples : /\ W(i) \in Nat /\ W(i) <= Period /\ Received(i) + W(i) <= ended
                                /\ \A j \in DOMAIN samples : i < j => Received(i) + W(i) <= Received(j)
  BY WeightFits
<1>3. I \in SUBSET DOMAIN samples /\ IsFiniteSet(I)
  <2>1. IsFiniteSet(1..Len(samples))
    BY <1>1, FS_Interval
  <2>2. I \in SUBSET (1..Len(samples))
    BY <1>1 DEF Evidence!SamplesWith
  <2>. HIDE DEF I
  <2>. QED BY <1>1, <2>1, <2>2, FS_Subset
<1>4. IsFiniteSet(U) /\ Cardinality(U) \in Nat
  <2>1. IsFiniteSet(0..(ended - 1))
    BY FS_Interval
  <2>2. U \in SUBSET (0..(ended - 1))
    OBVIOUS
  <2>. HIDE DEF U
  <2>. QED BY <2>1, <2>2, FS_Subset, FS_CardinalityType
<1>. HIDE DEF W
<1>5. ASSUME NEW i \in I PROVE A[i] \in SUBSET U
  <2>1. SUFFICES ASSUME NEW t \in Received(i)..(Received(i) + W(i) - 1) PROVE t \in U
    BY <1>3
  <2>2. /\ i \in DOMAIN samples /\ sym \in samples[i].content.available
    BY DEF Evidence!SamplesWith
  <2>3. t \in Nat /\ Received(i) <= t /\ t < Received(i) + W(i) /\ t < Received(i) + Period /\ t < ended
    BY <1>1, <1>2, <2>1, <2>2
  <2>4. ASSUME NEW j \in DOMAIN samples, Received(j) <= t PROVE j <= i
    <3>1. SUFFICES ASSUME i < j PROVE FALSE
      BY <1>1, <2>2
    <3>2. Received(i) + W(i) <= Received(j)
      BY <1>2, <2>2, <3>1
    <3>3. Received(i) \in Nat /\ Received(j) \in Nat /\ W(i) \in Nat
      BY <1>1, <1>2, <2>2
    <3>. QED BY <2>3, <2>4, <3>2, <3>3
  <2>5. Evidence!Observed(sym, t)
    BY <2>2, <2>3, <2>4 DEF Evidence!Observed, Received
  <2>. QED BY <2>3, <2>5
<1>6. ASSUME NEW i \in I PROVE f[i] = Cardinality(A[i]) /\ f[i] \in Nat
  <2>1. i \in DOMAIN samples
    BY <1>3
  <2>2. Received(i) \in Nat /\ W(i) \in Nat
    BY <1>1, <1>2, <2>1
  <2>3. Received(i) \in Int /\ Received(i) + W(i) - 1 \in Int
    BY <2>2
  <2>4. Cardinality(Received(i)..(Received(i) + W(i) - 1))
          = IF Received(i) > Received(i) + W(i) - 1 THEN 0 ELSE (Received(i) + W(i) - 1) - Received(i) + 1
    BY <2>3, FS_Interval, Zenon
  <2>5. Cardinality(Received(i)..(Received(i) + W(i) - 1)) = W(i)
    BY <2>2, <2>4
  <2>6. f[i] = W(i) /\ A[i] = Received(i)..(Received(i) + W(i) - 1)
    BY <2>1
  <2>. QED BY <2>2, <2>5, <2>6, Zenon
<1>7. ASSUME NEW i \in I, NEW j \in I, i # j PROVE A[i] \cap A[j] = {}
  <2>1. i \in DOMAIN samples /\ j \in DOMAIN samples /\ (i < j \/ j < i)
    BY <1>1, <1>3, <1>7
  <2>2. /\ Received(i) \in Nat /\ Received(j) \in Nat /\ W(i) \in Nat /\ W(j) \in Nat
        /\ Received(i) + W(i) <= Received(j) \/ Received(j) + W(j) <= Received(i)
    BY <1>1, <1>2, <2>1
  <2>3. (Received(i)..(Received(i) + W(i) - 1)) \cap (Received(j)..(Received(j) + W(j) - 1)) = {}
    BY <2>2
  <2>. QED BY <2>1, <2>3
<1>8. Evidence!AvailableTime(sym, ended) = SumFunctionOnSet(f, I)
  <2>. HIDE DEF f, I
  <2>1. Evidence!SumFunctionOnSet(f, I) = (CHOOSE g : SumEq(f, I, g))[I]
    BY Zenon DEF Evidence!SumFunctionOnSet, Evidence!FoldFunctionOnSet, Evidence!MapThenFoldSet, SumEq, Pick
  <2>2. Evidence!SumFunctionOnSet(f, I) = SumFunctionOnSet(f, I)
    BY <2>1, SumIsSolution, Zenon
  <2>3. Evidence!AvailableTime(sym, ended) = Evidence!SumFunctionOnSet(f, I)
    BY DEF Evidence!AvailableTime, f, I, W
  <2>. QED BY <2>2, <2>3
<1>9. Evidence!Cardinality(U) = Cardinality(U)
  BY Zenon DEF Evidence!Cardinality, Cardinality
<1>. HIDE DEF f, I, U, A
<1>10. SumFunctionOnSet(f, I) <= Cardinality(U)
  BY <1>3, <1>4, <1>5, <1>6, <1>7, SumOfParts
<1>11. SumFunctionOnSet(f, I) \in Nat
  BY <1>3, <1>6, SumNatural
<1>. QED BY <1>4, <1>8, <1>9, <1>10, <1>11, Zenon DEF U

\* What a verified window covers.
LEMMA VerifiedIsCovered ==
  ASSUME Evidence!TypeOK, SamplesApart, NEW ended \in 0..EvidenceTime, Evidence!Verifies(ended)
  PROVE  /\ ended >= Window
         /\ \A sym \in Symbols :
              Evidence!Cardinality({t \in 0..(ended - 1) : Evidence!Observed(sym, t)}) * 100 >= MinShare * ended
<1>. USE EvidenceFacts
<1>1. /\ ended >= Window /\ ended \in Nat
      /\ \A i \in DOMAIN samples : Received(i) <= ended
      /\ \A sym \in Symbols : Evidence!AvailableTime(sym, ended) * 100 >= MinShare * ended
  BY DEF Evidence!Verifies, Received
<1>2. ASSUME NEW sym \in Symbols
      PROVE  Evidence!Cardinality({t \in 0..(ended - 1) : Evidence!Observed(sym, t)}) * 100 >= MinShare * ended
  <2>. DEFINE a == Evidence!AvailableTime(sym, ended)
              c == Evidence!Cardinality({t \in 0..(ended - 1) : Evidence!Observed(sym, t)})
  <2>1. a \in Nat /\ c \in Nat /\ a <= c
    BY <1>1, WeightIsObserved
  <2>2. a * 100 >= MinShare * ended
    BY <1>1
  <2>. HIDE DEF a, c
  <2>3. PICK m \in Nat : m = MinShare * ended
    BY <1>1
  <2>4. c * 100 >= m
    BY <2>1, <2>2, <2>3
  <2>. QED BY <2>3, <2>4 DEF c
<1>. QED BY <1>1, <1>2

\* What a verified window ends with.
LEMMA VerifiedIsFresh ==
  ASSUME EvidenceInv, NEW ended \in 0..EvidenceTime, Evidence!Verifies(ended)
  PROVE  /\ \A sym \in Symbols :
              \E i \in DOMAIN samples : /\ samples[i].received \in (ended - Period)..ended
                                        /\ sym \in samples[i].content.available
                                        /\ i = Len(samples)
         /\ \A sym \in Symbols, metric \in Metrics :
              Evidence!Cardinality(Evidence!WideSamples(sym, metric)) * 100
                <= (100 - Quantile) * Evidence!Cardinality(Evidence!SamplesWith(sym))
<1>. USE EvidenceFacts
<1>1. samples \in Seq(Evidence!Samples) /\ samples # <<>>
  BY DEF EvidenceInv, Evidence!TypeOK, Evidence!Verifies
<1>2. Len(samples) \in DOMAIN samples /\ samples[Len(samples)] \in Evidence!Samples
  BY <1>1
<1>3. samples[Len(samples)].received \in Int
  BY <1>2 DEF Evidence!Samples, Evidence!Times
<1>4. /\ samples[Len(samples)].received <= ended
      /\ ended - samples[Len(samples)].received <= Period
      /\ samples[Len(samples)].content.available = Symbols
  BY <1>2 DEF Evidence!Verifies, Evidence!Last
<1>5. samples[Len(samples)].received \in (ended - Period)..ended
  BY <1>3, <1>4
<1>6. ASSUME NEW sym \in Symbols, NEW metric \in Metrics
      PROVE  Evidence!Cardinality(Evidence!WideSamples(sym, metric)) * 100
               <= (100 - Quantile) * Evidence!Cardinality(Evidence!SamplesWith(sym))
  <2>. DEFINE n == Evidence!Cardinality(Evidence!SamplesWith(sym))
              w == Evidence!Cardinality(Evidence!WideSamples(sym, metric))
  <2>0. Evidence!WideSamples(sym, metric) \subseteq Evidence!SamplesWith(sym)
    BY DEF Evidence!WideSamples
  <2>1. n \in Nat /\ w \in Nat
    BY <2>0, SamplesCount DEF EvidenceInv
  <2>2. ~(n - w < (n * Quantile + 99) \div 100)
    BY DEF Evidence!Verifies, Evidence!QuantileIsWide
  <2>. HIDE DEF n, w
  <2>3. w * 100 <= (100 - Quantile) * n
    BY <2>1, <2>2, QuantileShare
  <2>. QED BY <2>3 DEF n, w
<1>. QED BY <1>2, <1>4, <1>5, <1>6

\* Receipts, arms and effects.
LEMMA ReceiptStep ==
  ASSUME EvidenceInv,
         \/ Evidence!Tick \/ Evidence!Certify \/ Evidence!ArmSession
         \/ Evidence!BeginEffect \/ Evidence!CommitEffect
  PROVE  EvidenceInv'
<1>. USE EvidenceFacts
<1>f. UNCHANGED samples
  BY DEF Evidence!Tick, Evidence!Certify, Evidence!ArmSession, Evidence!BeginEffect, Evidence!CommitEffect
<1>t. /\ Evidence!TypeOK /\ SamplesApart /\ EffectTimes /\ Evidence!ObservedOnce
      /\ Evidence!ArmedOnCleanWindow /\ Evidence!ReceiptEndsFresh /\ Evidence!ReceiptIsCoverage
  BY DEF EvidenceInv
<1>n. now \in Nat /\ now \in 0..EvidenceTime /\ now <= now + 1
  BY <1>t DEF Evidence!TypeOK, Evidence!Times
<1>o. Evidence!ObservedOnce'
  BY <1>f, <1>t DEF Evidence!ObservedOnce
<1>s. \A i \in DOMAIN samples : samples[i].received \in Int
  <2>1. \A i \in DOMAIN samples : samples[i] \in Evidence!Samples
    BY <1>t DEF Evidence!TypeOK
  <2>2. \A t \in Evidence!Samples : t.received \in Int
    BY DEF Evidence!Samples, Evidence!Times
  <2>. QED BY <2>1, <2>2
<1>a. now' >= now /\ now' \in Nat => SamplesApart'
  BY <1>f, <1>n, <1>s, <1>t DEF SamplesApart
<1>b. UNCHANGED receipt => Evidence!ReceiptEndsFresh'
  BY <1>f, <1>t DEF Evidence!ReceiptEndsFresh, Evidence!SamplesWith, Evidence!WideSamples
<1>c. \A sym, t : Evidence!Observed(sym, t)' <=> Evidence!Observed(sym, t)
  BY <1>f DEF Evidence!Observed
<1>d. UNCHANGED receipt => Evidence!ReceiptIsCoverage'
  <2>. SUFFICES ASSUME UNCHANGED receipt PROVE Evidence!ReceiptIsCoverage'
    OBVIOUS
  <2>1. \A sym : {t \in 0..(receipt - 1) : Evidence!Observed(sym, t)'} = {t \in 0..(receipt - 1) : Evidence!Observed(sym, t)}
    BY <1>c
  <2>. QED BY <1>t, <2>1, Zenon DEF Evidence!ReceiptIsCoverage
<1>e. effects \subseteq [began : 0..EvidenceTime, committed : 0..EvidenceTime]
  BY <1>t DEF Evidence!TypeOK, Evidence!Times
<1>1. CASE Evidence!Tick
  <2>1. now' = now + 1 /\ now < EvidenceTime /\ UNCHANGED <<run, receipt, open, effects, armed>>
    BY <1>1 DEF Evidence!Tick
  <2>2. Evidence!TypeOK'
    BY <1>f, <1>n, <1>t, <2>1 DEF Evidence!TypeOK, Evidence!Times
  <2>3. EffectTimes'
    <3>1. \A e \in effects : e.committed \in Nat
      BY <1>e
    <3>2. (receipt # None => receipt \in Nat) /\ (armed # None => armed \in Nat)
      BY <1>t DEF Evidence!TypeOK, Evidence!Times
    <3>. QED BY <1>n, <1>t, <2>1, <3>1, <3>2 DEF EffectTimes
  <2>4. Evidence!ArmedOnCleanWindow'
    BY <1>t, <2>1 DEF Evidence!ArmedOnCleanWindow
  <2>. QED BY <1>a, <1>b, <1>d, <1>n, <1>o, <2>1, <2>2, <2>3, <2>4 DEF EvidenceInv
<1>2. CASE Evidence!Certify
  <2>1. /\ receipt = None /\ Evidence!Verifies(now) /\ receipt' = now /\ run' = "CERTIFIED"
        /\ UNCHANGED <<now, open, effects, armed>>
    BY <1>2 DEF Evidence!Certify
  <2>2. armed = None /\ now # None
    BY <1>n, <1>t, <2>1 DEF EffectTimes
  <2>3. Evidence!TypeOK'
    BY <1>f, <1>n, <1>t, <2>1, <2>2 DEF Evidence!TypeOK, Evidence!Times
  <2>4. EffectTimes' /\ Evidence!ArmedOnCleanWindow'
    BY <1>n, <1>t, <2>1, <2>2 DEF EffectTimes, Evidence!ArmedOnCleanWindow
  <2>5. Evidence!ReceiptEndsFresh'
    <3>1. /\ \A sym \in Symbols :
               \E i \in DOMAIN samples : /\ samples[i].received \in (now - Period)..now
                                         /\ sym \in samples[i].content.available
                                         /\ i = Len(samples)
          /\ \A sym \in Symbols, metric \in Metrics :
               Evidence!Cardinality(Evidence!WideSamples(sym, metric)) * 100
                 <= (100 - Quantile) * Evidence!Cardinality(Evidence!SamplesWith(sym))
      BY <1>n, <2>1, VerifiedIsFresh
    <3>2. \A sym, metric : /\ Evidence!SamplesWith(sym)' = Evidence!SamplesWith(sym)
                           /\ Evidence!WideSamples(sym, metric)' = Evidence!WideSamples(sym, metric)
      BY <1>f DEF Evidence!SamplesWith, Evidence!WideSamples
    <3>. QED BY <1>f, <2>1, <3>1, <3>2, Zenon DEF Evidence!ReceiptEndsFresh
  <2>6. Evidence!ReceiptIsCoverage'
    <3>1. /\ now >= Window
          /\ \A sym \in Symbols :
               Evidence!Cardinality({t \in 0..(now - 1) : Evidence!Observed(sym, t)}) * 100 >= MinShare * now
      BY <1>n, <1>t, <2>1, VerifiedIsCovered
    <3>2. \A sym : {t \in 0..(now - 1) : Evidence!Observed(sym, t)'} = {t \in 0..(now - 1) : Evidence!Observed(sym, t)}
      BY <1>c
    <3>. QED BY <2>1, <3>1, <3>2, Zenon DEF Evidence!ReceiptIsCoverage
  <2>. QED BY <1>a, <1>n, <1>o, <2>1, <2>3, <2>4, <2>5, <2>6 DEF EvidenceInv
<1>3. CASE Evidence!ArmSession
  <2>1. /\ receipt # None /\ armed' = now /\ UNCHANGED <<now, run, receipt, open, effects>>
        /\ \A e \in effects : e.began > receipt
        /\ now - receipt <= Ttl
    BY <1>3 DEF Evidence!ArmSession, Evidence!MayArm, Evidence!NoMutations
  <2>2. Evidence!TypeOK'
    BY <1>f, <1>n, <1>t, <2>1 DEF Evidence!TypeOK, Evidence!Times
  <2>3. EffectTimes' /\ Evidence!ArmedOnCleanWindow'
    BY <1>n, <1>t, <2>1 DEF EffectTimes, Evidence!ArmedOnCleanWindow
  <2>. QED BY <1>a, <1>b, <1>d, <1>n, <1>o, <2>1, <2>2, <2>3 DEF EvidenceInv
<1>4. CASE Evidence!BeginEffect
  <2>1. open' = now /\ UNCHANGED <<now, run, receipt, effects, armed>>
    BY <1>4 DEF Evidence!BeginEffect
  <2>2. Evidence!TypeOK'
    BY <1>f, <1>n, <1>t, <2>1 DEF Evidence!TypeOK, Evidence!Times
  <2>3. EffectTimes' /\ Evidence!ArmedOnCleanWindow'
    BY <1>t, <2>1 DEF EffectTimes, Evidence!ArmedOnCleanWindow
  <2>. QED BY <1>a, <1>b, <1>d, <1>n, <1>o, <2>1, <2>2, <2>3 DEF EvidenceInv
<1>5. CASE Evidence!CommitEffect
  <2>. DEFINE new == [began |-> open, committed |-> now]
  <2>1. /\ open # None /\ effects' = effects \cup {new} /\ open' = None
        /\ UNCHANGED <<now, run, receipt, armed>>
    BY <1>5 DEF Evidence!CommitEffect
  <2>2. new \in [began : 0..EvidenceTime, committed : 0..EvidenceTime] /\ new.committed = now
    BY <1>n, <1>t, <2>1 DEF Evidence!TypeOK, Evidence!Times
  <2>. HIDE DEF new
  <2>3. Evidence!TypeOK'
    BY <1>f, <1>t, <2>1, <2>2 DEF Evidence!TypeOK, Evidence!Times
  <2>4. EffectTimes'
    BY <1>n, <1>t, <2>1, <2>2 DEF EffectTimes
  <2>5. Evidence!ArmedOnCleanWindow'
    <3>1. armed # None => armed \in Nat /\ armed <= now
      BY <1>t DEF Evidence!TypeOK, Evidence!Times, EffectTimes
    <3>. QED BY <1>n, <1>t, <2>1, <2>2, <3>1 DEF Evidence!ArmedOnCleanWindow
  <2>. QED BY <1>a, <1>b, <1>d, <1>n, <1>o, <2>1, <2>3, <2>4, <2>5 DEF EvidenceInv
<1>. QED BY <1>1, <1>2, <1>3, <1>4, <1>5

\* Every step of the readonly evidence preserves EvidenceInv: one case per action.
LEMMA EvidenceStep == EvidenceInv /\ Evidence!Next => EvidenceInv'
  BY AppendStep, ReceiptStep DEF Evidence!Next

\* A step of another part leaves the evidence alone.
LEMMA EvidenceStutter == EvidenceInv /\ UNCHANGED <<now, evidenceVars>> => EvidenceInv'
<1>. SUFFICES ASSUME EvidenceInv, UNCHANGED <<now, evidenceVars>> PROVE EvidenceInv'
  OBVIOUS
<1>. USE DEF evidenceVars
<1>1. Evidence!TypeOK' /\ SamplesApart' /\ EffectTimes'
  BY DEF EvidenceInv, Evidence!TypeOK, SamplesApart, EffectTimes
<1>2. Evidence!ObservedOnce' /\ Evidence!ArmedOnCleanWindow'
  BY DEF EvidenceInv, Evidence!ObservedOnce, Evidence!ArmedOnCleanWindow
<1>3. Evidence!ReceiptEndsFresh'
  BY DEF EvidenceInv, Evidence!ReceiptEndsFresh, Evidence!SamplesWith, Evidence!WideSamples
<1>4. \A sym, t : Evidence!Observed(sym, t)' <=> Evidence!Observed(sym, t)
  BY DEF Evidence!Observed
<1>5. \A sym : {t \in 0..(receipt - 1) : Evidence!Observed(sym, t)'} = {t \in 0..(receipt - 1) : Evidence!Observed(sym, t)}
  BY <1>4
<1>6. UNCHANGED receipt /\ Evidence!ReceiptIsCoverage
  BY DEF EvidenceInv
<1>7. Evidence!ReceiptIsCoverage'
  BY <1>5, <1>6, Zenon DEF Evidence!ReceiptIsCoverage
<1>. QED BY <1>1, <1>2, <1>3, <1>7 DEF EvidenceInv

\* The invariant of the evidence while it is the part that runs.
EvidenceRows == part = "evidence" => EvidenceInv

\* The invariant of the evidence holds in every behaviour of the parts.
THEOREM EvidenceInvariant == PartsSpec => []EvidenceRows
<1>1. PartsInit => EvidenceRows
  BY EvidenceInit DEF PartsInit, EvidenceRows
<1>2. EvidenceRows /\ [PartsNext]_partsVars => EvidenceRows'
  BY PartStep, EvidenceStep, EvidenceStutter DEF EvidenceRows
<1>. QED BY <1>1, <1>2, PTL DEF PartsSpec

\* A recorder that repeats itself or pauses, late effects and late arms change nothing
\* about what a receipt states: the symbols were observed for the share of the window
\* it was asked for, instant by instant, it ends with fresh books, no observation counts
\* twice, and no effect that was stored by the arm began inside the window.
THEOREM EvidenceIsSound == PartsSpec => []ArmedOnEvidence
<1>1. EvidenceRows => ArmedOnEvidence
  BY DEF EvidenceRows, ArmedOnEvidence, Evidence!ArmedOnEvidence, EvidenceInv
<1>. QED BY <1>1, EvidenceInvariant, PTL

-----------------------------------------------------------------------------
\* The types of the budget's rows, from the budget's own proof.
BudgetRows == part = "budget" => TypeOK

\* The rows of the mutation budget keep their types when the budget
\* runs as one part of VenueEffects.
THEOREM BudgetPart == PartsSpec => []BudgetRows
<1>1. PartsInit => BudgetRows
  BY BudgetInit DEF PartsInit, BudgetRows, BudgetInv
<1>2. BudgetRows /\ [PartsNext]_partsVars => BudgetRows'
  BY PartStep, TypeStep DEF BudgetRows
<1>. QED BY <1>1, <1>2, PTL DEF PartsSpec

\* The rows of every part keep their types and the CHECK constraints of their tables,
\* for every plan and every set of effects, tasks and observations.
THEOREM PartsTypes == PartsSpec => []PartsTypeOK
<1>1. BudgetRows /\ JournalRows /\ CanaryRows /\ EvidenceRows => PartsTypeOK
  BY CanaryTypes
     DEF BudgetRows, JournalRows, CanaryRows, EvidenceRows, PartsTypeOK, JournalInv, EvidenceInv
<1>. QED BY <1>1, BudgetPart, JournalInvariant, CanaryInvariant, EvidenceInvariant, PTL

=============================================================================
