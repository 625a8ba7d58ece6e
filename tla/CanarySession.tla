---------------------------- MODULE CanarySession ----------------------------
(***************************************************************************)
(* Bounded canary sessions: canary_session.py and canary_arm.py.  An       *)
(* operator arms a session for an accepted receipt; the reviews of its     *)
(* plan are armed one by one, each taking the next slot; the risk engine   *)
(* consumes an arm and decides; the executor binds, prepares and sends the *)
(* one entry order inside final_dispatch; refresh closes attempts and,     *)
(* when none is left, the session.                                         *)
(*                                                                         *)
(* Repository calls are transactions and therefore steps.  final_dispatch  *)
(* holds a session lock on a connection of its own around the caller's     *)
(* venue call; stop waits for that lock, refresh does not.  The risk       *)
(* engine, the executor and the venue are outside the repository.  A call  *)
(* that raises is not a step: its transaction rolls everything back.       *)
(***************************************************************************)
EXTENDS Naturals, FiniteSets

CONSTANTS
  Sessions,     \* canary sessions of the project
  ReceiptOf,    \* the receipt a session is armed with
  Duration,     \* duration_ms of the plan
  MaxAttempts,  \* max_attempts of the plan
  Reviews,      \* reviews, each with the arm and the attempt that go with it
  SlotOf,       \* the position in the plan of the slot a review matches
  Expiry,       \* entry_expires_ts_ms of a review
  Slots,        \* number of slots in the plan
  Tasks,        \* executor tasks that enter final_dispatch
  MaxHold,      \* bound on the caller's time inside final_dispatch
  Disconnects,  \* whether a task may lose its connection
  Redecides,    \* whether a replayed review may be decided differently
  MaxTime,      \* bound on the database clock
  NoOne         \* SQL NULL, no task, no review

StopReasons == {"OPERATOR_STOP", "UNKNOWN_MUTATION"}
DrainReasons == StopReasons \cup {"SESSION_DEADLINE"}
CloseReasons == {"ENTRY_EXPIRED", "RISK_REJECTED", "TRADE_ENDED"}

CanaryConstants ==
  /\ DOMAIN ReceiptOf = Sessions
  /\ Duration \in Nat \ {0} /\ MaxAttempts \in Nat \ {0} /\ Slots \in Nat \ {0}
  /\ SlotOf \in [Reviews -> 1..Slots] /\ Expiry \in [Reviews -> Nat]
  /\ MaxHold \in Nat /\ MaxTime \in Nat /\ Disconnects \in BOOLEAN /\ Redecides \in BOOLEAN
  /\ NoOne \notin Sessions \cup Reviews \cup Tasks \cup CloseReasons \cup DrainReasons

VARIABLES
  now,       \* clock_timestamp()
  session,   \* rows of paper_canary_sessions
  arm,       \* status of a row of paper_canary_arms
  attempt,   \* rows of paper_canary_attempts
  decisions, \* distinct risk decisions on a review in the audit log
  trade,     \* the trade of a review's decision
  effect,    \* status of its entry effect
  claimed,   \* reviews in paper_canary_dispatch_claims
  task,      \* where each task is in final_dispatch
  lock,      \* the task whose connection holds the dispatch lock of a session
  sent       \* entry orders sent to the venue for a review

vars == <<now, session, arm, attempt, decisions, trade, effect, claimed, task,
          lock, sent>>

durable == <<session, arm, attempt, decisions, trade, effect, claimed>>

-----------------------------------------------------------------------------
Active == {"ARMED", "RUNNING"}
Ended == {"INCOMPLETE", "ABORTED"}

NoSession == [state |-> "NONE", deadline |-> 0, reserved |-> 0, reason |-> NoOne]
SessionRows == [state : Active \cup Ended \cup {"NONE", "DRAINING"},
                deadline : 0..(MaxTime + Duration), reserved : 0..MaxAttempts,
                reason : DrainReasons \cup {NoOne}]

NoAttempt == [state |-> "NONE", session |-> NoOne, ordinal |-> 0, bound |-> FALSE,
              reason |-> NoOne]
Attempts == [state : {"NONE", "ARMED", "CONSUMED", "TERMINAL"},
             session : Sessions \cup {NoOne}, ordinal : 0..Slots, bound : BOOLEAN,
             reason : CloseReasons \cup {NoOne}]

\* reconciled: last_reconciled_at is set.
NoTrade == [state |-> "NONE", reconciled |-> FALSE]
Trades == [state : {"NONE", "OPEN", "ENDED"}, reconciled : BOOLEAN]

Outside == [at |-> "outside", review |-> NoOne, since |-> 0]
TaskStates == [at : {"outside", "locked", "claimed", "inside", "sent"},
               review : Reviews \cup {NoOne}, since : 0..MaxTime]

\* A session that drains or was aborted says why; an attempt belongs to a session
\* from its reservation on; a consumed attempt has a consumed arm.
TypeOK ==
  /\ now \in 0..MaxTime
  /\ session \in [Sessions -> SessionRows]
  /\ arm \in [Reviews -> {"NONE", "ARMED", "CONSUMED", "EXPIRED"}]
  /\ attempt \in [Reviews -> Attempts]
  /\ decisions \in [Reviews -> SUBSET {"APPROVE", "REJECT"}]
  /\ trade \in [Reviews -> Trades]
  /\ effect \in [Reviews -> {"NONE", "PREPARED", "FAILED", "SETTLED"}]
  /\ claimed \subseteq Reviews
  /\ task \in [Tasks -> TaskStates]
  /\ lock \in [Sessions -> Tasks \cup {NoOne}]
  /\ sent \in [Reviews -> Nat]
  /\ \A s \in Sessions : session[s].state \in {"DRAINING", "ABORTED"} => session[s].reason # NoOne
  /\ \A r \in Reviews :
       /\ attempt[r].session = NoOne <=> attempt[r].state = "NONE"
       /\ attempt[r].state = "CONSUMED" => arm[r] = "CONSUMED"
       /\ attempt[r].state = "TERMINAL" <=> attempt[r].reason # NoOne

Init ==
  /\ now = 0
  /\ session = [s \in Sessions |-> NoSession]
  /\ arm = [r \in Reviews |-> "NONE"]
  /\ attempt = [r \in Reviews |-> NoAttempt]
  /\ decisions = [r \in Reviews |-> {}]
  /\ trade = [r \in Reviews |-> NoTrade]
  /\ effect = [r \in Reviews |-> "NONE"]
  /\ claimed = {}
  /\ task = [x \in Tasks |-> Outside]
  /\ lock = [s \in Sessions |-> NoOne]
  /\ sent = [r \in Reviews |-> 0]

\* asyncio.timeout ends the body of final_dispatch after MaxHold.
Tick ==
  /\ now < MaxTime
  /\ \A x \in Tasks : task[x].at \in {"inside", "sent"} => now < task[x].since + MaxHold
  /\ now' = now + 1
  /\ UNCHANGED <<durable, task, lock, sent>>

-----------------------------------------------------------------------------
(***************************************************************************)
(* The session.                                                            *)
(***************************************************************************)
\* arm_session: one open session per project, no open trade, an unused receipt.
\* (The clock's bound leaves room for the deadline.)
ArmSession(s) ==
  /\ session[s].state = "NONE" /\ now + Duration < MaxTime
  /\ \A u \in Sessions : session[u].state \notin Active \cup {"DRAINING"}
  /\ \A r \in Reviews : trade[r].state # "OPEN"
  /\ \A u \in Sessions : session[u].state # "NONE" => ReceiptOf[u] # ReceiptOf[s]
  /\ session' = [session EXCEPT ![s] =
       [NoSession EXCEPT !.state = "ARMED", !.deadline = now + Duration]]
  /\ UNCHANGED <<now, arm, attempt, decisions, trade, effect, claimed, task, lock, sent>>

Pending(r) == attempt[r].state \in {"ARMED", "CONSUMED"}

ArmExpired(r) == arm[r] \in {"ARMED", "EXPIRED"} /\ Expiry[r] < now

\* Faulty variant: effects are not looked at.
CloseReasonIgnoringEffects(r) ==
  IF ArmExpired(r) THEN "ENTRY_EXPIRED"
  ELSE IF decisions[r] = {"REJECT"} THEN "RISK_REJECTED"
  ELSE IF decisions[r] = {"APPROVE"} /\ trade[r].state = "ENDED" /\ trade[r].reconciled
       THEN "TRADE_ENDED" ELSE NoOne

\* Faulty variant: a rejection closes the attempt whatever else was decided.
CloseReasonAnyRejection(r) ==
  IF ArmExpired(r) THEN "ENTRY_EXPIRED"
  ELSE IF "REJECT" \in decisions[r] THEN "RISK_REJECTED"
  ELSE IF /\ decisions[r] = {"APPROVE"}
          /\ trade[r].state = "ENDED" /\ trade[r].reconciled
          /\ effect[r] \notin {"PREPARED", "FAILED"}
       THEN "TRADE_ENDED" ELSE NoOne

\* refresh_attempts: an arm that expired unconsumed, a single rejection, or an
\* ended and reconciled trade without an effect in doubt.
CloseReason(r) ==
  IF ArmExpired(r) THEN "ENTRY_EXPIRED"
  ELSE IF decisions[r] = {"REJECT"} THEN "RISK_REJECTED"
  ELSE IF /\ decisions[r] = {"APPROVE"}
          /\ trade[r].state = "ENDED" /\ trade[r].reconciled
          /\ effect[r] \notin {"PREPARED", "FAILED"}
       THEN "TRADE_ENDED" ELSE NoOne

Closes(s, r) == attempt[r].session = s /\ Pending(r) /\ CloseReason(r) # NoOne

RefreshedAttempts(s) ==
  [r \in Reviews |->
     IF Closes(s, r)
     THEN [attempt[r] EXCEPT !.state = "TERMINAL", !.reason = CloseReason(r)]
     ELSE attempt[r]]

RefreshedArms(s) ==
  [r \in Reviews |->
     IF attempt[r].session = s /\ Pending(r) /\ ArmExpired(r) THEN "EXPIRED" ELSE arm[r]]

NonePending(s, rows) ==
  \A r \in Reviews : rows[r].session = s => rows[r].state = "TERMINAL"

\* The deadline drains the session; a session without open attempts ends when
\* it drains or has used its slots.
AfterRefresh(s, rows) ==
  LET late == session[s].state \in Active /\ now >= session[s].deadline
      row == IF late THEN [session[s] EXCEPT !.state = "DRAINING", !.reason = "SESSION_DEADLINE"]
             ELSE session[s]
  IN  IF /\ NonePending(s, rows)
         /\ row.state = "DRAINING" \/ row.reserved >= MaxAttempts \/ row.reserved >= Slots
      THEN [row EXCEPT !.state = IF row.reason = "OPERATOR_STOP" THEN "ABORTED" ELSE "INCOMPLETE"]
      ELSE row

\* refresh, without the dispatch lock.
Refresh(s) ==
  /\ session[s].state # "NONE"
  /\ attempt' = RefreshedAttempts(s)
  /\ arm' = RefreshedArms(s)
  /\ session' = [session EXCEPT ![s] = AfterRefresh(s, RefreshedAttempts(s))]
  /\ <<attempt, arm, session>>' # <<attempt, arm, session>>
  /\ UNCHANGED <<now, decisions, trade, effect, claimed, task, lock, sent>>

\* Faulty variant: stop does not wait for the dispatch lock.
StopAtOnce(s, why) ==
  /\ session[s].state \in Active
  /\ session' = [session EXCEPT ![s].state = "DRAINING", ![s].reason = why]
  /\ UNCHANGED <<now, arm, attempt, decisions, trade, effect, claimed, task, lock, sent>>

\* stop: any other state is returned as it is.
Stop(s, why) ==
  /\ session[s].state \in Active /\ lock[s] = NoOne
  /\ session' = [session EXCEPT ![s].state = "DRAINING", ![s].reason = why]
  /\ UNCHANGED <<now, arm, attempt, decisions, trade, effect, claimed, task, lock, sent>>

-----------------------------------------------------------------------------
(***************************************************************************)
(* Arms and attempts.                                                      *)
(***************************************************************************)
\* reserve_attempt for a new slot.
MayReserve(s, r, rows) ==
  /\ session[s].state \in Active /\ now < session[s].deadline
  /\ Expiry[r] <= session[s].deadline
  /\ NonePending(s, rows)
  /\ session[s].reserved + 1 <= MaxAttempts
  /\ SlotOf[r] = session[s].reserved + 1

ExpiredArms == [q \in Reviews |-> IF arm[q] = "ARMED" /\ Expiry[q] < now THEN "EXPIRED" ELSE arm[q]]

NoOtherArm(r) == \A q \in Reviews \ {r} : ExpiredArms[q] # "ARMED"

\* arm: old arms of the account expire, no other may be open, the review is armed,
\* its slot reserved and charged, and the review goes to the risk engine.
Arm(r, s) ==
  LET rows == RefreshedAttempts(s)
  IN  /\ arm[r] = "NONE" /\ NoOtherArm(r) /\ Expiry[r] >= now
      /\ MayReserve(s, r, rows)
      /\ arm' = [ExpiredArms EXCEPT ![r] = "ARMED"]
      /\ attempt' = [rows EXCEPT ![r] =
           [NoAttempt EXCEPT !.state = "ARMED", !.session = s, !.ordinal = SlotOf[r]]]
      /\ session' = [session EXCEPT ![s].state = "RUNNING", ![s].reserved = @ + 1]
      /\ UNCHANGED <<now, decisions, trade, effect, claimed, task, lock, sent>>

\* A repeat finds the arm and its attempt; it only expires old arms, its own too.
ArmAgain(r) ==
  /\ attempt[r].session # NoOne /\ NoOtherArm(r)
  /\ arm' = ExpiredArms /\ arm' # arm
  /\ UNCHANGED <<now, session, attempt, decisions, trade, effect, claimed, task, lock, sent>>

InSession(r) ==
  /\ attempt[r].session # NoOne
  /\ session[attempt[r].session].state \in Active
  /\ now < session[attempt[r].session].deadline

\* consume: the arm of a session that is open becomes the risk engine's, or it is
\* found expired.  A repeat returns the consumed arm.
Consume(r) ==
  /\ arm[r] = "ARMED" /\ InSession(r)
  /\ IF Expiry[r] < now
     THEN arm' = [arm EXCEPT ![r] = "EXPIRED"] /\ UNCHANGED attempt
     ELSE /\ arm' = [arm EXCEPT ![r] = "CONSUMED"]
          /\ attempt' = [attempt EXCEPT ![r].state = IF @ = "ARMED" THEN "CONSUMED" ELSE @]
  /\ UNCHANGED <<now, session, decisions, trade, effect, claimed, task, lock, sent>>

\* The risk engine decides on a consumed arm; a replay may decide otherwise.
Decide(r, d) ==
  /\ arm[r] = "CONSUMED" /\ d \notin decisions[r]
  /\ decisions[r] = {} \/ Redecides
  /\ decisions' = [decisions EXCEPT ![r] = @ \cup {d}]
  /\ UNCHANGED <<now, session, arm, attempt, trade, effect, claimed, task, lock, sent>>

-----------------------------------------------------------------------------
(***************************************************************************)
(* The entry.                                                              *)
(***************************************************************************)
CreateTrade(r) ==
  /\ "APPROVE" \in decisions[r] /\ trade[r].state = "NONE"
  /\ trade' = [trade EXCEPT ![r].state = "OPEN"]
  /\ UNCHANGED <<now, session, arm, attempt, decisions, effect, claimed, task, lock, sent>>

\* _entry_binding with active=True.
BindingActive(r) ==
  /\ "APPROVE" \in decisions[r] /\ arm[r] = "CONSUMED"
  /\ attempt[r].state = "CONSUMED"
  /\ session[attempt[r].session].state = "RUNNING"
  /\ now < session[attempt[r].session].deadline /\ now < Expiry[r]

\* bind_entry comes before the effect exists.
BindEntry(r) ==
  /\ BindingActive(r) /\ ~attempt[r].bound /\ effect[r] = "NONE"
  /\ attempt' = [attempt EXCEPT ![r].bound = TRUE]
  /\ UNCHANGED <<now, session, arm, decisions, trade, effect, claimed, task, lock, sent>>

PrepareEffect(r) ==
  /\ attempt[r].bound /\ effect[r] = "NONE" /\ trade[r].state = "OPEN"
  /\ effect' = [effect EXCEPT ![r] = "PREPARED"]
  /\ UNCHANGED <<now, session, arm, attempt, decisions, trade, claimed, task, lock, sent>>

\* The caller of final_dispatch holds the lock of the trade, which recovery and the
\* handlers that end the trade need too.
Dispatching(r) == \E x \in Tasks : task[x].review = r

\* The executor records a failed call; recovery settles an effect after the call.
FailEffect(r) ==
  /\ effect[r] = "PREPARED" /\ ~Dispatching(r)
  /\ effect' = [effect EXCEPT ![r] = "FAILED"]
  /\ UNCHANGED <<now, session, arm, attempt, decisions, trade, claimed, task, lock, sent>>

SettleEffect(r) ==
  /\ effect[r] \in {"PREPARED", "FAILED"} /\ ~Dispatching(r)
  /\ effect' = [effect EXCEPT ![r] = "SETTLED"]
  /\ UNCHANGED <<now, session, arm, attempt, decisions, trade, claimed, task, lock, sent>>

\* The journal of the trade reaches FLAT or CANCELLED; mark_reconciled comes at
\* any time after the creation.
EndTrade(r) ==
  /\ trade[r].state = "OPEN" /\ ~Dispatching(r)
  /\ trade' = [trade EXCEPT ![r].state = "ENDED"]
  /\ UNCHANGED <<now, session, arm, attempt, decisions, effect, claimed, task, lock, sent>>

MarkReconciled(r) ==
  /\ trade[r].state # "NONE" /\ ~trade[r].reconciled
  /\ trade' = [trade EXCEPT ![r].reconciled = TRUE]
  /\ UNCHANGED <<now, session, arm, attempt, decisions, effect, claimed, task, lock, sent>>

-----------------------------------------------------------------------------
(***************************************************************************)
(* final_dispatch.                                                         *)
(***************************************************************************)
Released(x) == [s \in Sessions |-> IF lock[s] = x THEN NoOne ELSE lock[s]]

TakeDispatchLock(x, r) ==
  /\ task[x].at = "outside" /\ attempt[r].session # NoOne
  /\ lock[attempt[r].session] = NoOne
  /\ lock' = [lock EXCEPT ![attempt[r].session] = x]
  /\ task' = [task EXCEPT ![x] = [Outside EXCEPT !.at = "locked", !.review = r]]
  /\ UNCHANGED <<now, durable, sent>>

\* _assert_prepared_effect: the request in the journal is the decision's.
PreparedEffect(r) == attempt[r].bound /\ effect[r] = "PREPARED"

MayClaim(r) == BindingActive(r) /\ PreparedEffect(r) /\ r \notin claimed

\* The claim commits before the caller's code runs.
Claim(x) ==
  /\ task[x].at = "locked" /\ MayClaim(task[x].review)
  /\ claimed' = claimed \cup {task[x].review}
  /\ task' = [task EXCEPT ![x].at = "claimed"]
  /\ UNCHANGED <<now, session, arm, attempt, decisions, trade, effect, lock, sent>>

\* The clock is read again; then the caller's code runs for at most MaxHold.
Enter(x) ==
  LET r == task[x].review
  IN  /\ task[x].at = "claimed"
      /\ now < session[attempt[r].session].deadline /\ now < Expiry[r]
      /\ task' = [task EXCEPT ![x].at = "inside", ![x].since = now]
      /\ UNCHANGED <<now, durable, lock, sent>>

Send(x) ==
  /\ task[x].at = "inside"
  /\ sent' = [sent EXCEPT ![task[x].review] = @ + 1]
  /\ task' = [task EXCEPT ![x].at = "sent"]
  /\ UNCHANGED <<now, durable, lock>>

\* Every way out, a refusal, an error and a crash included, gives the lock back.
\* A claim stays.
Leave(x) ==
  /\ task[x].at # "outside"
  /\ lock' = Released(x)
  /\ task' = [task EXCEPT ![x] = Outside]
  /\ UNCHANGED <<now, durable, sent>>

\* PostgreSQL frees the lock of a lost connection while the caller goes on.
LoseConnection(x) ==
  /\ Disconnects /\ task[x].at \in {"inside", "sent"}
  /\ Released(x) # lock
  /\ lock' = Released(x)
  /\ UNCHANGED <<now, durable, task, sent>>

-----------------------------------------------------------------------------
Next ==
  \/ Tick
  \/ \E s \in Sessions : ArmSession(s) \/ Refresh(s) \/ \E w \in StopReasons : Stop(s, w)
  \/ \E r \in Reviews :
       \/ \E s \in Sessions : Arm(r, s)
       \/ ArmAgain(r)
       \/ Consume(r) \/ \E d \in {"APPROVE", "REJECT"} : Decide(r, d)
       \/ CreateTrade(r) \/ BindEntry(r) \/ PrepareEffect(r)
       \/ FailEffect(r) \/ SettleEffect(r) \/ EndTrade(r) \/ MarkReconciled(r)
  \/ \E x \in Tasks :
       \/ \E r \in Reviews : TakeDispatchLock(x, r)
       \/ Claim(x) \/ Enter(x) \/ Send(x) \/ Leave(x) \/ LoseConnection(x)

Spec == Init /\ [][Next]_vars

-----------------------------------------------------------------------------
\* An order is under control when its trade has ended and its effect is settled.
Live(r) ==
  \/ \E x \in Tasks : task[x].review = r /\ task[x].at \in {"inside", "sent"}
  \/ sent[r] > 0 /\ ~(trade[r].state = "ENDED" /\ effect[r] = "SETTLED")

\* At any time one canary order at most is out of control, over all sessions,
\* slots, tasks, stops, expiries and restarts of the project, and a review is sent
\* once, although several tasks enter final_dispatch with it, crash inside and try
\* again.
OneLiveEntry ==
  /\ \A q, r \in Reviews : Live(q) /\ Live(r) => q = r
  /\ \A r \in Reviews : sent[r] <= 1

\* The attempts of a session fill its slots in order without gaps; each is
\* charged once and none is given back.
SlotsInOrder ==
  \A s \in Sessions :
    LET mine == {r \in Reviews : attempt[r].session = s}
    IN  /\ {attempt[r].ordinal : r \in mine} = 1..session[s].reserved
        /\ Cardinality(mine) = session[s].reserved

\* A session that ended leaves nothing open: no attempt, no call and no order
\* out of control.
EndedIsQuiet ==
  \A r \in Reviews :
    attempt[r].session # NoOne /\ session[attempt[r].session].state \in Ended =>
      attempt[r].state = "TERMINAL" /\ ~Live(r)

\* The attempts of a session tell how it was used: every slot is charged once and
\* in order, and an ended session has no attempt, trade or effect that still moves.
SessionIsAccounted == SlotsInOrder /\ EndedIsQuiet

\* An order leaves only from a session that no operator stopped and that has not
\* ended, for an attempt that is still open: stop waits for a call in progress
\* and none starts after it.  (The deadline is not such a fence: refresh drains
\* a session at its deadline while a call that began before goes on.)
SendIsFenced ==
  \A r \in Reviews : sent'[r] # sent[r] =>
    LET s == session[attempt[r].session]
    IN  /\ s.state \in {"RUNNING", "DRAINING"}
        /\ s.reason \notin StopReasons
        /\ attempt[r].state = "CONSUMED"
        /\ now <= s.deadline + MaxHold

=============================================================================
