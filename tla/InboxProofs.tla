----------------------------- MODULE InboxProofs -----------------------------
(***************************************************************************)
(* Machine-checked proofs about Inbox, for every set of envelopes,         *)
(* consumers and processes.                                                *)
(***************************************************************************)
EXTENDS Inbox, TLAPS

\* The key and the body of a busy process.
LEMMA KeyType ==
  ASSUME TypeOK, NEW p \in Procs, proc[p] # Idle
  PROVE  /\ proc[p] \in Busy /\ proc[p].env \in Envelopes
         /\ Key(p) \in Keys /\ Body(p) \in Bodies
BY InboxConstants DEF TypeOK, Busy, Key, Body, Keys

\* A process whose program counter is not "idle" is busy.
LEMMA NotIdle ==
  ASSUME NEW p \in Procs, proc[p].pc \in {"received", "handling", "acking", "working"}
  PROVE  proc[p] # Idle
BY DEF Idle

\* Moving the program counter of p changes nothing else.
LEMMA BecomeEffect ==
  ASSUME TypeOK, NEW p \in Procs, proc[p] # Idle,
         NEW pc \in {"received", "handling", "acking", "working"},
         proc' = Become(p, pc)
  PROVE  /\ proc' \in [Procs -> Busy \cup {Idle}]
         /\ proc'[p].pc = pc /\ proc'[p].env = proc[p].env
         /\ Key(p)' = Key(p) /\ Body(p)' = Body(p)
         /\ \A q \in Procs \ {p} : proc'[q] = proc[q]
<1> DEFINE c == [proc[p] EXCEPT !.pc = pc]
<1>1. proc[p] \in Busy
  BY KeyType
<1>2. c \in Busy /\ c.pc = pc /\ c.env = proc[p].env
  BY <1>1 DEF Busy
<1>3. proc' = [proc EXCEPT ![p] = c]
  BY DEF Become
<1> HIDE DEF c
<1>4. proc'[p] = c
  BY <1>3 DEF TypeOK
<1> QED BY <1>2, <1>3, <1>4 DEF TypeOK, Key, Body

\* A process that becomes idle.
LEMMA IdleEffect ==
  ASSUME TypeOK, NEW p \in Procs, proc' = [proc EXCEPT ![p] = Idle]
  PROVE  /\ proc' \in [Procs -> Busy \cup {Idle}]
         /\ proc'[p].pc = "idle" /\ ProcGood(p)'
         /\ \A q \in Procs \ {p} : proc'[q] = proc[q]
<1>1. proc'[p] = Idle
  BY DEF TypeOK
<1> QED BY <1>1 DEF TypeOK, Idle, ProcGood

-----------------------------------------------------------------------------
\* A step of one process that leaves the table alone.
LEMMA ProcStep ==
  ASSUME InboxInv, NEW p \in Procs, proc' \in [Procs -> Busy \cup {Idle}],
         \A q \in Procs \ {p} : proc'[q] = proc[q],
         inbox' = inbox, effects' = effects, wins' = wins, stream' = stream,
         acked' = acked, ProcGood(p)',
         proc'[p].pc = "handling" =>
           \A q \in Procs \ {p} : proc[q].pc = "handling" => Key(q) # Key(p)'
  PROVE  InboxInv'
<1>1. \A q \in Procs \ {p} : Key(q)' = Key(q) /\ Body(q)' = Body(q)
  BY DEF Key, Body
<1>2. TypeOK'
  BY DEF InboxInv, TypeOK
<1>3. LockInv'
  BY <1>1 DEF InboxInv, LockInv
<1>4. ProcInv'
  BY <1>1 DEF InboxInv, ProcInv, ProcGood
<1>5. WinInv' /\ AckedIsCompleted'
  BY DEF InboxInv, WinInv, AckedIsCompleted
<1> QED BY <1>2, <1>3, <1>4, <1>5 DEF InboxInv

\* A step of process p that changes row k, which was not completed and which
\* no other process has locked.
LEMMA RowStep ==
  ASSUME InboxInv, NEW p \in Procs, NEW k \in Keys, NEW r \in Row,
         proc' \in [Procs -> Busy \cup {Idle}],
         \A q \in Procs \ {p} : proc'[q] = proc[q],
         inbox' = [inbox EXCEPT ![k] = r],
         inbox[k].status # "COMPLETED", r.status # "ABSENT",
         SameIdentity(inbox[k], r.body),
         \A q \in Procs \ {p} : proc[q].pc = "handling" => Key(q) # k,
         effects' \in [Keys -> Nat], wins' \in [Keys -> Nat],
         stream' = stream, acked' = acked,
         ProcGood(p)', proc'[p].pc # "handling",
         effects'[k] <= wins'[k],
         wins'[k] = (IF r.status = "COMPLETED" THEN 1 ELSE 0),
         \A j \in Keys \ {k} : effects'[j] = effects[j] /\ wins'[j] = wins[j]
  PROVE  InboxInv'
<1>1. inbox' \in [Keys -> Row] /\ inbox'[k] = r
      /\ \A j \in Keys \ {k} : inbox'[j] = inbox[j]
  BY DEF InboxInv, TypeOK
<1>2. \A q \in Procs \ {p} : Key(q)' = Key(q) /\ Body(q)' = Body(q)
  BY DEF Key, Body
<1>3. TypeOK'
  BY <1>1 DEF InboxInv, TypeOK
<1>4. LockInv'
  BY <1>2 DEF InboxInv, LockInv
<1>5. ProcInv'
  <2> SUFFICES ASSUME NEW q \in Procs \ {p} PROVE ProcGood(q)'
    BY DEF ProcInv
  <2>1. ProcGood(q)
    BY DEF InboxInv, ProcInv
  <2>2. CASE Key(q) = k
    BY <1>1, <1>2, <2>1, <2>2 DEF ProcGood, SameIdentity
  <2>3. CASE Key(q) # k /\ proc[q].pc \in {"handling", "working", "acking"}
    <3>1. Key(q) \in Keys
      BY <2>3, NotIdle, KeyType DEF InboxInv
    <3> QED BY <1>1, <1>2, <2>1, <2>3, <3>1 DEF ProcGood, SameIdentity
  <2>4. CASE proc[q].pc \notin {"handling", "working", "acking"}
    BY <2>4 DEF ProcGood
  <2> QED BY <2>2, <2>3, <2>4
<1>6. WinInv'
  BY <1>1 DEF InboxInv, WinInv
<1>7. AckedIsCompleted'
  <2> SUFFICES ASSUME NEW c \in Consumers, NEW e \in acked[c]
               PROVE  /\ inbox'[<<c, MsgOf[e]>>].status = "COMPLETED"
                      /\ inbox'[<<c, MsgOf[e]>>].body = BodyOf[e]
    BY DEF AckedIsCompleted
  <2>1. /\ <<c, MsgOf[e]>> \in Keys
        /\ inbox[<<c, MsgOf[e]>>].status = "COMPLETED"
        /\ inbox[<<c, MsgOf[e]>>].body = BodyOf[e]
    BY InboxConstants DEF InboxInv, TypeOK, AckedIsCompleted, Keys
  <2> QED BY <1>1, <2>1
<1> QED BY <1>3, <1>4, <1>5, <1>6, <1>7 DEF InboxInv

-----------------------------------------------------------------------------
\* Completion and failure inside message_transaction.
LEMMA DeliveryEnds ==
  ASSUME InboxInv, NEW p \in Procs, CompleteDelivery(p) \/ FailDelivery(p)
  PROVE  InboxInv'
<1>1. proc[p].pc = "handling" /\ proc[p] # Idle
  BY NotIdle DEF CompleteDelivery, FailDelivery
<1>2. TypeOK /\ Key(p) \in Keys /\ Body(p) \in Bodies
  BY <1>1, KeyType DEF InboxInv
<1>3. /\ inbox[Key(p)].status # "COMPLETED" /\ SameIdentity(inbox[Key(p)], Body(p))
      /\ \A q \in Procs \ {p} : proc[q].pc = "handling" => Key(q) # Key(p)
  BY <1>1 DEF InboxInv, ProcInv, ProcGood, LockInv
<1>4. /\ effects[Key(p)] \in Nat /\ wins[Key(p)] = 0 /\ effects[Key(p)] <= wins[Key(p)]
  BY <1>2, <1>3 DEF InboxInv, WinInv, TypeOK
<1>5. stream' = stream /\ acked' = acked
  BY DEF CompleteDelivery, FailDelivery
<1>6. CASE CompleteDelivery(p)
  <2> DEFINE r == [status |-> "COMPLETED", body |-> Body(p), expired |-> FALSE]
  <2>1. /\ r \in Row /\ r.status = "COMPLETED" /\ r.body = Body(p)
    BY <1>2 DEF Row, Statuses
  <2>2. inbox' = [inbox EXCEPT ![Key(p)] = r]
    BY <1>6 DEF CompleteDelivery
  <2> HIDE DEF r
  <2>3. inbox'[Key(p)] = r
    BY <1>2, <2>2 DEF TypeOK
  <2>4. /\ effects' \in [Keys -> Nat] /\ wins' \in [Keys -> Nat]
        /\ effects'[Key(p)] = 1 /\ wins'[Key(p)] = 1
        /\ \A j \in Keys \ {Key(p)} : effects'[j] = effects[j] /\ wins'[j] = wins[j]
    BY <1>2, <1>4, <1>6 DEF CompleteDelivery, TypeOK
  <2>5. /\ proc' \in [Procs -> Busy \cup {Idle}]
        /\ \A q \in Procs \ {p} : proc'[q] = proc[q]
        /\ proc'[p].pc # "handling" /\ ProcGood(p)'
    <3>1. CASE proc' = Become(p, "acking")
      <4>1. /\ proc' \in [Procs -> Busy \cup {Idle}]
            /\ proc'[p].pc = "acking"
            /\ Key(p)' = Key(p) /\ Body(p)' = Body(p)
            /\ \A q \in Procs \ {p} : proc'[q] = proc[q]
        BY <1>1, <1>2, <3>1, BecomeEffect
      <4> QED BY <2>1, <2>3, <4>1 DEF ProcGood
    <3>2. CASE proc' = [proc EXCEPT ![p] = Idle]
      BY <1>2, <3>2, IdleEffect
    <3> QED BY <1>6, <3>1, <3>2 DEF CompleteDelivery
  <2>6. /\ effects'[Key(p)] <= wins'[Key(p)]
        /\ wins'[Key(p)] = (IF r.status = "COMPLETED" THEN 1 ELSE 0)
        /\ SameIdentity(inbox[Key(p)], r.body) /\ r.status # "ABSENT"
    BY <1>3, <2>1, <2>4
  <2> QED BY <1>2, <1>3, <1>5, <2>1, <2>2, <2>4, <2>5, <2>6, RowStep
<1>7. CASE FailDelivery(p)
  <2> DEFINE r == [status |-> "FAILED", body |-> Body(p), expired |-> FALSE]
  <2>1. /\ r \in Row /\ r.status = "FAILED" /\ r.body = Body(p)
    BY <1>2 DEF Row, Statuses
  <2>2. /\ inbox' = [inbox EXCEPT ![Key(p)] = r]
        /\ effects' = effects /\ wins' = wins
    BY <1>7 DEF FailDelivery
  <2> HIDE DEF r
  <2>3. /\ proc' \in [Procs -> Busy \cup {Idle}]
        /\ \A q \in Procs \ {p} : proc'[q] = proc[q]
        /\ proc'[p].pc # "handling" /\ ProcGood(p)'
    BY <1>2, <1>7, IdleEffect DEF FailDelivery
  <2>4. effects' \in [Keys -> Nat] /\ wins' \in [Keys -> Nat]
    BY <1>2, <2>2 DEF TypeOK
  <2> QED BY <1>2, <1>3, <1>4, <1>5, <2>1, <2>2, <2>3, <2>4, RowStep
<1> QED BY <1>6, <1>7

\* The repository calls outside a transaction.
LEMMA DirectStep ==
  ASSUME InboxInv, NEW p \in Procs,
         DirectClaim(p) \/ CompleteMessage(p) \/ FailMessage(p)
  PROVE  InboxInv'
<1>1. proc[p] # Idle
  BY NotIdle DEF DirectClaim, CompleteMessage, FailMessage
<1>2. TypeOK /\ Key(p) \in Keys /\ Body(p) \in Bodies /\ inbox[Key(p)] \in Row
  BY <1>1, KeyType DEF InboxInv, TypeOK
<1>3. \A q \in Procs \ {p} : proc[q].pc = "handling" => Key(q) # Key(p)
  BY DEF DirectClaim, CompleteMessage, FailMessage, Unlocked
<1>4. stream' = stream /\ acked' = acked /\ effects' = effects
  BY DEF DirectClaim, CompleteMessage, FailMessage
<1>5. effects \in [Keys -> Nat] /\ wins \in [Keys -> Nat]
  BY <1>2 DEF TypeOK
<1>6. inbox[Key(p)].status # "COMPLETED" =>
        wins[Key(p)] = 0 /\ effects[Key(p)] \in Nat /\ effects[Key(p)] <= 0
  BY <1>2, <1>5 DEF InboxInv, WinInv
<1>7. CASE DirectClaim(p)
  <2> DEFINE r == [status |-> "PROCESSING", body |-> Body(p), expired |-> FALSE]
  <2>1. r \in Row /\ r.status = "PROCESSING" /\ r.body = Body(p)
    BY <1>2 DEF Row, Statuses
  <2>2. /\ inbox' = [inbox EXCEPT ![Key(p)] = r] /\ wins' = wins
        /\ inbox[Key(p)].status # "COMPLETED"
        /\ SameIdentity(inbox[Key(p)], Body(p))
    BY <1>7 DEF DirectClaim, Claimable
  <2> HIDE DEF r
  <2>3. inbox'[Key(p)] = r
    BY <1>2, <2>2 DEF TypeOK
  <2>4. /\ proc' \in [Procs -> Busy \cup {Idle}]
        /\ proc'[p].pc = "working"
        /\ Key(p)' = Key(p) /\ Body(p)' = Body(p)
        /\ \A q \in Procs \ {p} : proc'[q] = proc[q]
    BY <1>1, <1>2, <1>7, BecomeEffect DEF DirectClaim
  <2>5. ProcGood(p)'
    BY <2>1, <2>3, <2>4 DEF ProcGood
  <2> QED BY <1>2, <1>3, <1>4, <1>5, <1>6, <2>1, <2>2, <2>4, <2>5, RowStep
<1>8. CASE CompleteMessage(p)
  <2>1. CASE inbox[Key(p)].status = "PROCESSING"
    <3> DEFINE r == [inbox[Key(p)] EXCEPT !.status = "COMPLETED"]
    <3>1. r \in Row /\ r.status = "COMPLETED" /\ r.body = inbox[Key(p)].body
      BY <1>2 DEF Row, Statuses
    <3>2. /\ inbox' = [inbox EXCEPT ![Key(p)] = r]
          /\ wins' = [wins EXCEPT ![Key(p)] = @ + 1]
          /\ proc' = Become(p, "acking")
      BY <1>8, <2>1 DEF CompleteMessage
    <3>3. inbox[Key(p)].body = Body(p)
      BY <1>8 DEF CompleteMessage, InboxInv, ProcInv, ProcGood
    <3> HIDE DEF r
    <3>4. inbox'[Key(p)] = r
      BY <1>2, <3>2 DEF TypeOK
    <3>5. /\ proc' \in [Procs -> Busy \cup {Idle}]
          /\ proc'[p].pc = "acking"
          /\ Key(p)' = Key(p) /\ Body(p)' = Body(p)
          /\ \A q \in Procs \ {p} : proc'[q] = proc[q]
      BY <1>1, <1>2, <3>2, BecomeEffect
    <3>6. ProcGood(p)'
      BY <3>1, <3>3, <3>4, <3>5 DEF ProcGood
    <3>7. /\ wins' \in [Keys -> Nat] /\ wins'[Key(p)] = 1
          /\ \A j \in Keys \ {Key(p)} : wins'[j] = wins[j]
      BY <1>2, <1>5, <1>6, <2>1, <3>2
    <3>8. SameIdentity(inbox[Key(p)], r.body)
      BY <3>1 DEF SameIdentity
    <3>9. /\ effects'[Key(p)] <= wins'[Key(p)]
          /\ wins'[Key(p)] = (IF r.status = "COMPLETED" THEN 1 ELSE 0)
          /\ r.status # "ABSENT" /\ proc'[p].pc # "handling"
          /\ inbox[Key(p)].status # "COMPLETED"
      BY <1>4, <1>6, <2>1, <3>1, <3>5, <3>7
    <3> QED BY <1>2, <1>3, <1>4, <1>5, <3>1, <3>2, <3>5, <3>6, <3>7, <3>8, <3>9,
               RowStep
  <2>2. CASE inbox[Key(p)].status # "PROCESSING"
    <3>1. /\ proc' = [proc EXCEPT ![p] = Idle] /\ inbox' = inbox /\ wins' = wins
      BY <1>8, <2>2 DEF CompleteMessage
    <3> QED BY <1>2, <1>4, <3>1, IdleEffect, ProcStep
  <2> QED BY <2>1, <2>2
<1>9. CASE FailMessage(p)
  <2>1. /\ proc' \in [Procs -> Busy \cup {Idle}]
        /\ proc'[p].pc = "idle" /\ ProcGood(p)'
        /\ \A q \in Procs \ {p} : proc'[q] = proc[q]
        /\ wins' = wins
    BY <1>2, <1>9, IdleEffect DEF FailMessage
  <2>2. CASE inbox[Key(p)].status = "PROCESSING"
    <3> DEFINE r == [inbox[Key(p)] EXCEPT !.status = "FAILED"]
    <3>1. r \in Row /\ r.status = "FAILED" /\ r.body = inbox[Key(p)].body
      BY <1>2 DEF Row, Statuses
    <3>2. inbox' = [inbox EXCEPT ![Key(p)] = r]
      BY <1>9, <2>2 DEF FailMessage
    <3> HIDE DEF r
    <3>3. SameIdentity(inbox[Key(p)], r.body)
      BY <3>1 DEF SameIdentity
    <3> QED BY <1>2, <1>3, <1>4, <1>5, <1>6, <2>1, <2>2, <3>1, <3>2, <3>3, RowStep
  <2>3. CASE inbox[Key(p)].status # "PROCESSING"
    <3>1. inbox' = inbox
      BY <1>9, <2>3 DEF FailMessage
    <3> QED BY <1>4, <2>1, <3>1, ProcStep
  <2> QED BY <2>2, <2>3
<1> QED BY <1>7, <1>8, <1>9

\* Time passing changes no status and no identity.
LEMMA ExpiryStep ==
  ASSUME InboxInv, NEW k \in Keys, LeaseExpires(k)
  PROVE  InboxInv'
<1> DEFINE r == [inbox[k] EXCEPT !.expired = TRUE]
<1>1. inbox[k] \in Row
  BY DEF InboxInv, TypeOK
<1>2. r \in Row /\ r.status = inbox[k].status /\ r.body = inbox[k].body
  BY <1>1 DEF Row
<1>3. inbox' = [inbox EXCEPT ![k] = r]
  BY DEF LeaseExpires
<1> HIDE DEF r
<1>4. /\ inbox' \in [Keys -> Row]
      /\ \A j \in Keys : /\ inbox'[j].status = inbox[j].status
                         /\ inbox'[j].body = inbox[j].body
  BY <1>2, <1>3 DEF InboxInv, TypeOK
<1>5. /\ proc' = proc /\ stream' = stream /\ acked' = acked
      /\ effects' = effects /\ wins' = wins
  BY DEF LeaseExpires
<1>6. \A q \in Procs : Key(q)' = Key(q) /\ Body(q)' = Body(q)
  BY <1>5 DEF Key, Body
<1>7. TypeOK' /\ LockInv' /\ WinInv'
  BY <1>4, <1>5, <1>6 DEF InboxInv, TypeOK, LockInv, WinInv
<1>8. ProcInv'
  <2> SUFFICES ASSUME NEW q \in Procs PROVE ProcGood(q)'
    BY DEF ProcInv
  <2>1. ProcGood(q)
    BY DEF InboxInv, ProcInv
  <2>2. CASE proc[q].pc \in {"handling", "working", "acking"}
    <3>1. Key(q) \in Keys
      BY <2>2, NotIdle, KeyType DEF InboxInv
    <3> QED BY <1>4, <1>5, <1>6, <2>1, <3>1 DEF ProcGood, SameIdentity
  <2>3. CASE proc[q].pc \notin {"handling", "working", "acking"}
    BY <1>5, <2>3 DEF ProcGood
  <2> QED BY <2>2, <2>3
<1>9. AckedIsCompleted'
  <2>1. \A c \in Consumers : \A e \in acked[c] : <<c, MsgOf[e]>> \in Keys
    BY InboxConstants DEF InboxInv, TypeOK, Keys
  <2> QED BY <1>4, <1>5, <2>1 DEF InboxInv, AckedIsCompleted
<1> QED BY <1>7, <1>8, <1>9 DEF InboxInv

-----------------------------------------------------------------------------
\* The other steps of a process: they leave table and acknowledgements alone.
LEMMA QuietStep ==
  ASSUME InboxInv, NEW p \in Procs,
         \/ ClaimMessage(p) \/ AckDuplicate(p) \/ RefuseMessage(p)
         \/ RequestAck(p) \/ Abort(p)
  PROVE  InboxInv'
<1>1. /\ inbox' = inbox /\ effects' = effects /\ wins' = wins
      /\ stream' = stream /\ acked' = acked
  BY DEF ClaimMessage, AckDuplicate, RefuseMessage, RequestAck, Abort
<1>2. TypeOK
  BY DEF InboxInv
<1>3. CASE ClaimMessage(p)
  <2>1. proc[p] # Idle
    BY <1>3, NotIdle DEF ClaimMessage
  <2>2. /\ proc' \in [Procs -> Busy \cup {Idle}]
        /\ proc'[p].pc = "handling"
        /\ Key(p)' = Key(p) /\ Body(p)' = Body(p)
        /\ \A q \in Procs \ {p} : proc'[q] = proc[q]
    BY <1>2, <1>3, <2>1, BecomeEffect DEF ClaimMessage
  <2>3. ProcGood(p)'
    BY <1>1, <1>3, <2>2 DEF ClaimMessage, Claimable, ProcGood, SameIdentity
  <2>4. \A q \in Procs \ {p} : proc[q].pc = "handling" => Key(q) # Key(p)'
    BY <1>3, <2>2 DEF ClaimMessage, Unlocked
  <2> QED BY <1>1, <2>2, <2>3, <2>4, ProcStep
<1>4. CASE AckDuplicate(p)
  <2>1. proc[p] # Idle
    BY <1>4, NotIdle DEF AckDuplicate
  <2>2. /\ proc' \in [Procs -> Busy \cup {Idle}]
        /\ proc'[p].pc = "acking"
        /\ Key(p)' = Key(p) /\ Body(p)' = Body(p)
        /\ \A q \in Procs \ {p} : proc'[q] = proc[q]
    BY <1>2, <1>4, <2>1, BecomeEffect DEF AckDuplicate
  <2>3. ProcGood(p)'
    BY <1>1, <1>4, <2>2 DEF AckDuplicate, ProcGood, SameIdentity
  <2> QED BY <1>1, <2>2, <2>3, ProcStep
<1>5. CASE RequestAck(p)
  <2> DEFINE c == [proc[p] EXCEPT !.asked = TRUE]
  <2>1. proc[p] # Idle /\ proc[p].pc = "handling"
    BY <1>5, NotIdle DEF RequestAck
  <2>2. proc[p] \in Busy
    BY <1>2, <2>1, KeyType
  <2>3. c \in Busy /\ c.pc = proc[p].pc /\ c.env = proc[p].env
    BY <2>2 DEF Busy
  <2>4. proc' = [proc EXCEPT ![p] = c]
    BY <1>5 DEF RequestAck
  <2> HIDE DEF c
  <2>5. proc'[p] = c /\ \A q \in Procs \ {p} : proc'[q] = proc[q]
    BY <1>2, <2>4 DEF TypeOK
  <2>6. proc' \in [Procs -> Busy \cup {Idle}]
    BY <1>2, <2>3, <2>4 DEF TypeOK
  <2>7. Key(p)' = Key(p) /\ Body(p)' = Body(p)
    BY <2>3, <2>5 DEF Key, Body
  <2>8. ProcGood(p)
    BY DEF InboxInv, ProcInv
  <2>9. ProcGood(p)'
    BY <1>1, <2>1, <2>3, <2>5, <2>7, <2>8 DEF ProcGood, SameIdentity
  <2>10. \A q \in Procs \ {p} : proc[q].pc = "handling" => Key(q) # Key(p)'
    BY <2>1, <2>7 DEF InboxInv, LockInv
  <2> QED BY <1>1, <2>5, <2>6, <2>9, <2>10, ProcStep
<1>6. CASE RefuseMessage(p) \/ Abort(p)
  <2>1. proc' = [proc EXCEPT ![p] = Idle]
    BY <1>6 DEF RefuseMessage, Abort
  <2>2. /\ proc' \in [Procs -> Busy \cup {Idle}]
        /\ proc'[p].pc = "idle" /\ ProcGood(p)'
        /\ \A q \in Procs \ {p} : proc'[q] = proc[q]
    BY <1>2, <2>1, IdleEffect
  <2> QED BY <1>1, <2>2, ProcStep
<1> QED BY <1>3, <1>4, <1>5, <1>6

\* A delivery by the transport.
LEMMA ReceiveStep ==
  ASSUME InboxInv, NEW p \in Procs, NEW e \in Envelopes, Receive(p, e)
  PROVE  InboxInv'
<1> DEFINE c == [pc |-> "received", env |-> e, asked |-> FALSE]
<1>1. c \in Busy /\ c.pc = "received"
  BY DEF Busy
<1>2. /\ proc' = [proc EXCEPT ![p] = c]
      /\ inbox' = inbox /\ effects' = effects /\ wins' = wins
      /\ stream' = stream /\ acked' = acked
  BY DEF Receive
<1> HIDE DEF c
<1>3. /\ proc'[p] = c /\ proc' \in [Procs -> Busy \cup {Idle}]
      /\ \A q \in Procs \ {p} : proc'[q] = proc[q]
  BY <1>1, <1>2 DEF InboxInv, TypeOK
<1>4. ProcGood(p)' /\ proc'[p].pc # "handling"
  BY <1>1, <1>3 DEF ProcGood
<1> QED BY <1>2, <1>3, <1>4, ProcStep

\* The transport ACK: the acknowledged envelope is completed.
LEMMA TransportAckStep ==
  ASSUME InboxInv, NEW p \in Procs, TransportAck(p)
  PROVE  InboxInv'
<1>1. /\ proc' = [proc EXCEPT ![p] = Idle] /\ proc[p].pc = "acking"
      /\ inbox' = inbox /\ effects' = effects /\ wins' = wins
      /\ stream' = stream
  BY DEF TransportAck
<1>2. TypeOK /\ proc[p].env \in Envelopes
  BY <1>1, NotIdle, KeyType DEF InboxInv
<1>3. /\ proc' \in [Procs -> Busy \cup {Idle}]
      /\ proc'[p].pc = "idle" /\ ProcGood(p)'
      /\ \A q \in Procs \ {p} : proc'[q] = proc[q]
  BY <1>1, <1>2, IdleEffect
<1>4. /\ inbox[Key(p)].status = "COMPLETED"
      /\ inbox[Key(p)].body = Body(p)
  BY <1>1 DEF InboxInv, ProcInv, ProcGood
<1>5. ConsumerOf[p] \in Consumers
  BY InboxConstants
<1>6. acked' \in [Consumers -> SUBSET Envelopes]
  BY <1>2, <1>5 DEF TransportAck, TypeOK
<1>7. AckedIsCompleted'
  <2> SUFFICES ASSUME NEW c \in Consumers, NEW e \in acked'[c]
               PROVE  /\ inbox[<<c, MsgOf[e]>>].status = "COMPLETED"
                      /\ inbox[<<c, MsgOf[e]>>].body = BodyOf[e]
    BY <1>1 DEF AckedIsCompleted
  <2>1. CASE e \in acked[c]
    BY <2>1 DEF InboxInv, AckedIsCompleted
  <2>2. CASE e \notin acked[c]
    <3>1. c = ConsumerOf[p] /\ e = proc[p].env
      BY <1>2, <1>5, <2>2 DEF TransportAck, TypeOK
    <3> QED BY <1>4, <3>1 DEF Key, Body
  <2> QED BY <2>1, <2>2
<1>8. TypeOK'
  BY <1>1, <1>2, <1>3, <1>6 DEF TypeOK
<1>9. \A q \in Procs \ {p} : Key(q)' = Key(q) /\ Body(q)' = Body(q)
  BY <1>3 DEF Key, Body
<1>10. LockInv'
  BY <1>3, <1>9 DEF InboxInv, LockInv
<1>11. ProcInv'
  BY <1>1, <1>3, <1>9 DEF InboxInv, ProcInv, ProcGood
<1>12. WinInv'
  BY <1>1 DEF InboxInv, WinInv
<1> QED BY <1>7, <1>8, <1>10, <1>11, <1>12 DEF InboxInv

\* What the tables are silent about changes nothing.
LEMMA SilentStep ==
  ASSUME InboxInv, (\E e \in Envelopes : Arrive(e)) \/ UNCHANGED vars
  PROVE  InboxInv'
<1>1. /\ acked' = acked /\ inbox' = inbox /\ proc' = proc
      /\ effects' = effects /\ wins' = wins
      /\ stream' \in SUBSET Envelopes
  BY DEF Arrive, vars, InboxInv, TypeOK
<1>2. \A q \in Procs : Key(q)' = Key(q) /\ Body(q)' = Body(q)
  BY <1>1 DEF Key, Body
<1>3. TypeOK' /\ LockInv' /\ WinInv' /\ AckedIsCompleted'
  BY <1>1, <1>2 DEF InboxInv, TypeOK, LockInv, WinInv, AckedIsCompleted
<1>4. ProcInv'
  BY <1>1, <1>2 DEF InboxInv, ProcInv, ProcGood
<1> QED BY <1>3, <1>4 DEF InboxInv

-----------------------------------------------------------------------------
\* The inductive invariant holds at the start and is kept by every step.
LEMMA InitInv == Init => InboxInv
<1> SUFFICES ASSUME Init PROVE InboxInv
  OBVIOUS
<1>1. AbsentRow \in Row /\ AbsentRow.status = "ABSENT"
  BY DEF AbsentRow, Row, Statuses
<1>2. TypeOK
  BY <1>1 DEF Init, TypeOK
<1>3. \A p \in Procs : proc[p] = Idle
  BY DEF Init
<1>4. LockInv /\ ProcInv
  BY <1>3 DEF LockInv, ProcInv, ProcGood, Idle
<1>5. WinInv
  BY <1>1 DEF Init, WinInv
<1>6. AckedIsCompleted
  BY DEF Init, AckedIsCompleted
<1> QED BY <1>2, <1>4, <1>5, <1>6 DEF InboxInv

LEMMA NextInv == InboxInv /\ [Next]_vars => InboxInv'
<1> SUFFICES ASSUME InboxInv, [Next]_vars PROVE InboxInv'
  OBVIOUS
<1>1. CASE (\E e \in Envelopes : Arrive(e)) \/ UNCHANGED vars
  BY <1>1, SilentStep
<1>2. CASE \E p \in Procs, e \in Envelopes : Receive(p, e)
  BY <1>2, ReceiveStep
<1>3. CASE \E p \in Procs : \/ ClaimMessage(p) \/ AckDuplicate(p)
                            \/ RefuseMessage(p) \/ RequestAck(p) \/ Abort(p)
  BY <1>3, QuietStep
<1>4. CASE \E p \in Procs : CompleteDelivery(p) \/ FailDelivery(p)
  BY <1>4, DeliveryEnds
<1>5. CASE \E p \in Procs : TransportAck(p)
  BY <1>5, TransportAckStep
<1>6. CASE \E p \in Procs : DirectClaim(p) \/ CompleteMessage(p) \/ FailMessage(p)
  BY <1>6, DirectStep
<1>7. CASE \E k \in Keys : LeaseExpires(k)
  BY <1>7, ExpiryStep
<1> QED BY <1>1, <1>2, <1>3, <1>4, <1>5, <1>6, <1>7 DEF Next

\* The invariant, for every set of envelopes, processes and consumers.
THEOREM InboxInvariant == Spec => []InboxInv
BY InitInv, NextInv, PTL DEF Spec

\* At most one handler transaction of a message leaves its writes, and only
\* under a completed row: message_transaction makes effects exactly-once.
THEOREM EffectsAtMostOnce == Spec => []EffectsOnce
<1>1. InboxInv => EffectsOnce
  <2> SUFFICES ASSUME InboxInv, NEW k \in Keys
               PROVE  /\ effects[k] <= 1
                      /\ effects[k] = 1 => inbox[k].status = "COMPLETED"
    BY DEF EffectsOnce
  <2>1. effects[k] \in Nat /\ wins[k] \in Nat
    BY DEF InboxInv, TypeOK
  <2>2. /\ effects[k] <= wins[k]
        /\ wins[k] = IF inbox[k].status = "COMPLETED" THEN 1 ELSE 0
    BY DEF InboxInv, WinInv
  <2> QED BY <2>1, <2>2
<1> QED BY <1>1, InboxInvariant, PTL

\* The transport is told of an envelope only after its completion committed.
THEOREM AckAfterCompletion == Spec => []AckedIsCompleted
<1>1. InboxInv => AckedIsCompleted
  BY DEF InboxInv
<1> QED BY <1>1, InboxInvariant, PTL

\* complete_message and complete() report success at most once per message,
\* though neither names the owner of the lease.
THEOREM SingleWinner == Spec => []OneWinner
<1>1. InboxInv => OneWinner
  <2> SUFFICES ASSUME InboxInv, NEW k \in Keys PROVE wins[k] <= 1
    BY DEF OneWinner
  <2>1. wins[k] = IF inbox[k].status = "COMPLETED" THEN 1 ELSE 0
    BY DEF InboxInv, WinInv
  <2> QED BY <2>1
<1> QED BY <1>1, InboxInvariant, PTL

-----------------------------------------------------------------------------
\* A row that changes was not completed, and a row that exists keeps its body.
LEMMA RowsKeep ==
  ASSUME InboxInv, NEW k \in Keys, [Next]_vars
  PROVE  /\ inbox[k].status = "COMPLETED" => inbox'[k] = inbox[k]
         /\ inbox[k].status # "ABSENT" => inbox'[k].body = inbox[k].body
<1> DEFINE Keeps(j, r) == /\ inbox' = [inbox EXCEPT ![j] = r]
                          /\ inbox[j].status # "COMPLETED"
                          /\ SameIdentity(inbox[j], r.body)
<1>1. ASSUME NEW j \in Keys, NEW r, Keeps(j, r)
      PROVE  /\ inbox[k].status = "COMPLETED" => inbox'[k] = inbox[k]
             /\ inbox[k].status # "ABSENT" => inbox'[k].body = inbox[k].body
  <2>1. inbox \in [Keys -> Row]
    BY DEF InboxInv, TypeOK
  <2>2. CASE j = k
    <3>1. inbox'[k] = r
      BY <1>1, <2>1, <2>2
    <3> QED BY <1>1, <2>2, <3>1 DEF SameIdentity
  <2>3. CASE j # k
    <3>1. inbox'[k] = inbox[k]
      BY <1>1, <2>1, <2>3
    <3> QED BY <3>1
  <2> QED BY <2>2, <2>3
<1>2. CASE inbox' = inbox
  BY <1>2
<1>3. ASSUME NEW p \in Procs, CompleteDelivery(p) \/ FailDelivery(p)
      PROVE  Key(p) \in Keys /\ \E r : Keeps(Key(p), r)
  <2> DEFINE r(s) == [status |-> s, body |-> Body(p), expired |-> FALSE]
  <2>1. /\ Key(p) \in Keys
        /\ inbox[Key(p)].status # "COMPLETED" /\ SameIdentity(inbox[Key(p)], Body(p))
    BY <1>3, NotIdle, KeyType
       DEF CompleteDelivery, FailDelivery, InboxInv, ProcInv, ProcGood
  <2>2. r("COMPLETED").body = Body(p) /\ r("FAILED").body = Body(p)
    OBVIOUS
  <2>3. \/ inbox' = [inbox EXCEPT ![Key(p)] = r("COMPLETED")]
        \/ inbox' = [inbox EXCEPT ![Key(p)] = r("FAILED")]
    BY <1>3 DEF CompleteDelivery, FailDelivery
  <2> HIDE DEF r
  <2> QED BY <2>1, <2>2, <2>3
<1>4. ASSUME NEW p \in Procs, DirectClaim(p)
      PROVE  Key(p) \in Keys /\ \E r : Keeps(Key(p), r)
  <2> DEFINE r == [status |-> "PROCESSING", body |-> Body(p), expired |-> FALSE]
  <2>1. /\ Key(p) \in Keys
        /\ inbox[Key(p)].status # "COMPLETED" /\ SameIdentity(inbox[Key(p)], Body(p))
    BY <1>4, NotIdle, KeyType DEF DirectClaim, Claimable, InboxInv
  <2>2. r.body = Body(p) /\ inbox' = [inbox EXCEPT ![Key(p)] = r]
    BY <1>4 DEF DirectClaim
  <2> HIDE DEF r
  <2> QED BY <2>1, <2>2
<1>5. ASSUME NEW j \in Keys, inbox[j].status = "PROCESSING", NEW r,
             inbox' = [inbox EXCEPT ![j] = r], r.body = inbox[j].body
      PROVE  Keeps(j, r)
  BY <1>5 DEF SameIdentity
<1>6. ASSUME NEW p \in Procs, CompleteMessage(p) \/ FailMessage(p)
      PROVE  inbox' = inbox \/ (Key(p) \in Keys /\ \E r : Keeps(Key(p), r))
  <2> DEFINE r(s) == [inbox[Key(p)] EXCEPT !.status = s]
  <2>1. Key(p) \in Keys /\ inbox[Key(p)] \in Row
    BY <1>6, NotIdle, KeyType DEF CompleteMessage, FailMessage, InboxInv, TypeOK
  <2>2. r("COMPLETED").body = inbox[Key(p)].body /\ r("FAILED").body = inbox[Key(p)].body
    BY <2>1 DEF Row
  <2>3. \/ inbox' = inbox
        \/ /\ inbox[Key(p)].status = "PROCESSING"
           /\ \/ inbox' = [inbox EXCEPT ![Key(p)] = r("COMPLETED")]
              \/ inbox' = [inbox EXCEPT ![Key(p)] = r("FAILED")]
    BY <1>6 DEF CompleteMessage, FailMessage
  <2> HIDE DEF r
  <2> QED BY <1>5, <2>1, <2>2, <2>3
<1>7. ASSUME NEW j \in Keys, LeaseExpires(j) PROVE \E r : Keeps(j, r)
  <2> DEFINE r == [inbox[j] EXCEPT !.expired = TRUE]
  <2>1. inbox[j] \in Row
    BY DEF InboxInv, TypeOK
  <2>2. r.body = inbox[j].body
    BY <2>1 DEF Row
  <2>3. inbox' = [inbox EXCEPT ![j] = r] /\ inbox[j].status = "PROCESSING"
    BY <1>7 DEF LeaseExpires
  <2> HIDE DEF r
  <2> QED BY <1>5, <2>2, <2>3
<1>8. CASE UNCHANGED vars \/ (\E e \in Envelopes : Arrive(e))
           \/ \E p \in Procs : \/ \E e \in Envelopes : Receive(p, e)
                               \/ ClaimMessage(p) \/ AckDuplicate(p)
                               \/ RefuseMessage(p) \/ RequestAck(p)
                               \/ TransportAck(p) \/ Abort(p)
  <2>1. inbox' = inbox
    BY <1>8 DEF vars, Arrive, Receive, ClaimMessage, AckDuplicate, RefuseMessage,
                RequestAck, TransportAck, Abort
  <2> QED BY <1>2, <2>1
<1> HIDE DEF Keeps
<1>9. CASE \E p \in Procs : CompleteDelivery(p) \/ FailDelivery(p)
  BY <1>1, <1>3, <1>9
<1>10. CASE \E p \in Procs : DirectClaim(p)
  BY <1>1, <1>4, <1>10
<1>11. CASE \E p \in Procs : CompleteMessage(p) \/ FailMessage(p)
  BY <1>1, <1>2, <1>6, <1>11
<1>12. CASE \E j \in Keys : LeaseExpires(j)
  BY <1>1, <1>7, <1>12
<1> QED BY <1>8, <1>9, <1>10, <1>11, <1>12 DEF Next

\* No late owner, failure or redelivery reopens a completed row, and the
\* identity the first claim stored is never overwritten.
THEOREM CompletionIsFinal == Spec => CompletedIsFinal
<1> DEFINE Keeps == \A k \in Keys :
             /\ inbox[k].status = "COMPLETED" => inbox'[k] = inbox[k]
             /\ inbox[k].status # "ABSENT" => inbox'[k].body = inbox[k].body
<1>1. InboxInv /\ [Next]_vars => [Keeps]_vars
  BY RowsKeep
<1> QED BY <1>1, InboxInvariant, PTL DEF Spec, CompletedIsFinal
=============================================================================
