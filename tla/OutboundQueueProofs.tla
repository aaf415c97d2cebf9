------------------------- MODULE OutboundQueueProofs -------------------------
(* Theorems about OutboundQueue and Delivery, for every set of messages,   *)
(* workers and calls and every budget of attempts, limit of a batch and     *)
(* number of retries.                                                       *)
EXTENDS Delivery, FiniteSetTheorems, WellFoundedInduction, TLAPS

(* The inductive invariant.  Exclusive says what "nothing claims a row"     *)
(* leaves of a claim: a message that was never held twice is with one       *)
(* worker at most, and queued as long as it is with one.  Evidence and      *)
(* Accounting follow a message from its acceptance by Telegram to the row   *)
(* that says so, Budget an attempt from the SELECT to the UPDATE.           *)
Batches == \A w \in Workers : At(w, "idle") <=> batch[w] = {}

Exclusive ==
    \A m \in Messages \ raced :
        /\ Holders(m) # {} => status[m] = "queued"
        /\ \A v, w \in Holders(m) : v = w

\* The message was taken by Telegram, or a rehearsal recorded it.
Out(m) == accepted[m] >= 1 \/ m \in outbox

Evidence ==
    /\ \A w \in Workers : At(w, "mark_sent") => Out(InHand(w))
    /\ \A m \in Messages : status[m] = "sent" => Out(m)

\* Telegram has taken the message and the worker is about to write that down.
Noting(w) == At(w, "mark_sent") /\ transport[w] # "dry_run"

\* No row says, and nobody is about to, that the message was taken.
Unnoted(m) == status[m] # "sent" /\ \A w \in Workers : Noting(w) => InHand(w) # m

Accounting ==
    \A m \in Messages \ raced :
        /\ accepted[m] <= unrecorded[m] + 1
        /\ Unnoted(m) => accepted[m] <= unrecorded[m]

Budget ==
    /\ RetryBudget
    /\ \A m \in Messages \ raced : status[m] = "absent" => attempts[m] < MaxAttempts
    /\ \A w \in Workers :
        At(w, "mark_failed") /\ InHand(w) \notin raced => seen[w] = attempts[InHand(w)]

IInv == TypeOK /\ Batches /\ Exclusive /\ Evidence /\ Accounting /\ Budget

-----------------------------------------------------------------------------
(* A set of naturals has a least element: a worker has its row in hand. *)
LEMMA Least ==
  ASSUME NEW B, B \subseteq Nat, B # {}
  PROVE  \E m \in B : \A k \in B : m <= k
  <1> DEFINE R == OpToRel(<, Nat)
  <1>1. IsWellFoundedOn(R, Nat)
    BY NatLessThanWellFounded
  <1>2. PICK m \in B : \A k \in B : ~ (<<k, m>> \in R)
    <2> HIDE DEF R
    <2> QED BY <1>1, WFMin
  <1>3. \A k \in B : <<k, m>> \in R <=> k < m
    BY DEF OpToRel
  <1> HIDE DEF R
  <1>4. \A k \in B : ~(k < m)
    BY <1>2, <1>3
  <1>5. \A k \in B : m <= k
    BY <1>4
  <1> QED
    BY <1>5

LEMMA HandHeld ==
  ASSUME TypeOK, Batches, NEW w \in Workers, ~At(w, "idle")
  PROVE  InHand(w) \in batch[w] /\ InHand(w) \in Messages
  <1>1. batch[w] # {} /\ batch[w] \subseteq Messages /\ batch[w] \subseteq Nat
    BY QueueAssumption DEF TypeOK, Batches
  <1>2. \E m \in batch[w] : \A k \in batch[w] : m <= k
    BY <1>1, Least
  <1>3. InHand(w) \in batch[w]
    BY <1>2 DEF InHand
  <1> QED BY <1>1, <1>3

(* A batch of a queue that is not empty is not empty. *)
LEMMA BatchNotEmpty ==
  ASSUME Queued # {}
  PROVE  FirstQueued # {}
  <1>1. Queued \subseteq Nat
    BY QueueAssumption DEF Queued
  <1>2. PICK m \in Queued : \A k \in Queued : m <= k
    BY <1>1, Least
  <1>3. \A k \in Queued : ~(k < m)
    BY <1>1, <1>2
  <1>4. {k \in Queued : k < m} = {}
    BY <1>3
  <1>5. Cardinality({k \in Queued : k < m}) < Limit
    BY <1>4, FS_EmptySet, QueueAssumption
  <1>6. m \in FirstQueued
    BY <1>2, <1>5, Zenon DEF FirstQueued
  <1> QED BY <1>6

(* What Telegram's taking a message does to the count of it. *)
LEMMA AcceptCounts ==
  ASSUME TypeOK, NEW m \in Messages, Accept(m)
  PROVE  /\ accepted' \in [Messages -> 0 .. MaxAccepted]
         /\ \A k \in Messages : accepted'[k] >= accepted[k]
         /\ \A k \in Messages \ {m} : accepted'[k] = accepted[k]
         /\ accepted'[m] >= 1 /\ accepted'[m] <= accepted[m] + 1
  <1>1. accepted \in [Messages -> 0 .. MaxAccepted] /\ MaxAccepted \in Nat /\ MaxAccepted >= 2
    BY QueueAssumption DEF TypeOK, MaxAccepted
  <1>2. accepted[m] \in 0 .. MaxAccepted
    BY <1>1
  <1>3. CASE accepted[m] = MaxAccepted
    BY <1>1, <1>2, <1>3 DEF Accept
  <1>4. CASE accepted[m] # MaxAccepted
    <2>1. accepted' = [accepted EXCEPT ![m] = accepted[m] + 1]
      BY <1>4 DEF Accept
    <2>2. accepted[m] + 1 \in 0 .. MaxAccepted
      BY <1>1, <1>2, <1>4
    <2> QED BY <1>1, <1>2, <2>1, <2>2
  <1> QED BY <1>3, <1>4

LEMMA LossCounts ==
  ASSUME TypeOK, NEW m \in Messages, unrecorded' = [unrecorded EXCEPT ![m] = @ + 1]
  PROVE  /\ unrecorded' \in [Messages -> Nat]
         /\ unrecorded'[m] = unrecorded[m] + 1
         /\ \A k \in Messages \ {m} : unrecorded'[k] = unrecorded[k]
  BY DEF TypeOK

LEMMA InitInv == Init => IInv
  <1> SUFFICES ASSUME Init PROVE IInv
    OBVIOUS
  <1> USE QueueAssumption DEF Init
  <1>1. TypeOK
    BY DEF TypeOK, Statuses, Labels, MaxAccepted
  <1>2. Batches
    BY DEF Batches, At
  <1>3. Exclusive
    BY DEF Exclusive, Holders
  <1>4. Evidence
    BY DEF Evidence, At
  <1>5. Accounting
    BY DEF Accounting, Unnoted
  <1>6. Budget
    BY DEF Budget, RetryBudget, At
  <1> QED BY <1>1, <1>2, <1>3, <1>4, <1>5, <1>6 DEF IInv

-----------------------------------------------------------------------------
(* A step of one worker leaves the others where they are. *)
Same(v) ==
    /\ pc'[v] = pc[v] /\ transport'[v] = transport[v] /\ batch'[v] = batch[v]
    /\ tries'[v] = tries[v] /\ seen'[v] = seen[v]

LEMMA OthersKeep ==
  ASSUME TypeOK, NEW w \in Workers, Step(w) \/ Abort(w)
  PROVE  /\ \A v \in Workers \ {w} : Same(v) /\ InHand(v)' = InHand(v)
         /\ transport' = transport
  <1> USE DEF TypeOK, Same, Goto, Forget, Advance, Retry
  <1>1. ASSUME \A v \in Workers \ {w} : Same(v), transport' = transport PROVE
           /\ \A v \in Workers \ {w} : Same(v) /\ InHand(v)' = InHand(v)
           /\ transport' = transport
    BY <1>1 DEF InHand
  <1>2. CASE SelectBatch(w) \/ LookUp(w) \/ Record(w)
    BY <1>1, <1>2 DEF SelectBatch, LookUp, Record
  <1>3. CASE Delivered(w) \/ NotDelivered(w)
    BY <1>1, <1>3 DEF Delivered, NotDelivered
  <1>4. CASE AnswerLost(w) \/ Refused(w)
    BY <1>1, <1>4 DEF AnswerLost, Refused
  <1>5. CASE MarkSent(w) \/ MarkDead(w) \/ MarkFailed(w)
    BY <1>1, <1>5 DEF MarkSent, MarkDead, MarkFailed
  <1>6. CASE ReadAttempts(w) \/ Abort(w)
    BY <1>1, <1>6 DEF ReadAttempts, Abort
  <1> QED
    BY <1>2, <1>3, <1>4, <1>5, <1>6 DEF Step

LEMMA TypeStep ==
  ASSUME TypeOK, Batches, [Next]_vars
  PROVE  TypeOK'
  <1> USE QueueAssumption DEF TypeOK, Goto, SetStatus, Statuses, Labels, table, outcome, worker
  <1>1. ASSUME NEW w \in Workers, Step(w) \/ Abort(w) PROVE TypeOK'
    <2> USE <1>1 DEF Forget, Advance, Retry
    <2>0. ~At(w, "idle") => InHand(w) \in Messages
      BY HandHeld
    <2> USE <2>0 DEF At
    <2>1. CASE SelectBatch(w)
      BY <2>1 DEF SelectBatch, FirstQueued, Queued
    <2>2. CASE LookUp(w)
      BY <2>2 DEF LookUp
    <2>3. CASE Record(w)
      BY <2>3 DEF Record
    <2>4. CASE Delivered(w)
      BY <2>4, AcceptCounts DEF Delivered
    <2>5. CASE NotDelivered(w)
      BY <2>5 DEF NotDelivered
    <2>6. CASE AnswerLost(w)
      <3>1. accepted' \in [Messages -> 0 .. MaxAccepted]
        BY <2>6, AcceptCounts DEF AnswerLost
      <3>2. unrecorded' \in [Messages -> Nat]
        BY <2>6, LossCounts DEF AnswerLost
      <3>4. faults' \in 0 .. MaxFaults
        BY <2>6 DEF AnswerLost
      <3>3. pc' \in [Workers -> Labels] /\ tries' \in [Workers -> 0 .. Retries]
        BY <2>6 DEF AnswerLost
      <3> QED BY <2>6, <3>1, <3>2, <3>3, <3>4 DEF AnswerLost
    <2>7. CASE Refused(w)
      BY <2>7 DEF Refused
    <2>8. CASE MarkSent(w)
      BY <2>8 DEF MarkSent
    <2>9. CASE MarkDead(w)
      BY <2>9 DEF MarkDead
    <2>10. CASE ReadAttempts(w)
      BY <2>10 DEF ReadAttempts
    <2>11. CASE MarkFailed(w)
      BY <2>11 DEF MarkFailed
    <2>12. CASE Abort(w)
      <3>1. unrecorded' \in [Messages -> Nat]
        BY <2>12, LossCounts DEF Abort
      <3>2. faults' \in 0 .. MaxFaults
        BY <2>12 DEF Abort
      <3> QED BY <2>12, <3>1, <3>2 DEF Abort
    <2> QED
      BY <2>1, <2>2, <2>3, <2>4, <2>5, <2>6, <2>7, <2>8, <2>9, <2>10, <2>11, <2>12 DEF Step
  <1>2. ASSUME NEW m \in Messages, Enqueue(m) PROVE TypeOK'
    BY <1>2 DEF Enqueue
  <1>3. ASSUME NEW m \in Messages, Link(m) PROVE TypeOK'
    BY <1>3 DEF Link
  <1>4. ASSUME NEW m \in Messages, NEW to \in {"suppressed", "dead"}, Withdraw(m, to) PROVE TypeOK'
    BY <1>4 DEF Withdraw
  <1> QED
    BY <1>1, <1>2, <1>3, <1>4 DEF Next, vars

LEMMA BatchesStep ==
  ASSUME TypeOK, Batches, [Next]_vars
  PROVE  Batches'
  <1> USE DEF TypeOK, Batches, At, Goto
  <1>1. ASSUME NEW w \in Workers, Step(w) \/ Abort(w) PROVE Batches'
    <2> USE <1>1 DEF Advance
    <2>0. \A v \in Workers \ {w} : Same(v)
      BY OthersKeep
    <2>1. CASE SelectBatch(w)
      <3>1. FirstQueued # {}
        BY <2>1, BatchNotEmpty DEF SelectBatch
      <3> QED BY <2>0, <2>1, <3>1 DEF SelectBatch, Same
    <2>2. CASE LookUp(w) \/ Record(w) \/ Delivered(w) \/ ReadAttempts(w)
      BY <2>0, <2>2 DEF LookUp, Record, Delivered, ReadAttempts, Same
    <2>3. CASE NotDelivered(w) \/ AnswerLost(w) \/ Refused(w)
      BY <2>0, <2>3 DEF NotDelivered, AnswerLost, Refused, Retry, Same
    <2>4. CASE MarkSent(w) \/ MarkDead(w) \/ MarkFailed(w)
      BY <2>0, <2>4 DEF MarkSent, MarkDead, MarkFailed, Same
    <2>5. CASE Abort(w)
      BY <2>0, <2>5 DEF Abort, Same
    <2> QED
      BY <2>1, <2>2, <2>3, <2>4, <2>5 DEF Step
  <1>2. ASSUME UNCHANGED worker PROVE Batches'
    BY <1>2 DEF worker
  <1> QED
    BY <1>1, <1>2 DEF Next, vars, Enqueue, Link, Withdraw

-----------------------------------------------------------------------------
(* The three ends of a row in hand. *)
Marks(w) == MarkSent(w) \/ MarkDead(w) \/ MarkFailed(w)

LEMMA MarkEffects ==
  ASSUME TypeOK, Batches, NEW w \in Workers, Marks(w)
  PROVE  /\ InHand(w) \in batch[w] /\ InHand(w) \in Messages
         /\ \A k \in Messages \ {InHand(w)} : status'[k] = status[k] /\ attempts'[k] = attempts[k]
         /\ batch' = [batch EXCEPT ![w] = batch[w] \ {InHand(w)}]
         /\ pc'[w] \in {"idle", "look_up"}
         /\ UNCHANGED <<reachable, outcome, transport>>
  <1>1. InHand(w) \in batch[w] /\ InHand(w) \in Messages
    BY HandHeld DEF Marks, MarkSent, MarkDead, MarkFailed, At
  <1>2. CASE MarkSent(w)
    BY <1>1, <1>2 DEF MarkSent, SetStatus, Advance, Goto, TypeOK
  <1>3. CASE MarkDead(w)
    BY <1>1, <1>3 DEF MarkDead, SetStatus, Advance, Goto, TypeOK
  <1>4. CASE MarkFailed(w)
    BY <1>1, <1>4 DEF MarkFailed, SetStatus, Advance, Goto, TypeOK
  <1> QED BY <1>2, <1>3, <1>4 DEF Marks

(* The steps of a pass that touch no row and no batch. *)
Sends(w) ==
    \/ LookUp(w) \/ Record(w) \/ Delivered(w) \/ NotDelivered(w) \/ AnswerLost(w)
    \/ Refused(w) \/ ReadAttempts(w)

LEMMA SendEffects ==
  ASSUME NEW w \in Workers, Sends(w)
  PROVE  /\ UNCHANGED <<status, attempts, reachable, raced, transport, batch>>
         /\ \A v \in Workers : InHand(v)' = InHand(v)
  <1>1. UNCHANGED <<status, attempts, reachable, raced, transport, batch>>
    BY DEF Sends, LookUp, Record, Delivered, NotDelivered, AnswerLost, Refused, ReadAttempts,
           table, outcome
  <1> QED BY <1>1 DEF InHand

LEMMA ExclusiveStep ==
  ASSUME TypeOK, Batches, Exclusive, [Next]_vars
  PROVE  Exclusive'
  <1>1. ASSUME UNCHANGED <<status, raced, batch>> PROVE Exclusive'
    BY <1>1 DEF Exclusive, Holders
  <1>2. ASSUME NEW w \in Workers, SelectBatch(w) PROVE Exclusive'
    <2>1. /\ batch' = [batch EXCEPT ![w] = FirstQueued] /\ status' = status
          /\ raced' = raced \cup {m \in FirstQueued : Holders(m) # {}}
          /\ batch[w] = {}
      BY <1>2 DEF SelectBatch, Batches, table
    <2>2. \A m \in FirstQueued : status[m] = "queued"
      BY DEF FirstQueued, Queued
    <2>3. ASSUME NEW m \in Messages \ raced', m \in FirstQueued
          PROVE  Holders(m)' = {w} /\ status'[m] = "queued"
      BY <2>1, <2>2, <2>3 DEF Holders, TypeOK
    <2>4. ASSUME NEW m \in Messages \ raced', m \notin FirstQueued
          PROVE  Holders(m)' = Holders(m) /\ status'[m] = status[m]
      BY <2>1, <2>4 DEF Holders, TypeOK
    <2> QED BY <2>1, <2>3, <2>4 DEF Exclusive
  <1>3. ASSUME NEW w \in Workers, Marks(w) PROVE Exclusive'
    <2>1. ASSUME NEW m \in Messages \ raced', m # InHand(w)
          PROVE  Holders(m)' = Holders(m) /\ status'[m] = status[m] /\ m \notin raced
      BY <1>3, <2>1, MarkEffects DEF Holders, TypeOK, outcome
    <2>2. ASSUME NEW m \in Messages \ raced', m = InHand(w)
          PROVE  Holders(m)' = {}
      <3>1. /\ w \in Holders(m) /\ m \notin raced
            /\ \A v \in Workers : m \in batch'[v] => v # w /\ v \in Holders(m)
        BY <1>3, <2>2, MarkEffects DEF Holders, TypeOK, outcome
      <3> QED BY <3>1 DEF Exclusive, Holders
    <2> QED BY <2>1, <2>2 DEF Exclusive
  <1>4. ASSUME NEW w \in Workers, Abort(w) PROVE Exclusive'
    <2>1. batch' = [batch EXCEPT ![w] = {}] /\ status' = status /\ raced' = raced
      BY <1>4 DEF Abort, table
    <2>2. \A m \in Messages : Holders(m)' \subseteq Holders(m)
      BY <2>1 DEF Holders, TypeOK
    <2> QED BY <2>1, <2>2 DEF Exclusive
  <1>5. ASSUME NEW m \in Messages, Enqueue(m) PROVE Exclusive'
    <2>1. status' = [status EXCEPT ![m] = "queued"] /\ UNCHANGED <<raced, batch>>
      BY <1>5 DEF Enqueue, SetStatus, outcome, worker
    <2>2. \A k \in Messages : Holders(k)' = Holders(k)
      BY <2>1 DEF Holders
    <2> QED BY <2>1, <2>2 DEF Exclusive, TypeOK
  <1>6. ASSUME NEW m \in Messages, NEW to \in {"suppressed", "dead"}, Withdraw(m, to)
        PROVE  Exclusive'
    <2>1. /\ status' = [status EXCEPT ![m] = to] /\ batch' = batch
          /\ raced' = IF Holders(m) = {} THEN raced ELSE raced \cup {m}
      BY <1>6 DEF Withdraw, SetStatus, worker
    <2>2. \A k \in Messages : Holders(k)' = Holders(k)
      BY <2>1 DEF Holders
    <2> QED BY <2>1, <2>2 DEF Exclusive, TypeOK
  <1>7. ASSUME NEW w \in Workers, Step(w) \/ Abort(w) PROVE Exclusive'
    BY <1>1, <1>2, <1>3, <1>4, <1>7, SendEffects DEF Step, Sends, Marks
  <1>8. ASSUME NEW m \in Messages, Link(m) PROVE Exclusive'
    BY <1>1, <1>8 DEF Link, outcome, worker
  <1> QED
    BY <1>1, <1>5, <1>6, <1>7, <1>8 DEF Next, vars, table, outcome, worker

-----------------------------------------------------------------------------
(* What is out stays out. *)
LEMMA OutStays ==
  ASSUME TypeOK, Batches, [Next]_vars, NEW m \in Messages, Out(m)
  PROVE  Out(m)'
  <1>1. ASSUME UNCHANGED <<accepted, outbox>> PROVE Out(m)'
    BY <1>1 DEF Out
  <1>2. ASSUME NEW w \in Workers, Delivered(w) \/ AnswerLost(w) PROVE Out(m)'
    <2>1. InHand(w) \in Messages /\ Accept(InHand(w)) /\ outbox' = outbox
      BY <1>2, HandHeld DEF Delivered, AnswerLost, At
    <2>2. accepted' \in [Messages -> 0 .. MaxAccepted] /\ accepted'[m] >= accepted[m]
      BY <2>1, AcceptCounts
    <2>3. accepted[m] \in Nat /\ accepted'[m] \in Nat
      BY <2>2 DEF TypeOK
    <2> QED BY <2>1, <2>2, <2>3 DEF Out
  <1>3. ASSUME NEW w \in Workers, Record(w) PROVE Out(m)'
    BY <1>3 DEF Record, Out
  <1>4. ASSUME NEW w \in Workers, Step(w) \/ Abort(w), ~Delivered(w), ~AnswerLost(w), ~Record(w)
        PROVE  UNCHANGED <<accepted, outbox>>
    BY <1>4 DEF Step, SelectBatch, LookUp, NotDelivered, Refused, MarkSent, MarkDead,
       ReadAttempts, MarkFailed, Abort, outcome
  <1> QED
    BY <1>1, <1>2, <1>3, <1>4 DEF Next, vars, outcome, Enqueue, Link, Withdraw

LEMMA EvidenceStep ==
  ASSUME TypeOK, Batches, Evidence, [Next]_vars
  PROVE  Evidence'
  <1>1. ASSUME NEW w \in Workers, At(w, "mark_sent")' PROVE Out(InHand(w))'
    <2>1. CASE Same(w) /\ InHand(w)' = InHand(w)
      <3>1. InHand(w) \in Messages /\ Out(InHand(w)) /\ At(w, "mark_sent")
        BY <1>1, <2>1, HandHeld DEF Same, At, Evidence
      <3>2. PICK m \in Messages : m = InHand(w)
        BY <3>1
      <3>3. Out(m)'
        BY <3>1, <3>2, OutStays
      <3> QED BY <2>1, <3>2, <3>3 DEF Out
    <2>2. CASE Record(w)
      <3>1. outbox' = outbox \cup {InHand(w)} /\ batch' = batch
        BY <2>2 DEF Record
      <3>2. InHand(w)' = InHand(w)
        BY <3>1 DEF InHand
      <3> QED BY <3>1, <3>2 DEF Out
    <2>3. CASE Delivered(w)
      <3>1. InHand(w) \in Messages /\ Accept(InHand(w)) /\ batch' = batch
        BY <2>3, HandHeld DEF Delivered, At
      <3>2. InHand(w)' = InHand(w)
        BY <3>1 DEF InHand
      <3> QED BY <3>1, <3>2, AcceptCounts DEF Out
    <2>4. ASSUME Step(w) \/ Abort(w), ~Record(w), ~Delivered(w) PROVE FALSE
      <3> USE <1>1, <2>4 DEF TypeOK, At, Goto
      <3>1. CASE SelectBatch(w) \/ LookUp(w) \/ ReadAttempts(w) \/ Abort(w)
        BY <3>1 DEF SelectBatch, LookUp, ReadAttempts, Abort
      <3>2. CASE NotDelivered(w) \/ AnswerLost(w) \/ Refused(w)
        BY <3>2 DEF NotDelivered, AnswerLost, Refused, Retry
      <3>3. CASE Marks(w)
        BY <3>3, MarkEffects
      <3> QED BY <3>1, <3>2, <3>3 DEF Step, Marks
    <2>5. ASSUME NEW v \in Workers \ {w}, Step(v) \/ Abort(v)
          PROVE  Same(w) /\ InHand(w)' = InHand(w)
      BY <2>5, OthersKeep
    <2>6. ASSUME UNCHANGED worker PROVE Same(w) /\ InHand(w)' = InHand(w)
      BY <2>6 DEF worker, Same, InHand
    <2> QED
      BY <2>1, <2>2, <2>3, <2>4, <2>5, <2>6 DEF Next, vars, Enqueue, Link, Withdraw
  <1>2. ASSUME NEW m \in Messages, status'[m] = "sent" PROVE Out(m)'
    <2>1. CASE status[m] = "sent"
      BY <2>1, OutStays DEF Evidence
    <2>2. ASSUME NEW w \in Workers, MarkSent(w), m = InHand(w) PROVE Out(m)'
      BY <2>2, OutStays DEF Evidence, MarkSent
    <2>3. CASE status[m] # "sent"
      <3>1. ASSUME NEW w \in Workers, Marks(w) PROVE MarkSent(w) /\ m = InHand(w)
        <4>1. m = InHand(w) /\ InHand(w) \in Messages
          BY <1>2, <2>3, <3>1, MarkEffects
        <4>2. CASE MarkDead(w)
          BY <1>2, <4>1, <4>2 DEF MarkDead, SetStatus, TypeOK
        <4>3. CASE MarkFailed(w)
          BY <1>2, <4>1, <4>3 DEF MarkFailed, SetStatus, TypeOK
        <4> QED BY <3>1, <4>1, <4>2, <4>3 DEF Marks
      <3>2. ASSUME NEW w \in Workers, Step(w) \/ Abort(w), ~Marks(w) PROVE FALSE
        BY <1>2, <2>3, <3>2, SendEffects DEF Step, Sends, Marks, SelectBatch, Abort, table
      <3>3. ASSUME NEW k \in Messages, Enqueue(k) \/ Link(k) PROVE FALSE
        BY <1>2, <2>3, <3>3 DEF Enqueue, Link, SetStatus, TypeOK
      <3>4. ASSUME NEW k \in Messages, NEW to \in {"suppressed", "dead"}, Withdraw(k, to) PROVE FALSE
        BY <1>2, <2>3, <3>4 DEF Withdraw, SetStatus, TypeOK
      <3> QED BY <1>2, <2>2, <2>3, <3>1, <3>2, <3>3, <3>4 DEF Next, vars, table
    <2> QED BY <2>1, <2>3
  <1> QED
    BY <1>1, <1>2 DEF Evidence

-----------------------------------------------------------------------------
(* Who has a row in hand that was never held twice has it alone. *)
LEMMA AloneInHand ==
  ASSUME TypeOK, Batches, Exclusive, NEW w \in Workers, ~At(w, "idle"), InHand(w) \notin raced
  PROVE  /\ status[InHand(w)] = "queued"
         /\ \A v \in Workers : ~At(v, "idle") /\ InHand(v) = InHand(w) => v = w
         /\ ~Noting(w) => Unnoted(InHand(w))
  <1>1. InHand(w) \in Messages \ raced /\ w \in Holders(InHand(w))
    BY HandHeld DEF Holders
  <1>2. \A v \in Workers : ~At(v, "idle") /\ InHand(v) = InHand(w) => v \in Holders(InHand(w))
    BY HandHeld DEF Holders
  <1>3. status[InHand(w)] = "queued"
    BY <1>1 DEF Exclusive
  <1>4. \A v \in Workers : ~At(v, "idle") /\ InHand(v) = InHand(w) => v = w
    BY <1>1, <1>2 DEF Exclusive
  <1>5. \A v \in Workers : Noting(v) => ~At(v, "idle")
    BY DEF Noting, At
  <1> QED BY <1>3, <1>4, <1>5 DEF Unnoted

LEMMA AccountingStep ==
  ASSUME TypeOK, TypeOK', Batches, Exclusive, Accounting, [Next]_vars
  PROVE  Accounting'
  <1>0. \A m \in Messages : /\ accepted[m] \in Nat /\ accepted'[m] \in Nat
                            /\ unrecorded[m] \in Nat /\ unrecorded'[m] \in Nat
    BY DEF TypeOK
  <1>1. ASSUME UNCHANGED <<accepted, unrecorded>>, raced \subseteq raced',
               \A m \in Messages \ raced' : Unnoted(m)' => Unnoted(m)
        PROVE  Accounting'
    BY <1>1 DEF Accounting
  <1>2. ASSUME NEW w \in Workers, Step(w) \/ Abort(w), ~Noting(w),
               UNCHANGED <<accepted, unrecorded, status>>, raced \subseteq raced'
        PROVE  Accounting'
    <2>1. ASSUME NEW m \in Messages \ raced', Unnoted(m)' PROVE Unnoted(m)
      <3>1. \A v \in Workers \ {w} : Same(v) /\ InHand(v)' = InHand(v)
        BY <1>2, OthersKeep
      <3> QED BY <1>2, <2>1, <3>1 DEF Unnoted, Noting, Same, At
    <2> QED BY <1>1, <1>2, <2>1
  <1>3. ASSUME NEW w \in Workers, SelectBatch(w) PROVE Accounting'
    BY <1>2, <1>3 DEF SelectBatch, Noting, At, table, Step
  <1>4. ASSUME NEW w \in Workers, LookUp(w) \/ Record(w) \/ NotDelivered(w) \/ Refused(w) \/ ReadAttempts(w)
        PROVE  Accounting'
    BY <1>2, <1>4 DEF LookUp, Record, NotDelivered, Refused, ReadAttempts, Noting, At, table,
       outcome, Step
  <1>5. ASSUME NEW w \in Workers, Delivered(w) \/ AnswerLost(w) PROVE Accounting'
    <2>0. PICK h \in Messages : h = InHand(w)
      BY <1>5, HandHeld DEF Delivered, AnswerLost, At
    <2>1. /\ h = InHand(w) /\ ~At(w, "idle") /\ ~Noting(w) /\ Accept(h)
          /\ UNCHANGED <<status, raced, transport, batch>> /\ transport[w] # "dry_run"
      BY <1>5, <2>0 DEF Delivered, AnswerLost, At, Noting, table
    <2>2. /\ \A v \in Workers \ {w} : Same(v)
          /\ \A v \in Workers : InHand(v)' = InHand(v)
      BY <1>5, <2>1, OthersKeep DEF Step, InHand
    <2>3. /\ \A k \in Messages \ {h} : accepted'[k] = accepted[k]
          /\ accepted'[h] <= accepted[h] + 1
      BY <2>1, AcceptCounts
    <2>4. \A k \in Messages : k # h \/ Delivered(w) => unrecorded'[k] = unrecorded[k]
      BY <1>5, <2>1, LossCounts DEF Delivered, AnswerLost
    <2>5. AnswerLost(w) => unrecorded'[h] = unrecorded[h] + 1
      BY <2>1, LossCounts DEF AnswerLost
    <2>6. h \notin raced => accepted[h] <= unrecorded[h]
      BY <2>1, AloneInHand DEF Accounting
    <2>7. \A m \in Messages : Unnoted(m)' => Unnoted(m)
      BY <2>1, <2>2 DEF Unnoted, Noting, Same, At
    <2>8. Delivered(w) => ~Unnoted(h)'
      <3>1. Delivered(w) => Noting(w)'
        BY <2>1 DEF Delivered, Noting, At, Goto, TypeOK
      <3> QED BY <2>1, <2>2, <3>1 DEF Unnoted
    <2>9. ASSUME NEW m \in Messages \ raced', m # h
          PROVE  accepted'[m] <= unrecorded'[m] + 1 /\ (Unnoted(m)' => accepted'[m] <= unrecorded'[m])
      BY <2>1, <2>3, <2>4, <2>7, <2>9 DEF Accounting
    <2>10. ASSUME h \notin raced'
           PROVE  accepted'[h] <= unrecorded'[h] + 1 /\ (Unnoted(h)' => accepted'[h] <= unrecorded'[h])
      BY <1>0, <1>5, <2>1, <2>3, <2>4, <2>5, <2>6, <2>8, <2>10
    <2> QED BY <2>9, <2>10 DEF Accounting
  <1>6. ASSUME NEW w \in Workers, Marks(w) PROVE Accounting'
    <2>0. PICK h \in Messages : h = InHand(w)
      BY <1>6, MarkEffects
    <2>1. /\ h = InHand(w) /\ ~At(w, "idle")
          /\ \A k \in Messages \ {h} : status'[k] = status[k]
          /\ UNCHANGED <<accepted, unrecorded, raced>>
      BY <1>6, <2>0, MarkEffects DEF Marks, MarkSent, MarkDead, MarkFailed, At, outcome
    <2>2. \A v \in Workers \ {w} : Same(v) /\ InHand(v)' = InHand(v)
      BY <1>6, OthersKeep DEF Marks, Step
    <2>3. \A m \in Messages \ {h} : Unnoted(m)' => Unnoted(m)
      BY <2>1, <2>2 DEF Unnoted, Noting, Same, At
    <2>4. ASSUME h \notin raced, Unnoted(h)' PROVE Unnoted(h)
      <3>1. ~MarkSent(w)
        BY <2>1, <2>4 DEF MarkSent, SetStatus, Unnoted, TypeOK
      <3>2. ~Noting(w)
        BY <1>6, <3>1 DEF Marks, MarkDead, MarkFailed, Noting, At
      <3> QED BY <2>1, <2>4, <3>2, AloneInHand
    <2> QED BY <1>1, <2>1, <2>3, <2>4
  <1>7. ASSUME NEW w \in Workers, Abort(w) PROVE Accounting'
    <2>1. UNCHANGED <<accepted, status, raced>>
      BY <1>7 DEF Abort, table
    <2>2. CASE ~Noting(w)
      BY <1>2, <1>7, <2>1, <2>2 DEF Abort, Noting
    <2>3. CASE Noting(w)
      <3>1. PICK h \in Messages : h = InHand(w)
        BY <1>7, HandHeld DEF Abort
      <3>2. /\ unrecorded'[h] = unrecorded[h] + 1
            /\ \A k \in Messages \ {h} : unrecorded'[k] = unrecorded[k]
        BY <1>7, <2>3, <3>1, LossCounts DEF Abort, Noting
      <3>3. \A v \in Workers \ {w} : Same(v) /\ InHand(v)' = InHand(v)
        BY <1>7, OthersKeep
      <3>4. \A m \in Messages \ {h} : Unnoted(m)' => Unnoted(m)
        BY <2>1, <3>1, <3>3 DEF Unnoted, Noting, Same, At
      <3> QED BY <1>0, <2>1, <3>1, <3>2, <3>4 DEF Accounting
    <2> QED BY <2>2, <2>3
  <1>8. ASSUME NEW m \in Messages, Enqueue(m) \/ Link(m) PROVE Accounting'
    <2>1. /\ UNCHANGED <<accepted, unrecorded, raced, worker>>
          /\ \A k \in Messages : status'[k] # "sent" => status[k] # "sent"
      BY <1>8 DEF Enqueue, Link, SetStatus, TypeOK, outcome
    <2> QED BY <1>1, <2>1 DEF Unnoted, Noting, At, InHand, worker
  <1>9. ASSUME NEW m \in Messages, NEW to \in {"suppressed", "dead"}, Withdraw(m, to)
        PROVE  Accounting'
    <2>1. /\ UNCHANGED <<accepted, unrecorded, worker>> /\ raced \subseteq raced'
          /\ \A k \in Messages : status'[k] # "sent" => status[k] # "sent"
      BY <1>9 DEF Withdraw, SetStatus, TypeOK
    <2> QED BY <1>1, <2>1 DEF Unnoted, Noting, At, InHand, worker
  <1>10. ASSUME UNCHANGED vars PROVE Accounting'
    BY <1>1, <1>10 DEF vars, table, outcome, worker, Unnoted, Noting, At, InHand
  <1> QED
    BY <1>3, <1>4, <1>5, <1>6, <1>7, <1>8, <1>9, <1>10 DEF Next, Step, Marks

-----------------------------------------------------------------------------
LEMMA BudgetStep ==
  ASSUME TypeOK, TypeOK', Batches, Exclusive, Budget, [Next]_vars
  PROVE  Budget'
  <1> DEFINE Frugal(m) == /\ attempts[m] <= MaxAttempts
                          /\ status[m] \in {"queued", "absent"} => attempts[m] < MaxAttempts
             Fresh(w) == At(w, "mark_failed") /\ InHand(w) \notin raced => seen[w] = attempts[InHand(w)]
  <1>0. Budget <=> (\A m \in Messages \ raced : Frugal(m)) /\ (\A w \in Workers : Fresh(w))
    BY DEF Budget, RetryBudget
  <1>1. ASSUME \A m \in Messages \ raced' : Frugal(m)', \A w \in Workers : Fresh(w)' PROVE Budget'
    BY <1>1 DEF Budget, RetryBudget
  <1>2. ASSUME UNCHANGED <<status, attempts, worker>>, raced \subseteq raced' PROVE Budget'
    BY <1>2 DEF Budget, RetryBudget, worker, At, InHand
  <1>3. ASSUME NEW w \in Workers, Step(w) \/ Abort(w), ~Marks(w) PROVE Budget'
    <2>1. UNCHANGED <<status, attempts>> /\ raced \subseteq raced'
      BY <1>3, SendEffects DEF Step, Sends, Marks, SelectBatch, Abort, table
    <2>2. \A v \in Workers \ {w} : Same(v) /\ InHand(v)' = InHand(v)
      BY <1>3, OthersKeep
    <2>3. ~ReadAttempts(w) => ~At(w, "mark_failed")'
      <3> USE <1>3 DEF Step, Marks, TypeOK, At, Goto
      <3>1. CASE SelectBatch(w) \/ LookUp(w) \/ Record(w) \/ Delivered(w)
        BY <3>1 DEF SelectBatch, LookUp, Record, Delivered
      <3>2. CASE NotDelivered(w) \/ AnswerLost(w) \/ Refused(w) \/ Abort(w)
        BY <3>2 DEF NotDelivered, AnswerLost, Refused, Retry, Abort
      <3> QED BY <3>1, <3>2
    <2>4. ReadAttempts(w) => seen'[w] = attempts[InHand(w)] /\ InHand(w)' = InHand(w)
      BY DEF ReadAttempts, TypeOK, InHand
    <2>5. Fresh(w)'
      BY <2>1, <2>3, <2>4
    <2>6. \A v \in Workers \ {w} : Fresh(v)'
      BY <1>0, <2>1, <2>2 DEF Same, At
    <2> QED BY <1>0, <1>1, <2>1, <2>5, <2>6
  <1>4. ASSUME NEW w \in Workers, Marks(w) PROVE Budget'
    <2>0. PICK h \in Messages : h = InHand(w)
      BY <1>4, MarkEffects
    <2>1. /\ h = InHand(w) /\ ~At(w, "idle") /\ pc'[w] \in {"idle", "look_up"}
          /\ \A k \in Messages \ {h} : status'[k] = status[k] /\ attempts'[k] = attempts[k]
          /\ UNCHANGED raced
      BY <1>4, <2>0, MarkEffects DEF Marks, MarkSent, MarkDead, MarkFailed, At, outcome
    <2>2. \A v \in Workers \ {w} : Same(v) /\ InHand(v)' = InHand(v)
      BY <1>4, OthersKeep DEF Marks, Step
    <2>3. ASSUME h \notin raced PROVE Frugal(h)'
      <3>1. status[h] = "queued"
        BY <2>1, <2>3, AloneInHand
      <3>2. attempts[h] < MaxAttempts /\ attempts[h] \in Nat /\ MaxAttempts \in Nat
        BY <1>0, <2>3, <3>1, QueueAssumption DEF TypeOK
      <3>3. CASE MarkSent(w) \/ MarkDead(w)
        <4>1. attempts' = attempts /\ status'[h] \in {"sent", "dead"}
          BY <2>1, <3>3 DEF MarkSent, MarkDead, SetStatus, TypeOK
        <4> QED BY <3>2, <4>1
      <3>4. CASE MarkFailed(w)
        <4>1. seen[w] = attempts[h]
          BY <1>0, <2>1, <2>3, <3>4 DEF MarkFailed
        <4>2. /\ attempts'[h] = attempts[h] + 1
              /\ status'[h] = IF attempts[h] + 1 >= MaxAttempts THEN "dead" ELSE "queued"
          BY <2>1, <3>4, <4>1 DEF MarkFailed, SetStatus, TypeOK
        <4> QED BY <3>2, <4>2
      <3> QED BY <1>4, <3>3, <3>4 DEF Marks
    <2>4. \A m \in Messages \ raced' : Frugal(m)'
      BY <1>0, <2>1, <2>3
    <2>5. Fresh(w)'
      BY <2>1 DEF At
    <2>6. ASSUME NEW v \in Workers \ {w}, At(v, "mark_failed")', InHand(v)' \notin raced' PROVE Fresh(v)'
      <3>1. At(v, "mark_failed") /\ InHand(v) \notin raced /\ InHand(v) \in Messages
        BY <2>1, <2>2, <2>6, HandHeld DEF Same, At
      <3>2. InHand(v) # h
        BY <2>1, <3>1, AloneInHand DEF At
      <3>3. seen'[v] = seen[v] /\ InHand(v)' = InHand(v)
        BY <2>2 DEF Same
      <3> QED BY <1>0, <2>1, <3>1, <3>2, <3>3
    <2> QED BY <1>1, <2>4, <2>5, <2>6
  <1>5. ASSUME NEW m \in Messages, Enqueue(m) PROVE Budget'
    <2>1. /\ status' = [status EXCEPT ![m] = "queued"] /\ status[m] = "absent"
          /\ UNCHANGED <<attempts, raced, worker>>
      BY <1>5 DEF Enqueue, SetStatus, outcome
    <2>2. \A k \in Messages \ raced' : Frugal(k)'
      BY <1>0, <2>1 DEF TypeOK
    <2>3. \A w \in Workers : Fresh(w)'
      BY <1>0, <2>1 DEF worker, At, InHand
    <2> QED BY <1>1, <2>2, <2>3
  <1>6. ASSUME NEW m \in Messages, NEW to \in {"suppressed", "dead"}, Withdraw(m, to)
        PROVE  Budget'
    <2>1. /\ status' = [status EXCEPT ![m] = to]
          /\ UNCHANGED <<attempts, worker>> /\ raced \subseteq raced'
      BY <1>6 DEF Withdraw, SetStatus
    <2>2. \A k \in Messages \ raced' : Frugal(k)'
      BY <1>0, <2>1 DEF TypeOK
    <2>3. \A w \in Workers : Fresh(w)'
      BY <1>0, <2>1 DEF worker, At, InHand
    <2> QED BY <1>1, <2>2, <2>3
  <1>7. ASSUME NEW m \in Messages, Link(m) PROVE Budget'
    BY <1>2, <1>7 DEF Link, outcome
  <1>8. ASSUME UNCHANGED vars PROVE Budget'
    BY <1>2, <1>8 DEF vars, table, outcome
  <1> QED
    BY <1>3, <1>4, <1>5, <1>6, <1>7, <1>8 DEF Next, Step, Marks

-----------------------------------------------------------------------------
LEMMA Inductive ==
  ASSUME IInv, [Next]_vars
  PROVE  IInv'
  <1>1. TypeOK' /\ Batches'
    BY TypeStep, BatchesStep DEF IInv
  <1>2. Exclusive' /\ Evidence'
    BY ExclusiveStep, EvidenceStep DEF IInv
  <1>3. Accounting' /\ Budget'
    BY <1>1, AccountingStep, BudgetStep DEF IInv
  <1> QED BY <1>1, <1>2, <1>3 DEF IInv

(* The inductive invariant holds: what process_queued relies on when it     *)
(* writes to a row it read some statements ago, for any number of passes.   *)
THEOREM Invariance == Spec => []IInv
  BY InitInv, Inductive, PTL DEF Spec

(* Every variable keeps its type: no pass leaves the queue's states. *)
THEOREM TypeCorrect == Spec => []TypeOK
  <1>1. IInv => TypeOK
    BY DEF IInv
  <1> QED BY <1>1, Invariance, PTL

(* What the customer got is what the table accounts for: more than one copy *)
(* of a message, or one of a dead message, has a lost answer, a killed pass *)
(* or a race behind it, and no row says sent of a message nobody took.      *)
THEOREM SendsExplained == Spec => []SendsAreExplained
  <1>1. IInv => SendsAreExplained
    <2> SUFFICES ASSUME IInv PROVE SendsAreExplained
      OBVIOUS
    <2> USE DEF IInv
    <2>1. DuplicateHasCause
      BY DEF Accounting, DuplicateHasCause, TypeOK
    <2>2. \A m \in Messages : status[m] = "sent" => accepted[m] >= 1 \/ m \in outbox
      BY DEF Evidence, Out
    <2>3. ASSUME NEW m \in Messages \ raced, status[m] = "dead" PROVE accepted[m] <= unrecorded[m]
      <3>1. Holders(m) = {}
        BY <2>3 DEF Exclusive
      <3>2. \A w \in Workers : Noting(w) => InHand(w) # m
        BY <3>1, HandHeld DEF Holders, Noting, At
      <3> QED BY <2>3, <3>2 DEF Accounting, Unnoted
    <2> QED BY <2>1, <2>2, <2>3 DEF SendsAreExplained, VerdictsAreTrue
  <1> QED BY <1>1, Invariance, PTL

(* mark_failed_or_retry never gives a message more attempts than            *)
(* max_attempts, and a message that is still queued has one left.           *)
THEOREM BudgetKept == Spec => []RetryBudget
  <1>1. IInv => RetryBudget
    BY DEF IInv, Budget
  <1> QED BY <1>1, Invariance, PTL

(* Nothing touches a settled message that was never held by two parties:    *)
(* the statuses the code calls terminal are, where no race is.              *)
THEOREM TerminalKept == Spec => TerminalStaysUnraced
  <1> DEFINE Stays == \A m \in Messages \ raced' :
                        status[m] \in Terminal => status'[m] = status[m] /\ attempts'[m] = attempts[m]
  <1>1. IInv /\ [Next]_vars => Stays
    <2> SUFFICES ASSUME IInv, [Next]_vars, NEW m \in Messages \ raced', status[m] \in Terminal
                 PROVE  status'[m] = status[m] /\ attempts'[m] = attempts[m]
      OBVIOUS
    <2> USE DEF IInv
    <2>1. ASSUME NEW w \in Workers, Marks(w) PROVE status'[m] = status[m] /\ attempts'[m] = attempts[m]
      <3>1. raced' = raced /\ ~At(w, "idle")
        BY <2>1, MarkEffects DEF outcome, Marks, MarkSent, MarkDead, MarkFailed, At
      <3>2. InHand(w) # m
        BY <3>1, AloneInHand DEF Terminal
      <3> QED BY <2>1, <3>2, MarkEffects
    <2>2. ASSUME NEW w \in Workers, Step(w) \/ Abort(w), ~Marks(w)
          PROVE  status' = status /\ attempts' = attempts
      BY <2>2, SendEffects DEF Step, Sends, Marks, SelectBatch, Abort, table
    <2>3. ASSUME NEW k \in Messages, Enqueue(k) \/ Link(k)
          PROVE  status'[m] = status[m] /\ attempts'[m] = attempts[m]
      BY <2>3 DEF Enqueue, Link, SetStatus, TypeOK, Terminal
    <2>4. ASSUME NEW k \in Messages, NEW to \in {"suppressed", "dead"}, Withdraw(k, to)
          PROVE  status'[m] = status[m] /\ attempts'[m] = attempts[m]
      BY <2>4 DEF Withdraw, SetStatus, TypeOK, Terminal
    <2> QED BY <2>1, <2>2, <2>3, <2>4 DEF Next, vars, table
  <1> QED BY <1>1, Invariance, PTL DEF Spec, TerminalStaysUnraced

-----------------------------------------------------------------------------
(* Deliveries.  The queue keeps its invariant with Delivery around it, and  *)
(* DeliveryInv ties a call to its row and to its message, which are its own *)
(* as long as every call takes a new one.                                   *)
Batched == \A w \in Workers : \A m \in batch[w] : status[m] # "absent"

Deliveries == [subscription : Subscriptions, available : SUBSET Modes,
               primary_mode : Modes, status : {"prepared", "queued"}]

Rows ==
    /\ deliveries \in Seq(Deliveries)
    /\ \A i \in DOMAIN deliveries :
          deliveries[i].available # {} => deliveries[i].primary_mode \in deliveries[i].available
    /\ stage \in [Calls -> Stages]
    /\ row \in [Calls -> {None} \cup DOMAIN deliveries]

OneCallEach ==
    /\ \A c \in Calls : row[c] = None <=> stage[c] = "idle"
    /\ \A c, d \in Calls : row[c] = row[d] /\ row[c] # None => c = d
    /\ \A i \in DOMAIN deliveries : \E c \in Calls : row[c] = i
    /\ \A c \in Calls : row[c] # None => (deliveries[row[c]].status = "queued" <=> stage[c] = "ok")

Notified ==
    /\ notification \in [Calls -> {None} \cup Messages]
    /\ \A c \in Calls : stage[c] \in {"idle", "enqueue"} => notification[c] = None
    /\ \A c \in Calls : stage[c] \in {"mark", "ok"} => notification[c] # None
    /\ \A c, d \in Calls : notification[c] = notification[d] /\ notification[c] # None => c = d
    /\ \A m \in Messages : status[m] # "absent" <=> \E c \in Calls : notification[c] = m

DeliveryInv == IInv /\ Batched /\ Rows /\ OneCallEach /\ Notified

LEMMA DeliveryInitInv == DeliveryInit => DeliveryInv
  <1> SUFFICES ASSUME DeliveryInit PROVE DeliveryInv
    OBVIOUS
  <1> USE DEF DeliveryInit
  <1>1. IInv
    BY InitInv
  <1>2. Batched
    BY DEF Init, Batched
  <1>3. Rows
    BY DEF Rows, Stages
  <1>4. OneCallEach
    BY DEF OneCallEach
  <1>5. Notified
    BY DeliveryAssumption DEF Notified, Init
  <1> QED BY <1>1, <1>2, <1>3, <1>4, <1>5 DEF DeliveryInv

(* choose_primary_mode picks an available mode, when there is one. *)
LEMMA PrimaryMode ==
  ASSUME NEW A \in SUBSET Modes
  PROVE  choose_primary_mode(A) \in Modes /\ (A # {} => choose_primary_mode(A) \in A)
  <1>1. /\ DOMAIN ModeOrder = 1 .. 3
        /\ ModeOrder[1] = "deep_link" /\ ModeOrder[2] = "copy_link" /\ ModeOrder[3] = "qr"
    BY DEF ModeOrder
  <1> DEFINE First(i) == ModeOrder[i] \in A /\ \A j \in 1 .. (i - 1) : ModeOrder[j] \notin A
  <1>2. ASSUME A # {} PROVE \E i \in DOMAIN ModeOrder : First(i)
    <2>1. CASE "deep_link" \in A
      BY <1>1, <2>1
    <2>2. CASE "deep_link" \notin A /\ "copy_link" \in A
      <3>1. First(2)
        BY <1>1, <2>2
      <3> QED BY <1>1, <3>1
    <2>3. CASE "deep_link" \notin A /\ "copy_link" \notin A
      <3>1. "qr" \in A
        BY <1>2, <2>3 DEF Modes
      <3>2. First(3)
        BY <1>1, <2>3, <3>1
      <3> QED BY <1>1, <3>2
    <2> QED BY <2>1, <2>2, <2>3
  <1>3. ASSUME A # {} PROVE choose_primary_mode(A) \in A
    <2>1. PICK i \in DOMAIN ModeOrder : i = CHOOSE j \in DOMAIN ModeOrder : First(j)
      BY <1>2, <1>3
    <2>2. First(i)
      BY <1>2, <1>3, <2>1
    <2> QED BY <1>3, <2>1, <2>2 DEF choose_primary_mode
  <1> QED BY <1>3 DEF choose_primary_mode, Modes

(* A pass neither takes a row that is not there nor makes one.              *)
LEMMA PassKeepsRows ==
  ASSUME IInv, Batched, NEW w \in Workers, Step(w) \/ Abort(w)
  PROVE  /\ Batched'
         /\ \A m \in Messages : status'[m] = "absent" <=> status[m] = "absent"
  <1> USE DEF IInv, TypeOK
  <1>1. ASSUME Marks(w)
        PROVE  Batched' /\ \A m \in Messages : status'[m] = "absent" <=> status[m] = "absent"
    <2>1. /\ InHand(w) \in batch[w] /\ InHand(w) \in Messages
          /\ \A k \in Messages \ {InHand(w)} : status'[k] = status[k]
          /\ batch' = [batch EXCEPT ![w] = batch[w] \ {InHand(w)}]
      BY <1>1, MarkEffects
    <2>2. status'[InHand(w)] # "absent"
      BY <1>1, <2>1 DEF Marks, MarkSent, MarkDead, MarkFailed, SetStatus
    <2>3. status[InHand(w)] # "absent"
      BY <2>1 DEF Batched
    <2>4. \A m \in Messages : status'[m] = "absent" <=> status[m] = "absent"
      BY <2>1, <2>2, <2>3
    <2>5. \A v \in Workers : batch'[v] \subseteq batch[v] /\ batch[v] \subseteq Messages
      BY <2>1
    <2> QED BY <2>4, <2>5 DEF Batched
  <1>2. ASSUME Sends(w)
        PROVE  Batched' /\ \A m \in Messages : status'[m] = "absent" <=> status[m] = "absent"
    BY <1>2, SendEffects DEF Batched
  <1>3. ASSUME SelectBatch(w)
        PROVE  Batched' /\ \A m \in Messages : status'[m] = "absent" <=> status[m] = "absent"
    BY <1>3 DEF SelectBatch, FirstQueued, Queued, Batched, table
  <1>4. ASSUME Abort(w)
        PROVE  Batched' /\ \A m \in Messages : status'[m] = "absent" <=> status[m] = "absent"
    BY <1>4 DEF Abort, Batched, table
  <1> QED BY <1>1, <1>2, <1>3, <1>4 DEF Step, Sends, Marks

(* A call that has yet to enqueue finds a message that nobody took: every   *)
(* message taken is another call's, and there are no more calls.            *)
LEMMA FreeMessage ==
  ASSUME DeliveryInv, NEW c \in Calls, stage[c] = "enqueue"
  PROVE  NextMessage \in Messages /\ status[NextMessage] = "absent"
  <1> DEFINE Free == {m \in Messages : status[m] = "absent"}
  <1>1. ASSUME Free = {} PROVE FALSE
    <2> DEFINE f == [m \in Messages |-> CHOOSE d \in Calls : notification[d] = m]
    <2>1. \A m \in Messages : f[m] \in Calls /\ notification[f[m]] = m
      BY <1>1 DEF DeliveryInv, Notified
    <2>2. notification[c] = None
      BY DEF DeliveryInv, Notified
    <2>3. \A m \in Messages : f[m] # c
      BY <2>1, <2>2, DeliveryAssumption
    <2> HIDE DEF f
    <2>4. f \in [Messages -> Calls \ {c}]
      BY <2>1, <2>3 DEF f
    <2>5. IsInjective(f) /\ f \in Injection(Messages, Calls \ {c})
      <3>1. \A m, k \in Messages : f[m] = f[k] => m = k
        BY <2>1
      <3> QED BY <2>4, <3>1 DEF Injection, IsInjective
    <2>6. /\ IsFiniteSet(Calls \ {c})
          /\ Cardinality(Calls \ {c}) = Cardinality(Calls) - 1
      BY DeliveryAssumption, FS_RemoveElement
    <2>7. IsFiniteSet(Messages) /\ Cardinality(Messages) <= Cardinality(Calls \ {c})
      BY <2>5, <2>6, FS_Injection
    <2>8. Cardinality(Messages) \in Nat /\ Cardinality(Calls) \in Nat
      BY <2>7, DeliveryAssumption, FS_CardinalityType
    <2> QED BY <2>6, <2>7, <2>8, DeliveryAssumption
  <1>2. Free \subseteq Nat /\ Free \subseteq Messages
    BY QueueAssumption
  <1>3. PICK m \in Free : \A k \in Free : m <= k
    BY <1>1, <1>2, Least
  <1>4. \A k \in Messages : k < m => status[k] # "absent"
    BY <1>2, <1>3
  <1> QED BY <1>3, <1>4 DEF NextMessage

(* All messages of the customer become reachable at once.                   *)
LEMMA LinkKeepsQueue ==
  ASSUME IInv, CustomerLinks
  PROVE  IInv'
  <1> USE DEF IInv, CustomerLinks
  <1>1. TypeOK' /\ Batches'
    BY DEF TypeOK, Batches, At, outcome, worker
  <1>2. Exclusive'
    BY DEF Exclusive, Holders, outcome, worker
  <1>3. Evidence'
    BY DEF Evidence, Out, At, InHand, outcome, worker
  <1>4. Accounting'
    BY DEF Accounting, Unnoted, Noting, At, InHand, outcome, worker
  <1>5. Budget'
    BY DEF Budget, RetryBudget, At, InHand, outcome, worker
  <1> QED BY <1>1, <1>2, <1>3, <1>4, <1>5

LEMMA QueueStep ==
  ASSUME DeliveryInv, [DeliveryNext]_deliveryVars
  PROVE  IInv'
  <1>0. IInv
    BY DEF DeliveryInv
  <1>1. ASSUME NEW c \in Calls, EnqueueNotification(c) PROVE IInv'
    <2>1. NextMessage \in Messages
      BY <1>1, FreeMessage DEF EnqueueNotification, AtStage
    <2>2. Next
      BY <1>1, <2>1 DEF EnqueueNotification, Next
    <2> QED BY <1>0, <2>2, Inductive
  <1>2. ASSUME NEW c \in Calls, Prepare(c) \/ MarkQueued(c) \/ Fail(c) PROVE IInv'
    <2>1. UNCHANGED vars
      BY <1>2 DEF Prepare, MarkQueued, Fail
    <2> QED BY <1>0, <2>1, Inductive
  <1>3. ASSUME NEW w \in Workers, Pass(w) \/ Abort(w) PROVE IInv'
    BY <1>0, <1>3, Inductive DEF Next, Pass
  <1>4. ASSUME NEW m \in Messages, NEW to \in {"suppressed", "dead"}, Withdraw(m, to) PROVE IInv'
    BY <1>0, <1>4, Inductive DEF Next
  <1>5. CASE UNCHANGED deliveryVars
    BY <1>0, <1>5, Inductive DEF deliveryVars
  <1> QED BY <1>0, <1>1, <1>2, <1>3, <1>4, <1>5, LinkKeepsQueue DEF DeliveryNext

LEMMA BatchedStep ==
  ASSUME DeliveryInv, [DeliveryNext]_deliveryVars
  PROVE  Batched'
  <1>0. TypeOK /\ Batched
    BY DEF DeliveryInv, IInv
  <1> DEFINE Kept == batch' = batch /\ \A m \in Messages : status[m] # "absent" => status'[m] # "absent"
  <1>1. ASSUME Kept PROVE Batched'
    BY <1>0, <1>1 DEF Batched, TypeOK
  <1> HIDE DEF Kept
  <1>2. ASSUME NEW c \in Calls, EnqueueNotification(c) PROVE Kept
    BY <1>0, <1>2, FreeMessage
       DEF EnqueueNotification, AtStage, Enqueue, SetStatus, worker, TypeOK, Kept
  <1>3. ASSUME NEW c \in Calls, Prepare(c) \/ MarkQueued(c) \/ Fail(c) PROVE Kept
    BY <1>3 DEF Prepare, MarkQueued, Fail, vars, table, worker, Kept
  <1>4. ASSUME NEW w \in Workers, Pass(w) \/ Abort(w) PROVE Batched'
    BY <1>4, PassKeepsRows DEF DeliveryInv, Pass
  <1>5. ASSUME NEW m \in Messages, NEW to \in {"suppressed", "dead"}, Withdraw(m, to) PROVE Kept
    BY <1>0, <1>5 DEF Withdraw, SetStatus, worker, TypeOK, Kept
  <1>6. CASE CustomerLinks \/ UNCHANGED deliveryVars
    <2>1. Kept
      BY <1>6 DEF CustomerLinks, deliveryVars, vars, table, worker, Kept
    <2> QED BY <1>1, <2>1
  <1> QED BY <1>1, <1>2, <1>3, <1>4, <1>5, <1>6 DEF DeliveryNext

(* What a step of the queue leaves of the deliveries. *)
LEMMA RowsStep ==
  ASSUME DeliveryInv, [DeliveryNext]_deliveryVars
  PROVE  Rows' /\ OneCallEach'
  <1>0. Rows /\ OneCallEach
    BY DEF DeliveryInv
  <1>1. ASSUME NEW c \in Calls, Prepare(c) PROVE Rows' /\ OneCallEach'
    <2>1. PICK s \in Subscriptions, output \in Outputs, token \in BOOLEAN :
            deliveries' = Append(deliveries,
              [subscription |-> s, available |-> Available(output, token),
               primary_mode |-> choose_primary_mode(Available(output, token)),
               status |-> "prepared"])
      BY <1>1 DEF Prepare
    <2> DEFINE new == [subscription |-> s, available |-> Available(output, token),
                       primary_mode |-> choose_primary_mode(Available(output, token)),
                       status |-> "prepared"]
               next == Len(deliveries) + 1
    <2>2. Available(output, token) \in SUBSET Modes
      BY DEF Available
    <2>3. /\ new \in Deliveries /\ new.status = "prepared"
          /\ new.available # {} => new.primary_mode \in new.available
      BY <2>2, PrimaryMode DEF Deliveries
    <2> HIDE DEF new
    <2>4. /\ deliveries' \in Seq(Deliveries) /\ next \in Nat /\ next # None
          /\ DOMAIN deliveries' = DOMAIN deliveries \cup {next} /\ next \notin DOMAIN deliveries
          /\ deliveries'[next] = new
          /\ \A i \in DOMAIN deliveries : deliveries'[i] = deliveries[i] /\ i # None
      BY <1>0, <2>1, <2>3 DEF Rows, new, None
    <2> HIDE DEF next
    <2>5. /\ row' = [row EXCEPT ![c] = next] /\ stage' = [stage EXCEPT ![c] = "enqueue"]
          /\ stage[c] = "idle" /\ row[c] = None
      BY <1>0, <1>1 DEF Prepare, AtStage, Proceed, OneCallEach, next
    <2>6. Rows'
      <3>1. \A i \in DOMAIN deliveries' :
              deliveries'[i].available # {} => deliveries'[i].primary_mode \in deliveries'[i].available
        BY <1>0, <2>3, <2>4 DEF Rows
      <3>2. stage' \in [Calls -> Stages] /\ row' \in [Calls -> {None} \cup DOMAIN deliveries']
        BY <1>0, <2>4, <2>5 DEF Rows, Stages
      <3> QED BY <2>4, <3>1, <3>2 DEF Rows
    <2>7. \A d \in Calls \ {c} : row'[d] = row[d] /\ stage'[d] = stage[d] /\ row[d] # next
      BY <1>0, <2>4, <2>5 DEF Rows
    <2>8. row'[c] = next /\ stage'[c] = "enqueue"
      BY <1>0, <2>5 DEF Rows
    <2>9. \A d \in Calls : row'[d] = None <=> stage'[d] = "idle"
      BY <1>0, <2>4, <2>7, <2>8 DEF OneCallEach
    <2>10. \A d, e \in Calls : row'[d] = row'[e] /\ row'[d] # None => d = e
      BY <1>0, <2>7, <2>8 DEF OneCallEach
    <2>11. \A i \in DOMAIN deliveries' : \E d \in Calls : row'[d] = i
      BY <1>0, <2>4, <2>5, <2>7, <2>8 DEF OneCallEach
    <2>12. \A d \in Calls :
             row'[d] # None => (deliveries'[row'[d]].status = "queued" <=> stage'[d] = "ok")
      <3>1. \A d \in Calls \ {c} : row[d] # None => row[d] \in DOMAIN deliveries
        BY <1>0 DEF Rows
      <3> QED BY <1>0, <2>3, <2>4, <2>7, <2>8, <3>1 DEF OneCallEach
    <2> QED BY <2>6, <2>9, <2>10, <2>11, <2>12 DEF OneCallEach
  <1>2. ASSUME NEW c \in Calls, MarkQueued(c) PROVE Rows' /\ OneCallEach'
    <2>1. /\ deliveries' = [deliveries EXCEPT ![row[c]].status = "queued"]
          /\ stage' = [stage EXCEPT ![c] = "ok"] /\ stage[c] = "mark" /\ row' = row
      BY <1>2 DEF MarkQueued, AtStage, Proceed
    <2>2. row[c] \in DOMAIN deliveries /\ row[c] # None
      BY <1>0, <2>1 DEF Rows, OneCallEach
    <2>3. PICK old \in Deliveries : old = deliveries[row[c]]
      BY <1>0, <2>2 DEF Rows
    <2> DEFINE marked == [old EXCEPT !.status = "queued"]
    <2>4. /\ marked \in Deliveries /\ marked.status = "queued"
          /\ marked.available = old.available /\ marked.primary_mode = old.primary_mode
      BY DEF Deliveries
    <2>5. /\ deliveries' \in Seq(Deliveries) /\ DOMAIN deliveries' = DOMAIN deliveries
          /\ deliveries'[row[c]] = marked
          /\ \A i \in DOMAIN deliveries \ {row[c]} : deliveries'[i] = deliveries[i]
      BY <1>0, <2>1, <2>2, <2>3, <2>4 DEF Rows
    <2>6. Rows'
      <3>1. stage' \in [Calls -> Stages] /\ row' \in [Calls -> {None} \cup DOMAIN deliveries']
        BY <1>0, <2>1, <2>5 DEF Rows, Stages
      <3>2. \A i \in DOMAIN deliveries' :
              deliveries'[i].available # {} => deliveries'[i].primary_mode \in deliveries'[i].available
        BY <1>0, <2>2, <2>3, <2>4, <2>5 DEF Rows
      <3> QED BY <2>5, <3>1, <3>2 DEF Rows
    <2>7. \A d \in Calls \ {c} : stage'[d] = stage[d]
      BY <1>0, <2>1 DEF Rows
    <2>8. \A d \in Calls : row[d] # None => (deliveries'[row[d]].status = "queued" <=> stage'[d] = "ok")
      BY <1>0, <2>1, <2>2, <2>4, <2>5, <2>7 DEF Rows, OneCallEach
    <2>9. \A d \in Calls : row[d] = None <=> stage'[d] = "idle"
      BY <1>0, <2>1, <2>2, <2>7 DEF Rows, OneCallEach
    <2> QED BY <1>0, <2>1, <2>5, <2>6, <2>8, <2>9 DEF OneCallEach
  <1>3. ASSUME NEW c \in Calls, EnqueueNotification(c) \/ Fail(c) PROVE Rows' /\ OneCallEach'
    <2>1. UNCHANGED <<deliveries, row>>
      BY <1>3 DEF EnqueueNotification, Fail
    <2>2. stage[c] \in {"enqueue", "mark"} /\ \E l \in {"mark", "failed"} : stage' = [stage EXCEPT ![c] = l]
      BY <1>3 DEF EnqueueNotification, Fail, AtStage, Proceed
    <2>3. Rows'
      BY <1>0, <2>1, <2>2 DEF Rows, Stages
    <2>4. \A d \in Calls : (stage'[d] = "idle" <=> stage[d] = "idle") /\ (stage'[d] = "ok" <=> stage[d] = "ok")
      BY <1>0, <2>2 DEF Rows
    <2> QED BY <1>0, <2>1, <2>3, <2>4 DEF OneCallEach
  <1>4. ASSUME UNCHANGED delivery PROVE Rows' /\ OneCallEach'
    BY <1>0, <1>4 DEF delivery, Rows, OneCallEach
  <1> QED BY <1>1, <1>2, <1>3, <1>4 DEF DeliveryNext, Pass, CustomerLinks, deliveryVars

LEMMA NotifiedStep ==
  ASSUME DeliveryInv, [DeliveryNext]_deliveryVars
  PROVE  Notified'
  <1>0. Notified /\ TypeOK
    BY DEF DeliveryInv, IInv
  <1> DEFINE Known == \A m \in Messages : status'[m] = "absent" <=> status[m] = "absent"
  <1>1. ASSUME UNCHANGED <<stage, notification>>, Known PROVE Notified'
    BY <1>0, <1>1 DEF Notified
  <1>2. ASSUME UNCHANGED <<status, notification>>, NEW c \in Calls,
               \/ stage[c] = "idle" /\ stage' = [stage EXCEPT ![c] = "enqueue"]
               \/ stage[c] = "mark" /\ stage' = [stage EXCEPT ![c] = "ok"]
               \/ stage' = [stage EXCEPT ![c] = "failed"]
        PROVE  Notified'
    <2>1. \A d \in Calls : stage'[d] = stage[d] \/ d = c
      BY <1>2 DEF DeliveryInv, Rows
    <2>2. \/ stage[c] = "idle" /\ stage'[c] = "enqueue"
          \/ stage[c] = "mark" /\ stage'[c] = "ok"
          \/ stage'[c] = "failed"
      BY <1>2 DEF DeliveryInv, Rows
    <2> QED BY <1>0, <1>2, <2>1, <2>2 DEF Notified
  <1>3. ASSUME NEW c \in Calls, EnqueueNotification(c) PROVE Notified'
    <2>1. PICK m \in Messages : m = NextMessage /\ status[m] = "absent"
      BY <1>3, FreeMessage DEF EnqueueNotification, AtStage
    <2>2. /\ status' = [status EXCEPT ![m] = "queued"]
          /\ notification' = [notification EXCEPT ![c] = m]
          /\ stage[c] = "enqueue" /\ stage' = [stage EXCEPT ![c] = "mark"]
      BY <1>3, <2>1 DEF EnqueueNotification, Enqueue, SetStatus, AtStage, Proceed
    <2>3. m # None /\ \A d \in Calls : notification[d] # m
      BY <1>0, <2>1, DeliveryAssumption DEF Notified
    <2>4. /\ notification' \in [Calls -> {None} \cup Messages] /\ notification'[c] = m
          /\ \A d \in Calls \ {c} : notification'[d] = notification[d]
      BY <1>0, <2>2 DEF Notified
    <2>5. stage'[c] = "mark" /\ \A d \in Calls \ {c} : stage'[d] = stage[d]
      BY <2>2 DEF DeliveryInv, Rows
    <2>6. status'[m] = "queued" /\ \A k \in Messages \ {m} : status'[k] = status[k]
      BY <1>0, <2>2 DEF TypeOK
    <2>7. notification[c] = None
      BY <1>0, <2>2 DEF Notified
    <2>8. \A d \in Calls : stage'[d] \in {"idle", "enqueue"} => notification'[d] = None
      BY <1>0, <2>4, <2>5 DEF Notified
    <2>9. \A d \in Calls : stage'[d] \in {"mark", "ok"} => notification'[d] # None
      BY <1>0, <2>3, <2>4, <2>5 DEF Notified
    <2>10. \A d, e \in Calls : notification'[d] = notification'[e] /\ notification'[d] # None => d = e
      BY <1>0, <2>3, <2>4 DEF Notified
    <2>11. ASSUME NEW k \in Messages
           PROVE  status'[k] # "absent" <=> \E d \in Calls : notification'[d] = k
      <3>1. CASE k = m
        BY <2>4, <2>6, <3>1
      <3>2. CASE k # m
        <4>1. status'[k] = status[k] /\ k # None
          BY <2>6, <3>2, DeliveryAssumption
        <4>2. (\E d \in Calls : notification'[d] = k) <=> (\E d \in Calls : notification[d] = k)
          BY <2>4, <2>7, <3>2, <4>1
        <4> QED BY <1>0, <4>1, <4>2 DEF Notified
      <3> QED BY <3>1, <3>2
    <2> QED BY <2>4, <2>8, <2>9, <2>10, <2>11 DEF Notified
  <1>4. ASSUME NEW c \in Calls, Prepare(c) \/ MarkQueued(c) \/ Fail(c) PROVE Notified'
    <2>1. UNCHANGED <<status, notification>>
      BY <1>4 DEF Prepare, MarkQueued, Fail, vars, table
    <2> QED BY <1>2, <1>4, <2>1 DEF Prepare, MarkQueued, Fail, AtStage, Proceed
  <1>5. ASSUME NEW w \in Workers, Pass(w) \/ (Abort(w) /\ UNCHANGED delivery) PROVE Notified'
    BY <1>1, <1>5, PassKeepsRows DEF DeliveryInv, Pass, delivery
  <1>6. ASSUME NEW m \in Messages, NEW to \in {"suppressed", "dead"},
               Withdraw(m, to), UNCHANGED delivery
        PROVE  Notified'
    <2>1. Known
      BY <1>0, <1>6 DEF Withdraw, SetStatus, TypeOK
    <2> QED BY <1>1, <1>6, <2>1 DEF delivery
  <1>7. CASE CustomerLinks \/ UNCHANGED deliveryVars
    BY <1>1, <1>7 DEF CustomerLinks, delivery, deliveryVars, vars, table
  <1> QED BY <1>3, <1>4, <1>5, <1>6, <1>7 DEF DeliveryNext

-----------------------------------------------------------------------------
(* The invariant of queue and deliveries holds, whatever calls, passes,     *)
(* operators and the customer do between a delivery's three transactions.   *)
THEOREM DeliveryInvariance == DeliverySpec => []DeliveryInv
  <1>1. DeliveryInv /\ [DeliveryNext]_deliveryVars => DeliveryInv'
    BY QueueStep, BatchedStep, RowsStep, NotifiedStep DEF DeliveryInv
  <1> QED BY <1>1, DeliveryInitInv, PTL DEF DeliverySpec

(* Every variable keeps its type: a delivery is prepared or queued, and     *)
(* names modes that exist.                                                  *)
THEOREM DeliveryTypeCorrect == DeliverySpec => []DeliveryTypeOK
  <1>1. DeliveryInv => DeliveryTypeOK
    <2> SUFFICES ASSUME DeliveryInv PROVE DeliveryTypeOK
      OBVIOUS
    <2>1. \A i \in DOMAIN deliveries : deliveries[i] \in Deliveries
      BY DEF DeliveryInv, Rows
    <2> QED BY <2>1 DEF DeliveryInv, IInv, Rows, Notified, Deliveries, DeliveryTypeOK
  <1> QED BY <1>1, DeliveryInvariance, PTL

(* Of a set of places in a sequence there is a last one. *)
LEMMA LastOne ==
  ASSUME NEW n \in Nat, NEW B \in SUBSET (1 .. n), B # {}
  PROVE  \E i \in B : \A j \in B : j <= i
  <1> DEFINE FromEnd == {n - i : i \in B}
  <1>0. \A i \in B : i \in Nat /\ n - i \in Nat
    OBVIOUS
  <1>1. FromEnd \subseteq Nat /\ FromEnd # {}
    BY <1>0
  <1>2. PICK k \in FromEnd : \A l \in FromEnd : k <= l
    BY <1>1, Least
  <1>3. PICK i \in B : k = n - i
    BY <1>2
  <1>4. \A j \in B : n - i <= n - j
    BY <1>2, <1>3
  <1>5. \A j \in B : j <= i
    BY <1>0, <1>4
  <1> QED BY <1>5

(* The portal shows "queued" only of a subscription with a message about    *)
(* it, "planned" only of one without, "prepared" only while a call is at it *)
(* or after one failed, and recommends a mode that it offers.               *)
THEOREM Honest == DeliverySpec => []PortalIsHonest
  <1>1. DeliveryInv => PortalIsHonest
    <2> SUFFICES ASSUME DeliveryInv, NEW s \in Subscriptions
                 PROVE  LET shown == delivery_status(s) IN
                        /\ shown.status = "queued" => MessagesOf(s) # {}
                        /\ shown.status = "planned" => MessagesOf(s) = {}
                        /\ shown.status = "prepared" => \E c \in CallsOn(s) : stage[c] # "ok"
                        /\ shown.modes # {} => shown.primary_mode \in shown.modes
      BY DEF PortalIsHonest
    <2> USE DEF DeliveryInv
    <2>1. CASE DeliveriesOf(s) = {}
      BY <2>1 DEF delivery_status, MessagesOf, CallsOn
    <2>2. CASE DeliveriesOf(s) # {}
      <3>1. PICK i \in DeliveriesOf(s) : i = Latest(s)
        <4>1. Len(deliveries) \in Nat /\ DeliveriesOf(s) \in SUBSET (1 .. Len(deliveries))
          BY DEF Rows, DeliveriesOf
        <4> QED BY <2>2, <4>1, LastOne DEF Latest
      <3>2. i \in DOMAIN deliveries /\ deliveries[i] \in Deliveries
        BY <3>1 DEF DeliveriesOf, Rows
      <3>3. PICK c \in Calls : row[c] = i
        BY <3>2 DEF OneCallEach
      <3>4. c \in CallsOn(s) /\ row[c] # None
        BY <3>1, <3>2, <3>3 DEF CallsOn, Rows, None
      <3>5. /\ delivery_status(s).status = deliveries[i].status
            /\ delivery_status(s).primary_mode = deliveries[i].primary_mode
            /\ delivery_status(s).modes = deliveries[i].available
        BY <2>2, <3>1 DEF delivery_status
      <3>6. deliveries[i].status = "queued" <=> stage[c] = "ok"
        BY <3>3, <3>4 DEF OneCallEach
      <3>7. stage[c] = "ok" => notification[c] \in MessagesOf(s)
        BY <3>4 DEF Notified, MessagesOf
      <3>8. deliveries[i].available # {} => deliveries[i].primary_mode \in deliveries[i].available
        BY <3>2 DEF Rows
      <3> QED BY <3>2, <3>4, <3>5, <3>6, <3>7, <3>8 DEF Deliveries
    <2> QED BY <2>1, <2>2
  <1> QED BY <1>1, DeliveryInvariance, PTL

(* Calls about one subscription do send again, but each sends one message,  *)
(* and the queue repeats that only for the causes it has.                   *)
THEOREM OneMessageEach == DeliverySpec => []OneMessagePerCall
  <1>1. DeliveryInv => OneMessagePerCall
    <2> SUFFICES ASSUME DeliveryInv, NEW s \in Subscriptions
                 PROVE  /\ Cardinality(MessagesOf(s)) <= Cardinality(CallsOn(s))
                        /\ \A m \in MessagesOf(s) \ raced : accepted[m] <= 1 + unrecorded[m]
      BY DEF OneMessagePerCall
    <2>1. /\ IsFiniteSet(CallsOn(s)) /\ CallsOn(s) \subseteq Calls
      BY DeliveryAssumption, FS_Subset DEF CallsOn
    <2> DEFINE Sent == {notification[c] : c \in CallsOn(s)}
    <2>2. IsFiniteSet(Sent) /\ Cardinality(Sent) <= Cardinality(CallsOn(s))
      <3> DEFINE note == [c \in CallsOn(s) |-> notification[c]]
      <3>1. note \in Surjection(CallsOn(s), Sent)
        BY DEF Surjection
      <3> QED BY <2>1, <3>1, FS_Surjection
    <2>3. MessagesOf(s) \subseteq Sent /\ MessagesOf(s) \subseteq Messages
      BY <2>1 DEF MessagesOf, DeliveryInv, Notified
    <2>4. Cardinality(MessagesOf(s)) <= Cardinality(CallsOn(s))
      BY <2>1, <2>2, <2>3, FS_Subset, FS_CardinalityType
    <2>5. \A m \in Messages \ raced : accepted[m] <= 1 + unrecorded[m]
      BY DEF DeliveryInv, IInv, Accounting, TypeOK
    <2> QED BY <2>3, <2>4, <2>5
  <1> QED BY <1>1, DeliveryInvariance, PTL

(* What is counted up to a number for each of finitely many messages is finite. *)
LEMMA TimesFinite ==
  ASSUME NEW M, IsFiniteSet(M), NEW f, \A m \in M : f[m] \in Nat
  PROVE  IsFiniteSet(UNION {{m} \X (1 .. f[m]) : m \in M})
  <1> DEFINE times == [m \in M |-> {m} \X (1 .. f[m])]
             Columns == {{m} \X (1 .. f[m]) : m \in M}
  <1>1. times \in Surjection(M, Columns)
    <2>1. times \in [M -> Columns] /\ \A C \in Columns : \E m \in M : times[m] = C
      OBVIOUS
    <2> HIDE DEF times, Columns
    <2> QED BY <2>1 DEF Surjection
  <1>2. IsFiniteSet(Columns)
    <2> HIDE DEF times, Columns
    <2> QED BY <1>1, FS_Surjection
  <1>3. ASSUME NEW m \in M PROVE IsFiniteSet({m} \X (1 .. f[m]))
    <2>1. IsFiniteSet({m})
      BY FS_Singleton
    <2>2. f[m] \in Int /\ 1 \in Int
      BY <1>3
    <2>3. IsFiniteSet(1 .. f[m])
      BY <2>2, FS_Interval
    <2> QED BY <2>1, <2>3, FS_Product
  <1>4. \A C \in Columns : IsFiniteSet(C)
    BY <1>3
  <1> HIDE DEF Columns
  <1>5. IsFiniteSet(UNION Columns)
    BY <1>2, <1>4, FS_UNION
  <1> QED BY <1>5 DEF Columns

(* If each message is taken at most once more than nobody noted it, all are *)
(* taken at most once per message more than nobody noted it.                *)
LEMMA OnceMoreEach ==
  ASSUME NEW M, IsFiniteSet(M), NEW f, NEW g,
         \A m \in M : f[m] \in Nat /\ g[m] \in Nat /\ f[m] <= 1 + g[m]
  PROVE  Cardinality(UNION {{m} \X (1 .. f[m]) : m \in M})
            <= Cardinality(M) + Cardinality(UNION {{m} \X (1 .. g[m]) : m \in M})
  <1> DEFINE Taken == UNION {{m} \X (1 .. f[m]) : m \in M}
             Lost == UNION {{m} \X (1 .. g[m]) : m \in M}
             First == {x \in Taken : x[2] = 1}
             More == Taken \ First
  <1>1. /\ \A x \in Taken : x = <<x[1], x[2]>> /\ x[1] \in M /\ x[2] \in Nat
                            /\ 1 <= x[2] /\ x[2] <= f[x[1]]
        /\ \A m \in M, n \in Nat : 1 <= n /\ n <= g[m] => <<m, n>> \in Lost
    OBVIOUS
  <1>2. IsFiniteSet(Taken) /\ IsFiniteSet(Lost)
    BY TimesFinite
  <1> HIDE DEF Taken, Lost
  <1>3. IsFiniteSet(First) /\ Cardinality(First) <= Cardinality(M)
    <2> DEFINE who == [x \in First |-> x[1]]
    <2>1. who \in [First -> M] /\ \A x, y \in First : who[x] = who[y] => x = y
      BY <1>1
    <2> HIDE DEF who
    <2>2. who \in Injection(First, M)
      BY <2>1 DEF Injection, IsInjective
    <2> QED BY <2>2, FS_Injection
  <1>4. IsFiniteSet(More) /\ Cardinality(More) <= Cardinality(Lost)
    <2> DEFINE why == [x \in More |-> <<x[1], x[2] - 1>>]
    <2>1. ASSUME NEW x \in More PROVE <<x[1], x[2] - 1>> \in Lost
      <3>1. x[1] \in M /\ x[2] \in Nat /\ x[2] - 1 \in Nat /\ 1 <= x[2] - 1 /\ x[2] - 1 <= g[x[1]]
        BY <1>1, <2>1
      <3> QED BY <1>1, <3>1
    <2>2. \A x, y \in More : <<x[1], x[2] - 1>> = <<y[1], y[2] - 1>> => x = y
      <3>1. \A x, y \in More : x[1] = y[1] /\ x[2] - 1 = y[2] - 1 => x = y
        BY <1>1
      <3> QED BY <3>1
    <2>3. why \in [More -> Lost] /\ \A x, y \in More : why[x] = why[y] => x = y
      BY <2>1, <2>2
    <2> HIDE DEF why
    <2>4. why \in Injection(More, Lost)
      BY <2>3 DEF Injection, IsInjective
    <2> QED BY <1>2, <2>4, FS_Injection
  <1>5. Taken = First \cup More
    OBVIOUS
  <1> HIDE DEF First, More
  <1>6. Cardinality(Taken) <= Cardinality(First) + Cardinality(More)
    <2>1. Cardinality(First \cap More) \in Nat
      BY <1>3, FS_Subset, FS_CardinalityType
    <2>2. Cardinality(Taken) = Cardinality(First) + Cardinality(More) - Cardinality(First \cap More)
      BY <1>3, <1>4, <1>5, FS_Union
    <2>3. Cardinality(First) \in Nat /\ Cardinality(More) \in Nat
      BY <1>3, <1>4, FS_CardinalityType
    <2> QED BY <2>1, <2>2, <2>3
  <1>7. Cardinality(Taken) <= Cardinality(M) + Cardinality(Lost)
    BY <1>2, <1>3, <1>4, <1>6, FS_CardinalityType
  <1> QED BY <1>7 DEF Taken, Lost

(* What a customer gets too often of a subscription is bounded by the calls *)
(* made about it and by what the queue lost, unless it raced.               *)
THEOREM RepeatsExplained == DeliverySpec => []RepeatsHaveCause
  <1>1. DeliveryInv /\ OneMessagePerCall => RepeatsHaveCause
    <2> SUFFICES ASSUME DeliveryInv, OneMessagePerCall, NEW s \in Subscriptions,
                        MessagesOf(s) \cap raced = {}
                 PROVE  Cardinality(Told(s)) <= Cardinality(CallsOn(s)) + Cardinality(Unrecorded(s))
      BY DEF RepeatsHaveCause
    <2>1. IsFiniteSet(CallsOn(s)) /\ CallsOn(s) \subseteq Calls
      BY DeliveryAssumption, FS_Subset DEF CallsOn
    <2>2. IsFiniteSet(MessagesOf(s)) /\ MessagesOf(s) \subseteq Messages
      <3> DEFINE Sent == {notification[c] : c \in CallsOn(s)}
                 note == [c \in CallsOn(s) |-> notification[c]]
      <3>1. note \in Surjection(CallsOn(s), Sent)
        BY DEF Surjection
      <3>2. IsFiniteSet(Sent)
        BY <2>1, <3>1, FS_Surjection
      <3>3. MessagesOf(s) \subseteq Sent /\ MessagesOf(s) \subseteq Messages
        BY <2>1 DEF MessagesOf, DeliveryInv, Notified
      <3> QED BY <3>2, <3>3, FS_Subset
    <2>3. \A m \in MessagesOf(s) : /\ accepted[m] \in Nat /\ unrecorded[m] \in Nat
                                   /\ accepted[m] <= 1 + unrecorded[m]
      BY <2>2 DEF DeliveryInv, IInv, TypeOK, OneMessagePerCall
    <2>4. Cardinality(Told(s)) <= Cardinality(MessagesOf(s)) + Cardinality(Unrecorded(s))
      BY <2>2, <2>3, OnceMoreEach DEF Told, Unrecorded
    <2>5. Cardinality(MessagesOf(s)) <= Cardinality(CallsOn(s))
      BY DEF OneMessagePerCall
    <2>6. IsFiniteSet(Told(s)) /\ IsFiniteSet(Unrecorded(s))
      BY <2>2, <2>3, TimesFinite DEF Told, Unrecorded
    <2> QED BY <2>1, <2>2, <2>4, <2>5, <2>6, FS_CardinalityType
  <1> QED BY <1>1, DeliveryInvariance, OneMessageEach, PTL
=============================================================================
