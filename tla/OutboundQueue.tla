---------------------------- MODULE OutboundQueue ----------------------------
(* The outbound message queue: notification_service (the status helpers),   *)
(* notification_sender.process_queued (one pass over the queued telegram    *)
(* messages), outbound_worker.run_once (the CLI's single pass) and          *)
(* telegram_transport._request (one send, with its retries).                *)
(*                                                                          *)
(* A pass SELECTs its batch once and works through it in id order, each     *)
(* status change a transaction of its own.  Nothing claims a row: two       *)
(* passes, or a pass and an operator, may hold the same message.  RACED     *)
(* records the messages to which that happened, so that the properties can  *)
(* say what a race, and only a race, breaks.  next_attempt_at is written    *)
(* but read by nobody, so it is left out.                                   *)
EXTENDS Naturals, FiniteSets

CONSTANTS
    Messages,      \* outbound_messages.id of the telegram rows
    Workers,       \* processes that run passes
    MaxAttempts,   \* outbound_messages.max_attempts
    Limit,         \* the LIMIT of the batch SELECT
    Retries,       \* TelegramTransport.retries
    Transports,    \* what the passes send through
    MaxFaults      \* bound of the model: answers lost and passes killed

\* An injected opener returns the HTTP status, urllib raises on 4xx and 5xx;
\* a dry-run transport only records the request in its outbox.
AllTransports == {"dry_run", "opener", "urllib"}

ASSUME QueueAssumption ==
    /\ Messages \subseteq Nat
    /\ MaxAttempts \in Nat \ {0} /\ Limit \in Nat \ {0} /\ Retries \in Nat
    /\ Transports \subseteq AllTransports /\ MaxFaults \in Nat

VARIABLES
    status,      \* outbound_messages.status
    attempts,    \* outbound_messages.attempts
    reachable,   \* messages whose customer has a telegram account
    outbox,      \* messages a dry-run transport recorded instead of sending
    accepted,    \* how often Telegram took each message: what the customer sees
    unrecorded,  \* how often it did and the row does not say so
    raced,       \* messages held by two parties at once
    faults       \* the faults so far

table == <<status, attempts, reachable>>
outcome == <<outbox, accepted, unrecorded, raced, faults>>

VARIABLES
    pc,          \* where each worker is
    transport,   \* what its pass sends through
    batch,       \* the rows of its batch still to do
    tries,       \* the requests left of the send in hand
    seen         \* the attempts it read

worker == <<pc, transport, batch, tries, seen>>
vars == <<table, outcome, worker>>

Statuses == {"absent", "queued", "sent", "suppressed", "dead"}
Terminal == {"sent", "suppressed", "dead"}
Labels == {"idle", "look_up", "request", "mark_sent", "mark_dead", "read_attempts", "mark_failed"}

\* ACCEPTED stops counting there: one more than the faults can explain.
MaxAccepted == MaxFaults + 2

TypeOK ==
    /\ status \in [Messages -> Statuses]
    /\ attempts \in [Messages -> Nat]
    /\ reachable \in SUBSET Messages
    /\ outbox \in SUBSET Messages
    /\ accepted \in [Messages -> 0 .. MaxAccepted]
    /\ unrecorded \in [Messages -> Nat]
    /\ raced \in SUBSET Messages
    /\ faults \in 0 .. MaxFaults
    /\ pc \in [Workers -> Labels]
    /\ transport \in [Workers -> AllTransports]
    /\ batch \in [Workers -> SUBSET Messages]
    /\ tries \in [Workers -> 0 .. Retries]
    /\ seen \in [Workers -> Nat]

Init ==
    /\ status = [m \in Messages |-> "absent"]
    /\ attempts = [m \in Messages |-> 0]
    /\ reachable \in SUBSET Messages
    /\ outbox = {}
    /\ accepted = [m \in Messages |-> 0]
    /\ unrecorded = [m \in Messages |-> 0]
    /\ raced = {}
    /\ faults = 0
    /\ pc = [w \in Workers |-> "idle"]
    /\ transport \in [Workers -> Transports]
    /\ batch = [w \in Workers |-> {}]
    /\ tries = [w \in Workers |-> 0]
    /\ seen = [w \in Workers |-> 0]

-----------------------------------------------------------------------------
Queued == {m \in Messages : status[m] = "queued"}

\* ORDER BY id LIMIT ?.
FirstQueued == {m \in Queued : Cardinality({k \in Queued : k < m}) < Limit}

\* The row a worker is at.
InHand(w) == CHOOSE m \in batch[w] : \A k \in batch[w] : m <= k

Holders(m) == {w \in Workers : m \in batch[w]}

At(w, label) == pc[w] = label
Goto(w, label) == pc' = [pc EXCEPT ![w] = label]

\* What a worker knows of the row in hand goes with it.
Forget(w) ==
    /\ tries' = [tries EXCEPT ![w] = 0]
    /\ seen' = [seen EXCEPT ![w] = 0]

\* The row in hand is done.
Advance(w) ==
    LET rest == batch[w] \ {InHand(w)} IN
    /\ batch' = [batch EXCEPT ![w] = rest]
    /\ Goto(w, IF rest = {} THEN "idle" ELSE "look_up")
    /\ Forget(w)

SetStatus(m, to) == status' = [status EXCEPT ![m] = to]

-----------------------------------------------------------------------------
(* notification_service, called from elsewhere. *)

Enqueue(m) ==
    /\ status[m] = "absent"
    /\ SetStatus(m, "queued")
    /\ UNCHANGED <<attempts, reachable, outcome, worker>>

\* mark_suppressed, and mark_dead on the operator path.
Withdraw(m, to) ==
    /\ status[m] = "queued"
    /\ SetStatus(m, to)
    /\ raced' = IF Holders(m) = {} THEN raced ELSE raced \cup {m}
    /\ UNCHANGED <<attempts, reachable, outbox, accepted, unrecorded, faults, worker>>

\* The customer links a telegram account; nothing in the source deactivates one.
Link(m) ==
    /\ m \notin reachable
    /\ reachable' = reachable \cup {m}
    /\ UNCHANGED <<status, attempts, outcome, worker>>

-----------------------------------------------------------------------------
(* A pass. *)

\* Mutant: the batch is everything ever enqueued, whatever its status.
SelectAnyStatus(w) ==
    LET rows == {m \in Messages : status[m] # "absent"} IN
    /\ At(w, "idle")
    /\ rows # {}
    /\ batch' = [batch EXCEPT ![w] = rows]
    /\ raced' = raced \cup {m \in rows : Holders(m) # {}}
    /\ Goto(w, "look_up")
    /\ UNCHANGED <<table, outbox, accepted, unrecorded, faults, transport, tries, seen>>

SelectBatch(w) ==
    /\ At(w, "idle")
    /\ Queued # {}
    /\ batch' = [batch EXCEPT ![w] = FirstQueued]
    /\ raced' = raced \cup {m \in FirstQueued : Holders(m) # {}}
    /\ Goto(w, "look_up")
    /\ UNCHANGED <<table, outbox, accepted, unrecorded, faults, transport, tries, seen>>

\* Find the chat, render, and, in a rehearsal, ask the simulator for the outcome: "ok"
\* goes to the transport, "retry" and "permanent" do not.
LookUp(w) ==
    /\ At(w, "look_up")
    /\ IF InHand(w) \notin reachable
       THEN Goto(w, "read_attempts")
       ELSE \/ Goto(w, "request")
            \/ transport[w] = "dry_run" /\ \E next \in {"read_attempts", "mark_dead"} : Goto(w, next)
    /\ tries' = [tries EXCEPT ![w] = Retries]
    /\ UNCHANGED <<table, outcome, transport, batch, seen>>

\* The dry-run transport: record the request, report success.
Record(w) ==
    /\ At(w, "request")
    /\ transport[w] = "dry_run"
    /\ outbox' = outbox \cup {InHand(w)}
    /\ Goto(w, "mark_sent")
    /\ UNCHANGED <<table, accepted, unrecorded, raced, faults, transport, batch, tries, seen>>

\* An attempt ends in an exception: another one if any is left, else the send has failed.
Retry(w) ==
    IF tries[w] > 0
    THEN tries' = [tries EXCEPT ![w] = @ - 1] /\ UNCHANGED pc
    ELSE Goto(w, "read_attempts") /\ UNCHANGED tries

Accept(m) ==
    accepted' = [accepted EXCEPT ![m] = IF @ = MaxAccepted THEN @ ELSE @ + 1]

\* 2xx with a readable body.
Delivered(w) ==
    /\ At(w, "request")
    /\ transport[w] # "dry_run"
    /\ Accept(InHand(w))
    /\ Goto(w, "mark_sent")
    /\ UNCHANGED <<table, outbox, unrecorded, raced, faults, transport, batch, tries, seen>>

\* The request never arrives.
NotDelivered(w) ==
    /\ At(w, "request")
    /\ transport[w] # "dry_run"
    /\ Retry(w)
    /\ UNCHANGED <<table, outcome, transport, batch, seen>>

\* The request arrives and the answer does not (timeout), or is no JSON (ValueError).
AnswerLost(w) ==
    /\ At(w, "request")
    /\ transport[w] # "dry_run"
    /\ faults < MaxFaults
    /\ faults' = faults + 1
    /\ Accept(InHand(w))
    /\ unrecorded' = [unrecorded EXCEPT ![InHand(w)] = @ + 1]
    /\ Retry(w)
    /\ UNCHANGED <<table, outbox, raced, transport, batch, seen>>

\* Mutant: any answer at all counts as success.
RefusedIsSent(w) ==
    /\ At(w, "request")
    /\ transport[w] # "dry_run"
    /\ Goto(w, "mark_sent")
    /\ UNCHANGED <<table, outcome, transport, batch, tries, seen>>

\* 4xx or 5xx: a status from the opener, an HTTPError (an URLError) from urllib.
Refused(w) ==
    /\ At(w, "request")
    /\ transport[w] # "dry_run"
    /\ IF transport[w] = "urllib"
       THEN Retry(w)
       ELSE Goto(w, "read_attempts") /\ UNCHANGED tries
    /\ UNCHANGED <<table, outcome, transport, batch, seen>>

\* mark_sent and mark_dead: UPDATE ... WHERE id=?, whatever the status is by now.
MarkSent(w) ==
    /\ At(w, "mark_sent")
    /\ SetStatus(InHand(w), "sent")
    /\ Advance(w)
    /\ UNCHANGED <<attempts, reachable, outcome, transport>>

MarkDead(w) ==
    /\ At(w, "mark_dead")
    /\ SetStatus(InHand(w), "dead")
    /\ Advance(w)
    /\ UNCHANGED <<attempts, reachable, outcome, transport>>

\* mark_failed_or_retry, the SELECT (no transaction is open yet).
ReadAttempts(w) ==
    /\ At(w, "read_attempts")
    /\ seen' = [seen EXCEPT ![w] = attempts[InHand(w)]]
    /\ Goto(w, "mark_failed")
    /\ UNCHANGED <<table, outcome, transport, batch, tries>>

\* Mutant: one attempt too many.
MarkFailedLate(w) ==
    LET count == seen[w] + 1 IN
    /\ At(w, "mark_failed")
    /\ attempts' = [attempts EXCEPT ![InHand(w)] = count]
    /\ SetStatus(InHand(w), IF count > MaxAttempts THEN "dead" ELSE "queued")
    /\ Advance(w)
    /\ UNCHANGED <<reachable, outcome, transport>>

\* Mutant: a failure is not counted.
MarkFailedForgets(w) ==
    /\ At(w, "mark_failed")
    /\ SetStatus(InHand(w), IF seen[w] + 1 >= MaxAttempts THEN "dead" ELSE "queued")
    /\ Advance(w)
    /\ UNCHANGED <<attempts, reachable, outcome, transport>>

\* mark_failed_or_retry, the UPDATE.
MarkFailed(w) ==
    LET count == seen[w] + 1 IN
    /\ At(w, "mark_failed")
    /\ attempts' = [attempts EXCEPT ![InHand(w)] = count]
    /\ SetStatus(InHand(w), IF count >= MaxAttempts THEN "dead" ELSE "queued")
    /\ Advance(w)
    /\ UNCHANGED <<reachable, outcome, transport>>

\* The pass ends in the middle: the process is killed, or a statement raises.
Abort(w) ==
    /\ ~At(w, "idle")
    /\ faults < MaxFaults
    /\ faults' = faults + 1
    /\ unrecorded' = IF At(w, "mark_sent") /\ transport[w] # "dry_run"
                     THEN [unrecorded EXCEPT ![InHand(w)] = @ + 1] ELSE unrecorded
    /\ batch' = [batch EXCEPT ![w] = {}]
    /\ Goto(w, "idle")
    /\ Forget(w)
    /\ UNCHANGED <<table, outbox, accepted, raced, transport>>

Step(w) ==
    \/ SelectBatch(w) \/ LookUp(w) \/ Record(w)
    \/ Delivered(w) \/ NotDelivered(w) \/ AnswerLost(w) \/ Refused(w)
    \/ MarkSent(w) \/ MarkDead(w) \/ ReadAttempts(w) \/ MarkFailed(w)

Next ==
    \/ \E w \in Workers : Step(w) \/ Abort(w)
    \/ \E m \in Messages : Enqueue(m) \/ Link(m)
    \/ \E m \in Messages, to \in {"suppressed", "dead"} : Withdraw(m, to)

Spec == Init /\ [][Next]_vars

\* Passes are started again and again (the CLI from a timer), and a pass goes on.
FairSpec == Spec /\ \A w \in Workers : WF_vars(Step(w))

-----------------------------------------------------------------------------
(* Properties. *)

\* A customer gets a message twice only when an answer or its record was lost, or when
\* two parties held the row at once.
DuplicateHasCause == \A m \in Messages \ raced : accepted[m] <= 1 + unrecorded[m]

\* What the row says is so: a message that is sent was taken by Telegram or recorded by a
\* rehearsal, whoever else was at work on it; one that is dead did not reach the customer,
\* unless an answer or its record was lost or two parties held the row.
VerdictsAreTrue ==
    /\ \A m \in Messages : status[m] = "sent" => accepted[m] >= 1 \/ m \in outbox
    /\ \A m \in Messages \ raced : status[m] = "dead" => accepted[m] <= unrecorded[m]

\* No customer gets more, or other, than the table accounts for: both of these.
SendsAreExplained == DuplicateHasCause /\ VerdictsAreTrue

\* A message that is still queued has attempts left, and no more attempts are recorded
\* than the budget allows.
RetryBudget ==
    \A m \in Messages \ raced :
        /\ attempts[m] <= MaxAttempts
        /\ status[m] = "queued" => attempts[m] < MaxAttempts

\* Unless two parties held it at once, a terminal message stays as it is.
TerminalStaysUnraced ==
    [][\A m \in Messages \ raced' :
        status[m] \in Terminal => status'[m] = status[m] /\ attempts'[m] = attempts[m]]_vars

\* Every queued message is settled: unreachable ones die and do not hold up the rest.
EveryMessageSettles ==
    \A m \in Messages : status[m] = "queued" ~> status[m] \in Terminal

-----------------------------------------------------------------------------
(* What the repository says and the code does not do. *)

\* notification_service: sent and dead are terminal.
TerminalStays ==
    [][\A m \in Messages : status[m] \in Terminal => status'[m] # "queued"]_vars
=============================================================================
