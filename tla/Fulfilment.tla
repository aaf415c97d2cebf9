----------------------------- MODULE Fulfilment -----------------------------
(* From a payment order to a queued delivery message:                       *)
(*   payment_approval_service.approve_order_dry_run                         *)
(*     -> subscription_service.create_from_order                            *)
(*     -> access_profile_service.create_or_reuse                            *)
(*   provisioning_service.plan_and_dry_run_provision, and the two in a row  *)
(*     as dry_run_provision_flow                                            *)
(*   payment_flow.approve_payment_dry_run / provision_subscription_dry_run, *)
(*     which use the same ledger                                            *)
(*   compensation.mark_provision_failed / flag_delivery_retry.              *)
(*                                                                          *)
(* Each is a plain function over one SQLite connection; two processes (two  *)
(* runs of bin/approve_payment_dry_run.py, a re-delivered webhook) share    *)
(* the database file.  A CALL is one invocation.  One step of a call is one *)
(* SELECT, or one committed transaction: db.transaction issues no BEGIN,    *)
(* and Python's sqlite3 opens a transaction at the first INSERT or UPDATE,  *)
(* so a SELECT that precedes it is a step of its own and may be stale when  *)
(* the write commits.  Any step may instead fail (locked database, foreign  *)
(* key, death of the process): the open transaction rolls back, the commits *)
(* before it stay.                                                          *)
EXTENDS Naturals, Idempotency

CONSTANTS
    Orders,       \* payment_orders.id
    SubIds,       \* subscriptions.id
    Customers,    \* customers.id
    CustomerOf,   \* [Orders -> Customers]: payment_orders.customer_id
    Calls,        \* invocations of the operations
    Ops,          \* the operations the calls may invoke
    Prices,       \* plans.price_mmk
    None          \* no value

AllOps == {"approve", "provision", "flow", "intent_approve", "intent_provision"}

ASSUME DataAssumption ==
    /\ CustomerOf \in [Orders -> Customers]
    /\ Ops \subseteq AllOps
    /\ Orders \cap SubIds = {}
    /\ None \notin Orders \cup SubIds \cup Prices /\ None \notin AllOps

(* The keys of the ledger.  payment_flow keys both its scopes by order,     *)
(* "order:<id>", provisioning_service by subscription, "sub:<id>".          *)
ApprovalKey(o) == <<"payment_approval", o>>
ProvisionKey(x) == <<"provision_subscription", x>>

Keys == {ApprovalKey(o) : o \in Orders} \cup {ProvisionKey(x) : x \in SubIds \cup Orders}

(* result_ref is "sub:<id>" or "provisioned_dry_run:sub:<id>" from the      *)
(* services (here the subscription) and "order:<id>:..." from payment_flow  *)
(* (here the order).                                                        *)
Refs == SubIds \cup Orders \cup {None}

VARIABLES
    orders,     \* payment_orders.status, "missing" for no row
    price,      \* plans.price_mmk now
    subs,       \* the subscriptions table
    profiles,   \* how many live access_profiles rows each customer has
    keys,       \* the ledger
    intents,    \* how many dry_run_planned provisioning_attempts each subscription has
    messages,   \* how many outbound_messages rows carry payload_ref delivery:sub:<id>
    flagged     \* subscriptions with a delivery_enqueue_failed_retry_flagged audit row

store == <<orders, price, subs, profiles, keys, intents, messages, flagged>>

VARIABLES
    pc,         \* the next step of each call
    op,         \* what the call invoked
    ord,        \* its order
    sub,        \* its subscription
    snap,       \* the plan price it read
    approval,   \* how its approval ended (of payment_flow: its only part)
    provision   \* how its provisioning ended

local == <<pc, op, ord, sub, snap, approval, provision>>
vars == <<store, local>>

OrderStatuses == {"missing", "pending", "review", "rejected", "approved"}
ProvisionStatuses == {"unprovisioned", "dry_run_planned", "provision_failed"}
Subscription == [order : Orders, price : Prices, provision : ProvisionStatuses]
Provisioned(row, status) ==
    [order |-> row.order, price |-> row.price, provision |-> status]
NoSub == [order |-> None, price |-> None, provision |-> "unprovisioned"]

Labels == {"idle", "begin_approval", "check_order", "approve_order", "read_plan",
           "insert_sub", "read_profile", "insert_profile", "read_sub",
           "begin_provision", "record_plan", "enqueue", "begin_intent",
           "complete_read", "complete_write", "done"}
Outcomes == {"none", "fresh", "replay", "refused", "raised"}

TypeOK ==
    /\ orders \in [Orders -> OrderStatuses]
    /\ price \in Prices
    /\ subs \in [SubIds -> Subscription \cup {NoSub}]
    /\ profiles \in [Customers -> Nat]
    /\ keys \in [Keys -> KeyRow(Refs)]
    /\ intents \in [SubIds -> Nat]
    /\ messages \in [SubIds -> Nat]
    /\ flagged \in SUBSET SubIds
    /\ pc \in [Calls -> Labels]
    /\ op \in [Calls -> AllOps \cup {None}]
    /\ ord \in [Calls -> Orders \cup {None}]
    /\ sub \in [Calls -> SubIds \cup {None}]
    /\ snap \in [Calls -> Prices \cup {None}]
    /\ approval \in [Calls -> Outcomes]
    /\ provision \in [Calls -> Outcomes]

Init ==
    /\ orders = [o \in Orders |-> "missing"]
    /\ price \in Prices
    /\ subs = [s \in SubIds |-> NoSub]
    /\ profiles = [c \in Customers |-> 0]
    /\ keys = [k \in Keys |-> Absent(None)]
    /\ intents = [s \in SubIds |-> 0]
    /\ messages = [s \in SubIds |-> 0]
    /\ flagged = {}
    /\ pc = [c \in Calls |-> "idle"]
    /\ op = [c \in Calls |-> None]
    /\ ord = [c \in Calls |-> None]
    /\ sub = [c \in Calls |-> None]
    /\ snap = [c \in Calls |-> None]
    /\ approval = [c \in Calls |-> "none"]
    /\ provision = [c \in Calls |-> "none"]

-----------------------------------------------------------------------------
(* Control of a call. *)

Exists(s) == subs[s] # NoSub

At(c, label) == pc[c] = label
Goto(c, label) == pc' = [pc EXCEPT ![c] = label]

\* The call is in the provisioning service: invoked there, or a flow past its approval.
Provisioning(c) == op[c] = "provision" \/ (op[c] = "flow" /\ approval[c] # "none")

KeyOf(c) ==
    IF Provisioning(c) THEN ProvisionKey(sub[c])
    ELSE IF op[c] = "intent_provision" THEN ProvisionKey(ord[c]) ELSE ApprovalKey(ord[c])

\* The part in progress ends as `how`; a flow goes on after a good approval.
Reply(c, how) ==
    /\ IF Provisioning(c)
       THEN provision' = [provision EXCEPT ![c] = how] /\ UNCHANGED approval
       ELSE approval' = [approval EXCEPT ![c] = how] /\ UNCHANGED provision
    /\ Goto(c, IF op[c] = "flow" /\ ~Provisioning(c) /\ how \in {"fresh", "replay"}
               THEN "read_sub" ELSE "done")

\* Steps that change only the call's own state.
Replies(c, how) == Reply(c, how) /\ UNCHANGED <<store, op, ord, sub, snap>>
Moves(c, label) ==
    Goto(c, label) /\ UNCHANGED <<op, ord, sub, snap, approval, provision>>

-----------------------------------------------------------------------------
(* Invocations. *)

Entry(what) == IF what \in {"approve", "flow"} THEN "begin_approval" ELSE "begin_intent"

InvokeOnOrder(c, o, what) ==
    /\ At(c, "idle")
    /\ what \in Ops \ {"provision"}
    /\ Goto(c, Entry(what))
    /\ op' = [op EXCEPT ![c] = what]
    /\ ord' = [ord EXCEPT ![c] = o]
    /\ UNCHANGED <<store, sub, snap, approval, provision>>

InvokeProvision(c, s) ==
    /\ At(c, "idle")
    /\ "provision" \in Ops
    /\ Goto(c, "read_sub")
    /\ op' = [op EXCEPT ![c] = "provision"]
    /\ sub' = [sub EXCEPT ![c] = s]
    /\ UNCHANGED <<store, ord, snap, approval, provision>>

-----------------------------------------------------------------------------
(* The ledger steps every service takes. *)

\* begin_idempotent returned STATE_STARTED.
Claims(c, from, next) ==
    /\ At(c, from)
    /\ BeginState(keys[KeyOf(c)]) = "started"
    /\ keys' = [keys EXCEPT ![KeyOf(c)] = Begun(@)]
    /\ Moves(c, next)
    /\ UNCHANGED <<orders, price, subs, profiles, intents, messages, flagged>>

\* begin_idempotent found an open claim: both services raise rather than risk a duplicate.
Refuse(c) ==
    /\ pc[c] \in {"begin_approval", "begin_provision"}
    /\ BeginState(keys[KeyOf(c)]) = "in_progress"
    /\ Replies(c, "refused")

\* Mutant: the operation returns without storing its result.
CompleteReadForgets(c) == At(c, "complete_read") /\ Replies(c, "fresh")

\* complete_idempotent, the SELECT.
CompleteRead(c) ==
    /\ At(c, "complete_read")
    /\ IF MustWrite(keys[KeyOf(c)])
       THEN Moves(c, "complete_write") /\ UNCHANGED store
       ELSE Replies(c, "fresh")

ResultRef(c) == IF op[c] \in {"intent_approve", "intent_provision"} THEN ord[c] ELSE sub[c]

\* complete_idempotent, the UPDATE; then the operation returns with duplicate=False.
CompleteWrite(c) ==
    /\ At(c, "complete_write")
    /\ keys' = [keys EXCEPT ![KeyOf(c)] = Completed(ResultRef(c))]
    /\ Reply(c, "fresh")
    /\ UNCHANGED <<orders, price, subs, profiles, intents, messages, flagged,
                   op, ord, sub, snap>>

-----------------------------------------------------------------------------
(* approve_order_dry_run. *)

StartApproval(c) == Claims(c, "begin_approval", "check_order")

\* A completed claim is replayed: _parse_sub accepts only a "sub:<id>" result.
ReplayApproval(c) ==
    LET ref == keys[KeyOf(c)].ref IN
    /\ At(c, "begin_approval")
    /\ BeginState(keys[KeyOf(c)]) = "already_completed"
    /\ IF ref \in SubIds
       THEN Reply(c, "replay") /\ sub' = [sub EXCEPT ![c] = ref]
       ELSE Reply(c, "raised") /\ UNCHANGED sub
    /\ UNCHANGED <<store, op, ord, snap>>

Approvable(status) == status \in {"pending", "review"}

\* The SELECT of the order; a missing or unapprovable one raises and leaves the key claimed.
CheckOrder(c) ==
    /\ At(c, "check_order")
    /\ IF Approvable(orders[ord[c]])
       THEN Moves(c, "approve_order") /\ UNCHANGED store
       ELSE Replies(c, "raised")

\* Mutant: the claim is completed before the subscription is made.
ApproveOrderEarly(c) ==
    /\ At(c, "approve_order")
    /\ orders' = [orders EXCEPT ![ord[c]] = "approved"]
    /\ Moves(c, "complete_read")
    /\ UNCHANGED <<price, subs, profiles, keys, intents, messages, flagged>>

ApproveOrder(c) ==
    /\ At(c, "approve_order")
    /\ orders' = [orders EXCEPT ![ord[c]] = "approved"]
    /\ Moves(c, "read_plan")
    /\ UNCHANGED <<price, subs, profiles, keys, intents, messages, flagged>>

\* create_from_order, the SELECTs: the order again, and the plan as it is now.
ReadPlan(c) ==
    /\ At(c, "read_plan")
    /\ IF orders[ord[c]] = "approved"
       THEN /\ snap' = [snap EXCEPT ![c] = price]
            /\ Goto(c, "insert_sub")
            /\ UNCHANGED <<store, op, ord, sub, approval, provision>>
       ELSE Replies(c, "raised")

\* create_from_order, the INSERT, under the next free id.
InsertSub(c) ==
    /\ At(c, "insert_sub")
    /\ \E s \in SubIds :
        /\ ~Exists(s)
        /\ subs' = [subs EXCEPT ![s] = [order |-> ord[c], price |-> snap[c],
                                        provision |-> "unprovisioned"]]
        /\ sub' = [sub EXCEPT ![c] = s]
    /\ Goto(c, "read_profile")
    /\ UNCHANGED <<orders, price, profiles, keys, intents, messages, flagged,
                   op, ord, snap, approval, provision>>

\* create_or_reuse, the SELECT.  Nothing in the source revokes a profile.
ReadProfile(c) ==
    /\ At(c, "read_profile")
    /\ Moves(c, IF profiles[CustomerOf[ord[c]]] > 0 THEN "complete_read" ELSE "insert_profile")
    /\ UNCHANGED store

\* create_or_reuse, the INSERT.
InsertProfile(c) ==
    /\ At(c, "insert_profile")
    /\ profiles' = [profiles EXCEPT ![CustomerOf[ord[c]]] = @ + 1]
    /\ Moves(c, "complete_read")
    /\ UNCHANGED <<orders, price, subs, keys, intents, messages, flagged>>

-----------------------------------------------------------------------------
(* plan_and_dry_run_provision. *)

\* The SELECT of the subscription and build_plan's reads, before the claim.
ReadSub(c) ==
    /\ At(c, "read_sub")
    /\ IF Exists(sub[c])
       THEN Moves(c, "begin_provision") /\ UNCHANGED store
       ELSE Replies(c, "raised")

StartProvision(c) == Claims(c, "begin_provision", "record_plan")

ReplayProvision(c) ==
    /\ At(c, "begin_provision")
    /\ BeginState(keys[KeyOf(c)]) = "already_completed"
    /\ Replies(c, "replay")

\* Mutant: the claim is completed without a delivery message.
RecordPlanSilently(c) ==
    /\ At(c, "record_plan")
    /\ subs' = [subs EXCEPT ![sub[c]] = Provisioned(@, "dry_run_planned")]
    /\ intents' = [intents EXCEPT ![sub[c]] = @ + 1]
    /\ Moves(c, "complete_read")
    /\ UNCHANGED <<orders, price, profiles, keys, messages, flagged>>

\* One transaction: the provisioning axis moves and the attempt is recorded.
RecordPlan(c) ==
    /\ At(c, "record_plan")
    /\ subs' = [subs EXCEPT ![sub[c]] = Provisioned(@, "dry_run_planned")]
    /\ intents' = [intents EXCEPT ![sub[c]] = @ + 1]
    /\ Moves(c, "enqueue")
    /\ UNCHANGED <<orders, price, profiles, keys, messages, flagged>>

\* enqueue_notification, a transaction of its own.
Enqueue(c) ==
    /\ At(c, "enqueue")
    /\ messages' = [messages EXCEPT ![sub[c]] = @ + 1]
    /\ Moves(c, "complete_read")
    /\ UNCHANGED <<orders, price, subs, profiles, keys, intents, flagged>>

-----------------------------------------------------------------------------
(* payment_flow: claim and complete, nothing between.  An open claim of     *)
(* another caller does not stop it.                                         *)
BeginIntent(c) ==
    /\ At(c, "begin_intent")
    /\ IF BeginState(keys[KeyOf(c)]) = "already_completed"
       THEN Replies(c, "replay")
       ELSE /\ keys' = [keys EXCEPT ![KeyOf(c)] = Begun(@)]
            /\ Moves(c, "complete_read")
            /\ UNCHANGED <<orders, price, subs, profiles, intents, messages, flagged>>

-----------------------------------------------------------------------------
(* compensation: an operator may call these at any time. *)

MarkProvisionFailed(s) ==
    /\ Exists(s)
    /\ subs' = [subs EXCEPT ![s] = Provisioned(@, "provision_failed")]
    /\ UNCHANGED <<orders, price, profiles, keys, intents, messages, flagged, local>>

FlagDeliveryRetry(s) ==
    /\ Exists(s)
    /\ flagged' = flagged \cup {s}
    /\ UNCHANGED <<orders, price, subs, profiles, keys, intents, messages, local>>

-----------------------------------------------------------------------------
(* What is shown of it: the dashboard of the portal and the account status  *)
(* of the bot list the rows as they are, each in one SELECT.                *)

SubscriptionsOf(u) == {s \in SubIds : Exists(s) /\ CustomerOf[subs[s].order] = u}

\* `status` stays "pending" here: nothing in the source activates a subscription.
_subscription_summary(s) ==
    [id |-> s, price |-> subs[s].price,
     status |-> IF subs[s].provision = "unprovisioned" THEN "pending" ELSE subs[s].provision]

customer_dashboard(u) == {_subscription_summary(s) : s \in SubscriptionsOf(u)}

\* The lines without the code of the plan; two that read the same are one here.
build_account_status(u) ==
    {[status |-> "pending", provision |-> subs[s].provision] : s \in SubscriptionsOf(u)}

-----------------------------------------------------------------------------
(* The surroundings. *)

\* The shop (external): an order appears, in a status short of approved.
PlaceOrder(o) ==
    /\ orders[o] = "missing"
    /\ \E status \in {"pending", "review", "rejected"} :
           orders' = [orders EXCEPT ![o] = status]
    /\ UNCHANGED <<price, subs, profiles, keys, intents, messages, flagged, local>>

\* An admin edits the catalogue (external): the plans are editable at run time.
EditPlan ==
    /\ price' \in Prices
    /\ UNCHANGED <<orders, subs, profiles, keys, intents, messages, flagged, local>>

\* The step under way fails: its transaction rolls back and the call is over.
Fail(c) ==
    /\ pc[c] \notin {"idle", "done"}
    /\ Replies(c, "raised")

Step(c) ==
    \/ StartApproval(c) \/ ReplayApproval(c) \/ CheckOrder(c) \/ ApproveOrder(c)
    \/ ReadPlan(c) \/ InsertSub(c) \/ ReadProfile(c) \/ InsertProfile(c)
    \/ ReadSub(c) \/ StartProvision(c) \/ ReplayProvision(c) \/ RecordPlan(c) \/ Enqueue(c)
    \/ BeginIntent(c) \/ Refuse(c) \/ CompleteRead(c) \/ CompleteWrite(c)

Next ==
    \/ \E c \in Calls : Step(c) \/ Fail(c)
    \/ \E c \in Calls, o \in Orders, what \in Ops : InvokeOnOrder(c, o, what)
    \/ \E c \in Calls, s \in SubIds : InvokeProvision(c, s)
    \/ \E s \in SubIds : MarkProvisionFailed(s) \/ FlagDeliveryRetry(s)
    \/ \E o \in Orders : PlaceOrder(o)
    \/ EditPlan

Spec == Init /\ [][Next]_vars

\* A running process takes its next step or fails; nobody has to invoke anything.
FairSpec == Spec /\ \A c \in Calls : WF_vars(Step(c))

-----------------------------------------------------------------------------
(* Properties. *)

\* The services' own calls on an order: payment_flow has not been invoked on it.
OnlyServices(o) == \A c \in Calls : op[c] = "intent_approve" => ord[c] # o

Answered(how) == how \in {"fresh", "replay"}

\* However often and in whatever interleaving an order is approved, with failures at
\* any step, at most one subscription is created from it.
OneSubscriptionPerOrder ==
    \A s, t \in SubIds :
        Exists(s) /\ Exists(t) /\ subs[s].order = subs[t].order => s = t

\* A subscription is planned at most once, and its delivery message is queued at most
\* once and never before the plan is recorded.
OneDeliveryPerSubscription ==
    \A s \in SubIds : intents[s] <= 1 /\ messages[s] <= intents[s]

\* All calls that approved an order, first or replayed, name the one subscription made
\* from it, and only one of them claims to have been the first.
AnswersAgree ==
    \A c, d \in Calls :
        /\ {op[c], op[d]} \subseteq {"approve", "flow"}
        /\ ord[c] = ord[d]
        /\ Answered(approval[c]) /\ Answered(approval[d])
        => /\ sub[c] = sub[d] /\ subs[sub[c]].order = ord[c]
           /\ approval[c] = "fresh" /\ approval[d] = "fresh" => c = d

\* A completed approval claim with a subscription as its result means the whole chain is
\* there; a completed provisioning claim means the message is queued, and so does the
\* answer of a call that provisioned.
CompletedMeansDone ==
    /\ \A o \in Orders :
        LET row == keys[ApprovalKey(o)] IN
        row.status = "completed" /\ row.ref \in SubIds
            => /\ orders[o] = "approved"
               /\ subs[row.ref].order = o
               /\ profiles[CustomerOf[o]] >= 1
    /\ \A s \in SubIds :
        keys[ProvisionKey(s)].status = "completed"
            => Exists(s) /\ intents[s] = 1 /\ messages[s] = 1
    /\ \A c \in Calls : Answered(provision[c]) => messages[sub[c]] = 1

\* An approved order without a subscription (a call failed half way) stays visible: its
\* claim is still open, so no later call can take it for done.
HalfDoneIsVisible ==
    \A o \in Orders :
        orders[o] = "approved" /\ (\A s \in SubIds : subs[s].order # o)
            => /\ keys[ApprovalKey(o)].status # "absent"
               /\ OnlyServices(o) => keys[ApprovalKey(o)].status = "in_progress"

\* Compensation and re-runs only move forward: an approved order stays approved, a
\* subscription is kept with its price and never returns to unprovisioned.
ForwardOnly ==
    [][ /\ \A o \in Orders : orders[o] = "approved" => orders'[o] = "approved"
        /\ \A s \in SubIds : Exists(s) =>
            /\ subs'[s].order = subs[s].order /\ subs'[s].price = subs[s].price
            /\ subs[s].provision # "unprovisioned" => subs'[s].provision # "unprovisioned"
      ]_vars

\* complete_idempotent keeps the first result: what a replay returns never changes.
ReplaysAreStable ==
    [][ /\ \A o \in Orders :
            OnlyServices(o) /\ keys[ApprovalKey(o)].status = "completed"
                => keys'[ApprovalKey(o)] = keys[ApprovalKey(o)]
        /\ \A s \in SubIds :
            keys[ProvisionKey(s)].status = "completed"
                => keys'[ProvisionKey(s)] = keys[ProvisionKey(s)]
      ]_vars

\* An open approval claim is completed, unless a call on that order failed.
ClaimsSettle ==
    \A o \in Orders :
        keys[ApprovalKey(o)].status = "in_progress"
            ~> \/ keys[ApprovalKey(o)].status = "completed"
               \/ \E c \in Calls : ord[c] = o /\ approval[c] = "raised"

\* Whoever is told that an order is approved finds its subscription on the customer's
\* dashboard, and after its provisioning not as pending; the bot says the same.
AnswersAreShown ==
    \A c \in Calls :
        /\ op[c] \in {"approve", "flow"} /\ Answered(approval[c])
            => \E row \in customer_dashboard(CustomerOf[ord[c]]) :
                  /\ row.id = sub[c]
                  /\ Answered(provision[c]) => row.status # "pending"
        /\ op[c] = "flow" /\ Answered(provision[c])
            => \E line \in build_account_status(CustomerOf[ord[c]]) :
                  line.provision # "unprovisioned"

\* What a dashboard shows it never takes back: a subscription stays on it at its price,
\* and one that is not pending does not become pending again.
DashboardsOnlyGrow ==
    [][\A u \in Customers : \A row \in customer_dashboard(u) :
        \E later \in customer_dashboard(u)' :
            /\ later.id = row.id /\ later.price = row.price
            /\ row.status # "pending" => later.status # "pending"]_vars

-----------------------------------------------------------------------------
(* The services keep the promise. *)

Promise == INSTANCE FulfilmentPromise WITH
    approved  <- {x \in Orders : orders[x] = "approved"},
    made      <- [x \in Orders |-> {y \in SubIds : subs[y].order = x}],
    planned   <- intents,
    announced <- messages

\* Every behaviour of the services, seen through the tables, is one the abstract
\* specification allows.
KeepsPromise == Promise!Spec

-----------------------------------------------------------------------------
(* What the repository says and the code does not do. *)

\* compensation.flag_delivery_retry: "re-running the flow will re-attempt the enqueue".
\* A re-run for a flagged subscription without a message, with no other call on it
\* under way, is not turned away.
RerunReattempts ==
    [][ \A c \in Calls :
            /\ At(c, "begin_provision")
            /\ sub[c] \in flagged /\ messages[sub[c]] = 0
            /\ \A d \in Calls \ {c} : sub[d] = sub[c] => pc[d] \in {"idle", "done"}
            => provision'[c] # "refused" ]_vars
=============================================================================
