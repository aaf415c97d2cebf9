------------------------------ MODULE Delivery ------------------------------
(* Subscription delivery on top of the outbound queue:                      *)
(* subscription_delivery.prepare_delivery by concurrent callers, the modes  *)
(* it chooses, and what portal_viewmodels.delivery_status shows of it.      *)
(*                                                                          *)
(* A delivery is three transactions (the row, the message, the row again)   *)
(* and no key ties two calls about one subscription together: a call that   *)
(* failed is simply made again.  All deliveries here are of one customer,   *)
(* so all messages become reachable at once, and go by telegram: no pass    *)
(* takes what is queued for another channel.                                *)
EXTENDS OutboundQueue, Sequences

CONSTANTS
    Subscriptions,  \* subscriptions of the customer
    Calls,          \* calls of prepare_delivery, each made at most once
    Outputs         \* the Hiddify outputs they are handed

\* What normalize tells apart in an output: whether the two keys hold a link, and
\* which kinds of entries all_configs (or protocols) lists.
AllOutputs ==
    [subscription_url : BOOLEAN, deep_link : BOOLEAN,
     configs : SUBSET {"engine", "proxy_link", "hiddify_link"}]

\* No row, no message: ids begin at 1.
None == 0

ASSUME DeliveryAssumption ==
    /\ Outputs \subseteq AllOutputs
    /\ None \notin Messages
    /\ IsFiniteSet(Calls) /\ Cardinality(Calls) <= Cardinality(Messages)

VARIABLES
    deliveries,    \* subscription_deliveries, in id order
    stage,         \* where each call is
    row,           \* the delivery it prepared
    notification   \* the message it enqueued

delivery == <<deliveries, stage, row, notification>>
deliveryVars == <<vars, delivery>>

Stages == {"idle", "enqueue", "mark", "ok", "failed"}
Modes == {"deep_link", "copy_link", "qr"}

DeliveryTypeOK ==
    /\ TypeOK
    /\ \A i \in DOMAIN deliveries :
          deliveries[i] \in [subscription : Subscriptions, available : SUBSET Modes,
                             primary_mode : Modes, status : {"prepared", "queued"}]
    /\ stage \in [Calls -> Stages]
    /\ row \in [Calls -> {None} \cup DOMAIN deliveries]
    /\ notification \in [Calls -> {None} \cup Messages]

DeliveryInit ==
    /\ Init
    /\ reachable \in {{}, Messages}
    /\ deliveries = <<>>
    /\ stage = [c \in Calls |-> "idle"]
    /\ row = [c \in Calls |-> None]
    /\ notification = [c \in Calls |-> None]

-----------------------------------------------------------------------------
(* The modes. *)

qr_available == FALSE

\* A hiddify:// entry counts twice: it is a raw link and a deep link.
has_subscription_url(output) ==
    output.subscription_url \/ output.configs \cap {"proxy_link", "hiddify_link"} # {}

has_deep_link(output) == output.deep_link \/ "hiddify_link" \in output.configs

Available(output, token) ==
    {mode \in Modes : \/ mode = "deep_link" /\ has_deep_link(output)
                      \/ mode = "copy_link" /\ (token \/ has_subscription_url(output))
                      \/ mode = "qr" /\ qr_available}

ModeOrder == <<"deep_link", "copy_link", "qr">>

\* The first of the order that is available; the copy link when none is.
choose_primary_mode(available) ==
    IF available = {} THEN "copy_link"
    ELSE ModeOrder[CHOOSE i \in DOMAIN ModeOrder :
                     /\ ModeOrder[i] \in available
                     /\ \A j \in 1 .. (i - 1) : ModeOrder[j] \notin available]

-----------------------------------------------------------------------------
(* prepare_delivery. *)

AtStage(c, label) == stage[c] = label
Proceed(c, label) == stage' = [stage EXCEPT ![c] = label]

\* The INSERT.  Everything ahead of it only computes; the guard against raw links sees
\* a template key and a hash, which never look like one.
Prepare(c) ==
    /\ AtStage(c, "idle")
    /\ \E s \in Subscriptions, output \in Outputs, token \in BOOLEAN :
          deliveries' = Append(deliveries,
              [subscription |-> s, available |-> Available(output, token),
               primary_mode |-> choose_primary_mode(Available(output, token)),
               status |-> "prepared"])
    /\ row' = [row EXCEPT ![c] = Len(deliveries) + 1]
    /\ Proceed(c, "enqueue")
    /\ UNCHANGED <<vars, notification>>

NextMessage == CHOOSE m \in Messages : /\ status[m] = "absent"
                                       /\ \A k \in Messages : k < m => status[k] # "absent"

\* enqueue_notification.
EnqueueNotification(c) ==
    /\ AtStage(c, "enqueue")
    /\ Enqueue(NextMessage)
    /\ notification' = [notification EXCEPT ![c] = NextMessage]
    /\ Proceed(c, "mark")
    /\ UNCHANGED <<deliveries, row>>

\* Mutant: a delivery is marked when a transport takes it, which is no business of the call.
MarkQueuedNever(c) ==
    /\ AtStage(c, "mark")
    /\ Proceed(c, "ok")
    /\ UNCHANGED <<vars, deliveries, row, notification>>

\* Mutant: the row says sent as soon as the message is queued.
MarkQueuedAsSent(c) ==
    /\ AtStage(c, "mark")
    /\ deliveries' = [deliveries EXCEPT ![row[c]].status = "sent"]
    /\ Proceed(c, "ok")
    /\ UNCHANGED <<vars, row, notification>>

MarkQueued(c) ==
    /\ AtStage(c, "mark")
    /\ deliveries' = [deliveries EXCEPT ![row[c]].status = "queued"]
    /\ Proceed(c, "ok")
    /\ UNCHANGED <<vars, row, notification>>

\* A statement raises (enqueue_notification refuses a channel it does not know) or the
\* process dies: what is committed stays.
Fail(c) ==
    /\ stage[c] \in {"enqueue", "mark"}
    /\ Proceed(c, "failed")
    /\ UNCHANGED <<vars, deliveries, row, notification>>

\* The customer links a telegram account.
CustomerLinks ==
    /\ reachable # Messages
    /\ reachable' = Messages
    /\ UNCHANGED <<status, attempts, outcome, worker, delivery>>

Pass(w) == Step(w) /\ UNCHANGED delivery

DeliveryNext ==
    \/ \E c \in Calls : Prepare(c) \/ EnqueueNotification(c) \/ MarkQueued(c) \/ Fail(c)
    \/ \E w \in Workers : Pass(w) \/ (Abort(w) /\ UNCHANGED delivery)
    \/ \E m \in Messages, to \in {"suppressed", "dead"} : Withdraw(m, to) /\ UNCHANGED delivery
    \/ CustomerLinks

\* A call that has begun goes on or fails, and passes are started again and again.
DeliverySpec ==
    /\ DeliveryInit /\ [][DeliveryNext]_deliveryVars
    /\ \A c \in Calls : WF_deliveryVars(EnqueueNotification(c) \/ MarkQueued(c) \/ Fail(c))
    /\ \A w \in Workers : WF_deliveryVars(Pass(w))

-----------------------------------------------------------------------------
(* What the portal shows. *)

DeliveriesOf(s) == {i \in DOMAIN deliveries : deliveries[i].subscription = s}

\* delivery_status: the newest row of the subscription, if there is one.
Latest(s) == CHOOSE i \in DeliveriesOf(s) : \A j \in DeliveriesOf(s) : j <= i

delivery_status(s) ==
    IF DeliveriesOf(s) = {}
    THEN [status |-> "planned", primary_mode |-> "copy_link", modes |-> {}]
    ELSE [status |-> deliveries[Latest(s)].status,
          primary_mode |-> deliveries[Latest(s)].primary_mode,
          modes |-> deliveries[Latest(s)].available]

CallsOn(s) == {c \in Calls : row[c] \in DeliveriesOf(s)}
MessagesOf(s) == {notification[c] : c \in CallsOn(s)} \ {None}

-----------------------------------------------------------------------------
(* Properties. *)

\* What the portal shows of a subscription is so: "queued" means that a message about it
\* is in the queue or was dealt with, "planned" that there is none, and "prepared" that
\* a call is at work or one failed.  The mode it recommends is one it shows, if any is.
PortalIsHonest ==
    \A s \in Subscriptions :
        LET shown == delivery_status(s) IN
        /\ shown.status = "queued" => MessagesOf(s) # {}
        /\ shown.status = "planned" => MessagesOf(s) = {}
        /\ shown.status = "prepared" => \E c \in CallsOn(s) : stage[c] # "ok"
        /\ shown.modes # {} => shown.primary_mode \in shown.modes

\* Nothing keeps a second call about a subscription from sending again.  What a customer
\* gets too often is bounded by the calls made and by what the queue lost or raced over:
\* here each time that a message about S was taken, and each time that nobody noted it.
Told(s) == UNION {{m} \X (1 .. accepted[m]) : m \in MessagesOf(s)}
Unrecorded(s) == UNION {{m} \X (1 .. unrecorded[m]) : m \in MessagesOf(s)}

RepeatsHaveCause ==
    \A s \in Subscriptions :
        MessagesOf(s) \cap raced = {} =>
            Cardinality(Told(s)) <= Cardinality(CallsOn(s)) + Cardinality(Unrecorded(s))

\* What this adds up: a subscription has no more messages than calls, and a message goes
\* out twice only for the causes the queue has.
OneMessagePerCall ==
    \A s \in Subscriptions :
        /\ Cardinality(MessagesOf(s)) <= Cardinality(CallsOn(s))
        /\ \A m \in MessagesOf(s) \ raced : accepted[m] <= 1 + unrecorded[m]

\* Every delivery comes to an end: its call failed, or its message was sent, withdrawn or
\* dead-lettered, and then the row says queued.
EveryDeliverySettles ==
    \A c \in Calls :
        AtStage(c, "enqueue") ~>
            \/ AtStage(c, "failed")
            \/ /\ notification[c] # None /\ status[notification[c]] \in Terminal
               /\ deliveries[row[c]].status = "queued"
=============================================================================
