-------------------------- MODULE FulfilmentProofs --------------------------
(* Theorems about Fulfilment, for every set of orders, calls, customers,    *)
(* prices and subscription ids.                                             *)
EXTENDS Fulfilment, TLAPS

(* The inductive invariant.  Control says where a call can be: at a label   *)
(* of the approval, of the provisioning or of payment_flow, with the        *)
(* registers that label needs.  Exclusive says that a call past             *)
(* begin_idempotent is the only one under its key: it claimed an absent     *)
(* key, and no key becomes absent again.  Stages ties what a holder still   *)
(* has to do to what the tables already hold.                               *)
ApprovalLabels == {"check_order", "approve_order", "read_plan", "insert_sub",
                   "read_profile", "insert_profile"}
ProvisionLabels == {"record_plan", "enqueue"}
CompleteLabels == {"complete_read", "complete_write"}
Intents == {"intent_approve", "intent_provision"}

Approving(c) == op[c] \in {"approve", "flow"} /\ approval[c] = "none"

ControlOf(c) ==
    /\ pc[c] = "idle" => approval[c] = "none" /\ op[c] = None
    /\ pc[c] \in ApprovalLabels \cup {"begin_approval"} => Approving(c) /\ ord[c] \in Orders
    /\ pc[c] \in ProvisionLabels \cup {"read_sub", "begin_provision"}
        => Provisioning(c) /\ sub[c] \in SubIds
    /\ pc[c] = "begin_intent" => op[c] \in Intents /\ ord[c] \in Orders
    /\ pc[c] \in CompleteLabels
        => \/ Approving(c) /\ ord[c] \in Orders /\ sub[c] \in SubIds
           \/ Provisioning(c) /\ sub[c] \in SubIds
           \/ op[c] \in Intents /\ ord[c] \in Orders
    /\ pc[c] \in {"read_profile", "insert_profile"} => sub[c] \in SubIds
    /\ pc[c] = "insert_sub" => snap[c] \in Prices

Control == \A c \in Calls : ControlOf(c)

HoldsApproval(c) == Approving(c) /\ pc[c] \in ApprovalLabels \cup CompleteLabels
HoldsProvision(c) == Provisioning(c) /\ pc[c] \in ProvisionLabels \cup CompleteLabels

Exclusive ==
    /\ \A c \in Calls :
        /\ HoldsApproval(c) => keys[ApprovalKey(ord[c])].status # "absent"
        /\ HoldsProvision(c) => keys[ProvisionKey(sub[c])].status # "absent"
    /\ \A c, d \in Calls :
        /\ HoldsApproval(c) /\ HoldsApproval(d) /\ ord[c] = ord[d] => c = d
        /\ HoldsProvision(c) /\ HoldsProvision(d) /\ sub[c] = sub[d] => c = d

OrderStages ==
    /\ \A o \in Orders : orders[o] = "approved" => keys[ApprovalKey(o)].status # "absent"
    /\ \A s \in SubIds : Exists(s) => orders[subs[s].order] = "approved"
    /\ OneSubscriptionPerOrder
    /\ \A c \in Calls :
        /\ pc[c] \in {"check_order", "approve_order"} => orders[ord[c]] # "approved"
        /\ pc[c] = "insert_sub" => orders[ord[c]] = "approved"
        /\ pc[c] \in {"check_order", "approve_order", "read_plan", "insert_sub"}
            => \A s \in SubIds : subs[s].order # ord[c]

DeliveryStages ==
    /\ \A s \in SubIds : keys[ProvisionKey(s)].status = "absent" => intents[s] = 0
    /\ OneDeliveryPerSubscription
    /\ \A c \in Calls :
        /\ pc[c] \in ProvisionLabels \cup {"begin_provision"} => Exists(sub[c])
        /\ pc[c] = "record_plan" => intents[sub[c]] = 0
        /\ pc[c] = "enqueue" => intents[sub[c]] = 1 /\ messages[sub[c]] = 0

\* The claim of a call that still works under it is open.  payment_flow completes the
\* approval key of an order also while a service holds it.
ClaimsAreOpen ==
    \A c \in Calls :
        /\ HoldsApproval(c) /\ OnlyServices(ord[c])
            => keys[ApprovalKey(ord[c])].status = "in_progress"
        /\ HoldsProvision(c) => keys[ProvisionKey(sub[c])].status = "in_progress"

IInv == TypeOK /\ Control /\ Exclusive /\ OrderStages /\ DeliveryStages /\ ClaimsAreOpen

-----------------------------------------------------------------------------
(* The keys of two scopes, and of two orders or subscriptions, differ. *)
LEMMA KeysDiffer ==
    /\ \A o \in Orders : ApprovalKey(o) \in Keys
    /\ \A x \in SubIds \cup Orders : ProvisionKey(x) \in Keys
    /\ \A x, y : ApprovalKey(x) # ProvisionKey(y)
    /\ \A x, y : ApprovalKey(x) = ApprovalKey(y) => x = y
    /\ \A x, y : ProvisionKey(x) = ProvisionKey(y) => x = y
  BY DEF ApprovalKey, ProvisionKey, Keys

(* The key a call works under is a key of the table, and which one. *)
LEMMA KeyOfCall ==
  ASSUME NEW c \in Calls, ControlOf(c), pc[c] \in Labels \ {"idle", "read_sub", "done"}
  PROVE  /\ KeyOf(c) \in Keys
         /\ Approving(c) => KeyOf(c) = ApprovalKey(ord[c])
         /\ Provisioning(c) => KeyOf(c) = ProvisionKey(sub[c])
         /\ op[c] \in Intents =>
                KeyOf(c) \in {ApprovalKey(ord[c]), ProvisionKey(ord[c])} /\ ord[c] \in Orders
  <1>1. \/ Approving(c) /\ ord[c] \in Orders
        \/ Provisioning(c) /\ sub[c] \in SubIds
        \/ op[c] \in Intents /\ ord[c] \in Orders
    BY DEF ControlOf, Labels, CompleteLabels, ApprovalLabels, ProvisionLabels
  <1>2. ~(Approving(c) /\ Provisioning(c)) /\ (op[c] \in Intents => ~Approving(c) /\ ~Provisioning(c))
    BY DEF Approving, Provisioning, Intents
  <1>3. /\ Provisioning(c) => KeyOf(c) = ProvisionKey(sub[c])
        /\ Approving(c) => KeyOf(c) = ApprovalKey(ord[c])
        /\ op[c] \in Intents => KeyOf(c) \in {ApprovalKey(ord[c]), ProvisionKey(ord[c])}
    BY <1>2 DEF KeyOf, Approving, Intents
  <1> QED BY <1>1, <1>2, <1>3, KeysDiffer

-----------------------------------------------------------------------------
LEMMA InitInv == Init => IInv
  <1> SUFFICES ASSUME Init PROVE IInv
    OBVIOUS
  <1>1. TypeOK
    BY DEF Init, TypeOK, Subscription, OrderStatuses, KeyRow, KeyStatuses, Refs, Absent, Labels, Outcomes
  <1>2. Control
    BY DEF Init, Control, ControlOf, ApprovalLabels, ProvisionLabels, CompleteLabels
  <1>3. Exclusive
    BY DEF Init, Exclusive, HoldsApproval, HoldsProvision, ApprovalLabels, ProvisionLabels, CompleteLabels
  <1>4. OrderStages
    BY DEF Init, OrderStages, OneSubscriptionPerOrder, Exists
  <1>5. DeliveryStages
    BY DEF Init, DeliveryStages, OneDeliveryPerSubscription, ProvisionLabels
  <1>6. ClaimsAreOpen
    BY DEF Init, ClaimsAreOpen, HoldsApproval, HoldsProvision, ApprovalLabels, ProvisionLabels,
       CompleteLabels
  <1> QED
    BY <1>1, <1>2, <1>3, <1>4, <1>5, <1>6 DEF IInv

LEMMA TypeStep ==
  ASSUME TypeOK, Control, DeliveryStages, [Next]_vars
  PROVE  TypeOK'
  <1> USE DEF TypeOK, vars, store, local
  <1>1. ASSUME NEW c \in Calls, Step(c) \/ Fail(c) PROVE TypeOK'
    <2> USE <1>1 DEF Reply, Replies, Moves, Goto, At, Labels, Outcomes
    <2>0. ControlOf(c)
      BY DEF Control
    <2>1. CASE StartApproval(c)
      BY <2>0, <2>1 DEF StartApproval, Claims, Begun, KeyRow, KeyStatuses, Refs
    <2>2. CASE ReplayApproval(c)
      BY <2>0, <2>2 DEF ReplayApproval, Refs
    <2>3. CASE CheckOrder(c)
      BY <2>0, <2>3 DEF CheckOrder
    <2>4. CASE ApproveOrder(c)
      BY <2>0, <2>4 DEF ApproveOrder, OrderStatuses
    <2>5. CASE ReadPlan(c)
      BY <2>0, <2>5 DEF ReadPlan
    <2>6. CASE InsertSub(c)
      BY <2>0, <2>6 DEF InsertSub, ControlOf, ApprovalLabels, Subscription, ProvisionStatuses
    <2>7. CASE ReadProfile(c)
      BY <2>0, <2>7 DEF ReadProfile
    <2>8. CASE InsertProfile(c)
      BY <2>0, <2>8, DataAssumption DEF InsertProfile, ControlOf, ApprovalLabels
    <2>9. CASE ReadSub(c)
      BY <2>0, <2>9 DEF ReadSub
    <2>10. CASE StartProvision(c)
      BY <2>0, <2>10 DEF StartProvision, Claims, Begun, KeyRow, KeyStatuses, Refs
    <2>11. CASE ReplayProvision(c)
      BY <2>0, <2>11 DEF ReplayProvision
    <2>12. CASE RecordPlan(c)
      <3>1. sub[c] \in SubIds /\ subs[sub[c]] \in Subscription
        BY <2>0, <2>12 DEF RecordPlan, ControlOf, DeliveryStages, ProvisionLabels, Exists
      <3>2. subs' \in [SubIds -> Subscription \cup {NoSub}]
        BY <2>12, <3>1 DEF RecordPlan, Provisioned, Subscription, ProvisionStatuses
      <3>3. intents' \in [SubIds -> Nat]
        BY <2>12, <3>1 DEF RecordPlan
      <3> QED
        BY <2>12, <3>2, <3>3 DEF RecordPlan
    <2>13. CASE Enqueue(c)
      BY <2>0, <2>13 DEF Enqueue, ControlOf, ProvisionLabels
    <2>14. CASE BeginIntent(c)
      BY <2>0, <2>14 DEF BeginIntent, Begun, KeyRow, KeyStatuses, Refs
    <2>15. CASE Refuse(c)
      BY <2>0, <2>15 DEF Refuse
    <2>16. CASE CompleteRead(c)
      BY <2>0, <2>16 DEF CompleteRead
    <2>17. CASE CompleteWrite(c)
      BY <2>0, <2>17 DEF CompleteWrite, Completed, KeyRow, KeyStatuses, Refs, ResultRef, ControlOf, CompleteLabels, Approving, Provisioning, Intents
    <2>18. CASE Fail(c)
      BY <2>0, <2>18 DEF Fail
    <2> QED
      BY <2>1, <2>2, <2>3, <2>4, <2>5, <2>6, <2>7, <2>8, <2>9, <2>10, <2>11, <2>12, <2>13, <2>14, <2>15, <2>16, <2>17, <2>18 DEF Step

  <1>2. ASSUME NEW c \in Calls, NEW o \in Orders, NEW what \in Ops, InvokeOnOrder(c, o, what)
        PROVE  TypeOK'
    BY <1>2, DataAssumption DEF InvokeOnOrder, Goto, Labels, Entry
  <1>3. ASSUME NEW c \in Calls, NEW s \in SubIds, InvokeProvision(c, s)
        PROVE  TypeOK'
    BY <1>3 DEF InvokeProvision, Goto, Labels, AllOps
  <1>4. ASSUME NEW s \in SubIds, MarkProvisionFailed(s) \/ FlagDeliveryRetry(s)
        PROVE  TypeOK'
    <2>1. CASE MarkProvisionFailed(s)
      BY <2>1 DEF MarkProvisionFailed, Provisioned, Exists, Subscription, ProvisionStatuses
    <2>2. CASE FlagDeliveryRetry(s)
      BY <2>2 DEF FlagDeliveryRetry
    <2> QED
      BY <1>4, <2>1, <2>2
  <1>5. ASSUME NEW o \in Orders, PlaceOrder(o) PROVE TypeOK'
    BY <1>5 DEF PlaceOrder, OrderStatuses
  <1>6. CASE EditPlan
    BY <1>6 DEF EditPlan
  <1>7. CASE UNCHANGED vars
    BY <1>7
  <1> QED
    BY <1>1, <1>2, <1>3, <1>4, <1>5, <1>6, <1>7 DEF Next

-----------------------------------------------------------------------------
(* A step of one call leaves the registers of the others alone. *)
Same(d) ==
    /\ pc'[d] = pc[d] /\ op'[d] = op[d] /\ ord'[d] = ord[d] /\ sub'[d] = sub[d]
    /\ snap'[d] = snap[d] /\ approval'[d] = approval[d] /\ provision'[d] = provision[d]

LEMMA OthersKeep ==
  ASSUME TypeOK, NEW c \in Calls,
         \/ Step(c) \/ Fail(c)
         \/ \E o \in Orders, what \in Ops : InvokeOnOrder(c, o, what)
         \/ \E s \in SubIds : InvokeProvision(c, s)
  PROVE  \A d \in Calls \ {c} : Same(d)
  <1> USE DEF TypeOK, Same, Reply, Replies, Moves, Goto
  <1>1. CASE StartApproval(c)
    BY <1>1 DEF StartApproval, Claims
  <1>2. CASE ReplayApproval(c)
    BY <1>2 DEF ReplayApproval
  <1>3. CASE CheckOrder(c)
    BY <1>3 DEF CheckOrder
  <1>4. CASE ApproveOrder(c)
    BY <1>4 DEF ApproveOrder
  <1>5. CASE ReadPlan(c)
    BY <1>5 DEF ReadPlan
  <1>6. CASE InsertSub(c)
    BY <1>6 DEF InsertSub
  <1>7. CASE ReadProfile(c)
    BY <1>7 DEF ReadProfile
  <1>8. CASE InsertProfile(c)
    BY <1>8 DEF InsertProfile
  <1>9. CASE ReadSub(c)
    BY <1>9 DEF ReadSub
  <1>10. CASE StartProvision(c)
    BY <1>10 DEF StartProvision, Claims
  <1>11. CASE ReplayProvision(c)
    BY <1>11 DEF ReplayProvision
  <1>12. CASE RecordPlan(c)
    BY <1>12 DEF RecordPlan
  <1>13. CASE Enqueue(c)
    BY <1>13 DEF Enqueue
  <1>14. CASE BeginIntent(c)
    BY <1>14 DEF BeginIntent
  <1>15. CASE Refuse(c)
    BY <1>15 DEF Refuse
  <1>16. CASE CompleteRead(c)
    BY <1>16 DEF CompleteRead
  <1>17. CASE CompleteWrite(c)
    BY <1>17 DEF CompleteWrite
  <1>18. CASE Fail(c)
    BY <1>18 DEF Fail
  <1>19. CASE \E o \in Orders, what \in Ops : InvokeOnOrder(c, o, what)
    BY <1>19 DEF InvokeOnOrder
  <1>20. CASE \E s \in SubIds : InvokeProvision(c, s)
    BY <1>20 DEF InvokeProvision
  <1> QED
    BY <1>1, <1>2, <1>3, <1>4, <1>5, <1>6, <1>7, <1>8, <1>9, <1>10, <1>11, <1>12, <1>13, <1>14, <1>15, <1>16, <1>17, <1>18, <1>19, <1>20 DEF Step

LEMMA ControlStep ==
  ASSUME TypeOK, Control, [Next]_vars
  PROVE  Control'
  <1> USE DEF TypeOK
  <1>0. ASSUME NEW d \in Calls, Same(d) PROVE ControlOf(d)'
    BY <1>0 DEF Same, Control, ControlOf, Approving, Provisioning
  <1>1. ASSUME NEW c \in Calls, Step(c) \/ Fail(c) PROVE Control'
    <2> USE <1>1 DEF Reply, Replies, Moves, Goto, At, Approving, Provisioning
    <2>0. ControlOf(c)
      BY DEF Control
    <2> USE <2>0 DEF ControlOf, ApprovalLabels, ProvisionLabels, CompleteLabels, Intents
    <2>1. ASSUME StartApproval(c) PROVE ControlOf(c)'
      BY <2>1 DEF StartApproval, Claims
    <2>2. ASSUME ReplayApproval(c) PROVE ControlOf(c)'
      BY <2>2 DEF ReplayApproval
    <2>3. ASSUME CheckOrder(c) PROVE ControlOf(c)'
      BY <2>3 DEF CheckOrder
    <2>4. ASSUME ApproveOrder(c) PROVE ControlOf(c)'
      BY <2>4 DEF ApproveOrder
    <2>5. ASSUME ReadPlan(c) PROVE ControlOf(c)'
      BY <2>5 DEF ReadPlan
    <2>6. ASSUME InsertSub(c) PROVE ControlOf(c)'
      BY <2>6 DEF InsertSub
    <2>7. ASSUME ReadProfile(c) PROVE ControlOf(c)'
      BY <2>7 DEF ReadProfile
    <2>8. ASSUME InsertProfile(c) PROVE ControlOf(c)'
      BY <2>8 DEF InsertProfile
    <2>9. ASSUME ReadSub(c) PROVE ControlOf(c)'
      BY <2>9 DEF ReadSub
    <2>10. ASSUME StartProvision(c) PROVE ControlOf(c)'
      BY <2>10 DEF StartProvision, Claims
    <2>11. ASSUME ReplayProvision(c) PROVE ControlOf(c)'
      BY <2>11 DEF ReplayProvision
    <2>12. ASSUME RecordPlan(c) PROVE ControlOf(c)'
      BY <2>12 DEF RecordPlan
    <2>13. ASSUME Enqueue(c) PROVE ControlOf(c)'
      BY <2>13 DEF Enqueue
    <2>14. ASSUME BeginIntent(c) PROVE ControlOf(c)'
      BY <2>14 DEF BeginIntent
    <2>15. ASSUME Refuse(c) PROVE ControlOf(c)'
      BY <2>15 DEF Refuse
    <2>16. ASSUME CompleteRead(c) PROVE ControlOf(c)'
      BY <2>16 DEF CompleteRead
    <2>17. ASSUME CompleteWrite(c) PROVE ControlOf(c)'
      BY <2>17 DEF CompleteWrite
    <2>18. ASSUME Fail(c) PROVE ControlOf(c)'
      BY <2>18 DEF Fail
    <2>19. ControlOf(c)'
      BY <2>1, <2>2, <2>3, <2>4, <2>5, <2>6, <2>7, <2>8, <2>9, <2>10, <2>11, <2>12, <2>13, <2>14, <2>15, <2>16, <2>17, <2>18 DEF Step
    <2> QED
      BY <1>0, <2>19, OthersKeep DEF Control
  <1>2. ASSUME NEW c \in Calls, NEW o \in Orders, NEW what \in Ops, InvokeOnOrder(c, o, what)
        PROVE  Control'
    <2>1. ControlOf(c)'
      BY <1>2, DataAssumption DEF InvokeOnOrder, Entry, AllOps, Goto, At, Control, ControlOf,
         Approving, ApprovalLabels, ProvisionLabels, CompleteLabels, Intents
    <2> QED
      BY <1>0, <1>2, <2>1, OthersKeep DEF Control
  <1>3. ASSUME NEW c \in Calls, NEW s \in SubIds, InvokeProvision(c, s)
        PROVE  Control'
    <2>1. ControlOf(c)'
      BY <1>3 DEF InvokeProvision, Goto, At, Control, ControlOf,
         Provisioning, ApprovalLabels, ProvisionLabels, CompleteLabels
    <2> QED
      BY <1>0, <1>3, <2>1, OthersKeep DEF Control
  <1>4. ASSUME UNCHANGED local PROVE Control'
    BY <1>0, <1>4 DEF local, Same, Control
  <1> QED
    BY <1>1, <1>2, <1>3, <1>4
    DEF Next, vars, MarkProvisionFailed, FlagDeliveryRetry, PlaceOrder, EditPlan

-----------------------------------------------------------------------------
(* A row of the ledger never disappears. *)
LEMMA RowsStay ==
  ASSUME TypeOK, [Next]_vars
  PROVE  \A k \in Keys : keys[k].status # "absent" => keys'[k].status # "absent"
  <1> USE DEF TypeOK, KeyRow
  <1>1. ASSUME NEW c \in Calls, Claims(c, "begin_approval", "check_order")
                                 \/ Claims(c, "begin_provision", "record_plan")
        PROVE  \A k \in Keys : keys[k].status # "absent" => keys'[k].status # "absent"
    BY <1>1 DEF Claims, Begun
  <1>2. ASSUME NEW c \in Calls, BeginIntent(c)
        PROVE  \A k \in Keys : keys[k].status # "absent" => keys'[k].status # "absent"
    BY <1>2 DEF BeginIntent, Begun, Replies, store
  <1>3. ASSUME NEW c \in Calls, CompleteWrite(c)
        PROVE  \A k \in Keys : keys[k].status # "absent" => keys'[k].status # "absent"
    BY <1>3 DEF CompleteWrite, Completed
  <1>4. ASSUME NEW c \in Calls, Step(c) \/ Fail(c)
        PROVE  \/ StartApproval(c) \/ StartProvision(c) \/ BeginIntent(c) \/ CompleteWrite(c)
               \/ UNCHANGED keys
    BY <1>4 DEF Step, ReplayApproval, CheckOrder, ApproveOrder, ReadPlan, InsertSub, ReadProfile,
        InsertProfile, ReadSub, ReplayProvision, RecordPlan, Enqueue, Refuse, CompleteRead,
        Fail, Replies, store
  <1> QED
    BY <1>1, <1>2, <1>3, <1>4 DEF Next, StartApproval, StartProvision, vars, store,
        InvokeOnOrder, InvokeProvision, MarkProvisionFailed, FlagDeliveryRetry, PlaceOrder, EditPlan

(* A call comes to hold a key only by claiming an absent one, and then      *)
(* works under it until it is over.                                         *)
LEMMA HolderSteps ==
  ASSUME TypeOK, Control, NEW c \in Calls,
         \/ Step(c) \/ Fail(c)
         \/ \E o \in Orders, what \in Ops : InvokeOnOrder(c, o, what)
         \/ \E s \in SubIds : InvokeProvision(c, s)
  PROVE  /\ HoldsApproval(c)' =>
                /\ ord'[c] = ord[c] /\ ord[c] \in Orders
                /\ \/ HoldsApproval(c)
                   \/ StartApproval(c) /\ keys[ApprovalKey(ord[c])].status = "absent"
                                       /\ keys'[ApprovalKey(ord[c])].status # "absent"
         /\ HoldsProvision(c)' =>
                /\ sub'[c] = sub[c] /\ sub[c] \in SubIds
                /\ \/ HoldsProvision(c)
                   \/ StartProvision(c) /\ keys[ProvisionKey(sub[c])].status = "absent"
                                        /\ keys'[ProvisionKey(sub[c])].status # "absent"
  <1> DEFINE Goal ==
         /\ HoldsApproval(c)' =>
                /\ ord'[c] = ord[c] /\ ord[c] \in Orders
                /\ \/ HoldsApproval(c)
                   \/ StartApproval(c) /\ keys[ApprovalKey(ord[c])].status = "absent"
                                       /\ keys'[ApprovalKey(ord[c])].status # "absent"
         /\ HoldsProvision(c)' =>
                /\ sub'[c] = sub[c] /\ sub[c] \in SubIds
                /\ \/ HoldsProvision(c)
                   \/ StartProvision(c) /\ keys[ProvisionKey(sub[c])].status = "absent"
                                        /\ keys'[ProvisionKey(sub[c])].status # "absent"
  <1> USE DEF TypeOK, Reply, Replies, Moves, Goto, At, Approving, Provisioning, HoldsApproval,
        HoldsProvision, ApprovalLabels, ProvisionLabels, CompleteLabels, ControlOf, Intents
  <1>0. ControlOf(c)
    BY DEF Control
  <1> HIDE DEF ControlOf
  <1>1. CASE StartApproval(c)
    <2>1. KeyOf(c) \in Keys /\ KeyOf(c) = ApprovalKey(ord[c])
      BY <1>0, <1>1, KeyOfCall DEF StartApproval, Claims, Labels, ControlOf
    <2>2. keys[KeyOf(c)].status = "absent" /\ keys'[KeyOf(c)].status # "absent"
      BY <1>1, <2>1 DEF StartApproval, Claims, BeginState, Begun, KeyRow
    <2> QED
      BY <1>0, <1>1, <2>1, <2>2 DEF StartApproval, Claims, ControlOf
  <1>2. CASE ReplayApproval(c)
    BY <1>0, <1>2 DEF ReplayApproval, ControlOf
  <1>3. CASE CheckOrder(c)
    BY <1>0, <1>3 DEF CheckOrder, ControlOf
  <1>4. CASE ApproveOrder(c)
    BY <1>0, <1>4 DEF ApproveOrder, ControlOf
  <1>5. CASE ReadPlan(c)
    BY <1>0, <1>5 DEF ReadPlan, ControlOf
  <1>6. CASE InsertSub(c)
    BY <1>0, <1>6 DEF InsertSub, ControlOf
  <1>7. CASE ReadProfile(c)
    BY <1>0, <1>7 DEF ReadProfile, ControlOf
  <1>8. CASE InsertProfile(c)
    BY <1>0, <1>8 DEF InsertProfile, ControlOf
  <1>9. CASE ReadSub(c)
    BY <1>0, <1>9 DEF ReadSub, ControlOf
  <1>10. CASE StartProvision(c)
    <2>1. KeyOf(c) \in Keys /\ KeyOf(c) = ProvisionKey(sub[c])
      BY <1>0, <1>10, KeyOfCall DEF StartProvision, Claims, Labels, ControlOf
    <2>2. keys[KeyOf(c)].status = "absent" /\ keys'[KeyOf(c)].status # "absent"
      BY <1>10, <2>1 DEF StartProvision, Claims, BeginState, Begun, KeyRow
    <2> QED
      BY <1>0, <1>10, <2>1, <2>2 DEF StartProvision, Claims, ControlOf
  <1>11. CASE ReplayProvision(c)
    BY <1>0, <1>11 DEF ReplayProvision, ControlOf
  <1>12. CASE RecordPlan(c)
    BY <1>0, <1>12 DEF RecordPlan, ControlOf
  <1>13. CASE Enqueue(c)
    BY <1>0, <1>13 DEF Enqueue, ControlOf
  <1>14. CASE BeginIntent(c)
    BY <1>0, <1>14 DEF BeginIntent, ControlOf
  <1>15. CASE Refuse(c)
    BY <1>0, <1>15 DEF Refuse, ControlOf
  <1>16. CASE CompleteRead(c)
    BY <1>0, <1>16 DEF CompleteRead, ControlOf
  <1>17. CASE CompleteWrite(c)
    BY <1>0, <1>17 DEF CompleteWrite, ControlOf
  <1>18. CASE Fail(c)
    BY <1>0, <1>18 DEF Fail, ControlOf
  <1>19. CASE \E o \in Orders, what \in Ops : InvokeOnOrder(c, o, what)
    BY <1>19 DEF InvokeOnOrder, Entry
  <1>20. CASE \E s \in SubIds : InvokeProvision(c, s)
    BY <1>20 DEF InvokeProvision
  <1> QED
    BY <1>1, <1>2, <1>3, <1>4, <1>5, <1>6, <1>7, <1>8, <1>9, <1>10, <1>11, <1>12, <1>13, <1>14, <1>15, <1>16, <1>17, <1>18, <1>19, <1>20 DEF Step

LEMMA ExclusiveStep ==
  ASSUME TypeOK, Control, Exclusive, [Next]_vars
  PROVE  Exclusive'
  <1>0. /\ \A o \in Orders : keys[ApprovalKey(o)].status # "absent"
                                => keys'[ApprovalKey(o)].status # "absent"
        /\ \A s \in SubIds : keys[ProvisionKey(s)].status # "absent"
                                => keys'[ProvisionKey(s)].status # "absent"
    BY RowsStay, KeysDiffer
  <1>1. ASSUME NEW d \in Calls, Same(d)
        PROVE  /\ HoldsApproval(d)' <=> HoldsApproval(d)
               /\ HoldsProvision(d)' <=> HoldsProvision(d)
    BY <1>1 DEF Same, HoldsApproval, HoldsProvision, Approving, Provisioning
  <1>2. ASSUME NEW d \in Calls
        PROVE  /\ HoldsApproval(d) => ord[d] \in Orders
               /\ HoldsProvision(d) => sub[d] \in SubIds
    BY DEF Control, ControlOf, HoldsApproval, HoldsProvision, Approving, Provisioning, Intents,
           ApprovalLabels, ProvisionLabels, CompleteLabels
  <1>3. ASSUME NEW c \in Calls,
               \/ Step(c) \/ Fail(c)
               \/ \E o \in Orders, what \in Ops : InvokeOnOrder(c, o, what)
               \/ \E s \in SubIds : InvokeProvision(c, s)
        PROVE  Exclusive'
    <2>1. \A d \in Calls \ {c} : Same(d)
      BY <1>3, OthersKeep
    <2>2. /\ HoldsApproval(c)' =>
                /\ ord'[c] = ord[c] /\ ord[c] \in Orders
                /\ \/ HoldsApproval(c)
                   \/ /\ keys[ApprovalKey(ord[c])].status = "absent"
                      /\ keys'[ApprovalKey(ord[c])].status # "absent"
          /\ HoldsProvision(c)' =>
                /\ sub'[c] = sub[c] /\ sub[c] \in SubIds
                /\ \/ HoldsProvision(c)
                   \/ /\ keys[ProvisionKey(sub[c])].status = "absent"
                      /\ keys'[ProvisionKey(sub[c])].status # "absent"
      BY <1>3, HolderSteps
    <2>3. ASSUME NEW d \in Calls
          PROVE  /\ HoldsApproval(d)' => keys'[ApprovalKey(ord'[d])].status # "absent"
                 /\ HoldsProvision(d)' => keys'[ProvisionKey(sub'[d])].status # "absent"
      <3>1. CASE d = c
        BY <3>1, <1>0, <1>2, <2>2 DEF Exclusive
      <3>2. CASE d # c
        BY <3>2, <1>0, <1>1, <1>2, <2>1 DEF Exclusive, Same
      <3> QED BY <3>1, <3>2
    <2>4. ASSUME NEW d \in Calls \ {c}
          PROVE  /\ ~(HoldsApproval(c)' /\ HoldsApproval(d)' /\ ord'[c] = ord'[d])
                 /\ ~(HoldsProvision(c)' /\ HoldsProvision(d)' /\ sub'[c] = sub'[d])
      BY <1>1, <2>1, <2>2 DEF Exclusive, Same
    <2>5. ASSUME NEW d \in Calls \ {c}, NEW e \in Calls \ {c}
          PROVE  /\ HoldsApproval(d)' /\ HoldsApproval(e)' /\ ord'[d] = ord'[e] => d = e
                 /\ HoldsProvision(d)' /\ HoldsProvision(e)' /\ sub'[d] = sub'[e] => d = e
      BY <1>1, <2>1 DEF Exclusive, Same
    <2> QED
      BY <2>3, <2>4, <2>5 DEF Exclusive
  <1>4. ASSUME UNCHANGED local PROVE Exclusive'
    BY <1>0, <1>1, <1>2, <1>4 DEF local, Same, Exclusive
  <1> QED
    BY <1>3, <1>4 DEF Next, vars, MarkProvisionFailed, FlagDeliveryRetry, PlaceOrder, EditPlan

-----------------------------------------------------------------------------
(* The steps that touch neither an order's approval nor which subscriptions *)
(* exist.                                                                   *)
QuietStore ==
    /\ \A o \in Orders : orders'[o] = "approved" <=> orders[o] = "approved"
    /\ \A s \in SubIds : subs'[s].order = subs[s].order /\ (Exists(s)' <=> Exists(s))

LEMMA QuietSteps ==
  ASSUME TypeOK, Control, DeliveryStages, [Next]_vars,
         \A c \in Calls : ~ApproveOrder(c) /\ ~InsertSub(c)
  PROVE  QuietStore
  <1> USE DEF TypeOK
  <1>1. ASSUME UNCHANGED <<orders, subs>> PROVE QuietStore
    BY <1>1 DEF QuietStore, Exists
  <1>2. ASSUME NEW s \in SubIds, Exists(s), UNCHANGED orders, NEW status,
               subs' = [subs EXCEPT ![s] = Provisioned(@, status)]
        PROVE  QuietStore
    <2>1. subs[s] \in Subscription
      BY <1>2 DEF Exists
    <2>2. subs'[s] = [order |-> subs[s].order, price |-> subs[s].price, provision |-> status]
      BY <1>2 DEF Provisioned
    <2>3. subs[s].order # None /\ subs'[s].order = subs[s].order
      BY <2>1, <2>2, DataAssumption DEF Subscription
    <2>4. subs'[s] # NoSub
      BY <2>3 DEF NoSub
    <2> QED
      BY <1>2, <2>3, <2>4 DEF QuietStore, Exists
  <1>3. ASSUME NEW c \in Calls, RecordPlan(c) PROVE QuietStore
    BY <1>2, <1>3 DEF RecordPlan, At, Control, ControlOf, DeliveryStages, ProvisionLabels
  <1>4. ASSUME NEW s \in SubIds, MarkProvisionFailed(s) PROVE QuietStore
    BY <1>2, <1>4 DEF MarkProvisionFailed
  <1>5. ASSUME NEW o \in Orders, PlaceOrder(o) PROVE QuietStore
    BY <1>5 DEF PlaceOrder, QuietStore, Exists
  <1>6. ASSUME NEW c \in Calls, Step(c) \/ Fail(c), ~RecordPlan(c)
        PROVE  UNCHANGED <<orders, subs>>
    BY <1>6 DEF Step, StartApproval, StartProvision, Claims, ReplayApproval, CheckOrder, ReadPlan,
        ReadProfile, InsertProfile, ReadSub, ReplayProvision, Enqueue, BeginIntent, Refuse,
        CompleteRead, CompleteWrite, Fail, Replies, store
  <1> QED
    BY <1>1, <1>3, <1>4, <1>5, <1>6
    DEF Next, vars, store, InvokeOnOrder, InvokeProvision, FlagDeliveryRetry, EditPlan

LEMMA OrderStagesStep ==
  ASSUME TypeOK, Control, Exclusive, OrderStages, DeliveryStages, [Next]_vars
  PROVE  OrderStages'
  <1> DEFINE Open == {"check_order", "approve_order", "read_plan", "insert_sub"}
  <1> USE DEF TypeOK
  <1>0. \A o \in Orders : keys[ApprovalKey(o)].status # "absent"
                            => keys'[ApprovalKey(o)].status # "absent"
    BY RowsStay, KeysDiffer
  <1>1. ASSUME NEW s \in SubIds
        PROVE  (Exists(s) => subs[s].order \in Orders) /\ (subs[s].order \in Orders => Exists(s))
    <2>1. CASE subs[s] = NoSub
      BY <2>1, DataAssumption DEF Exists, NoSub
    <2>2. CASE subs[s] # NoSub
      BY <2>2 DEF Exists, Subscription
    <2> QED BY <2>1, <2>2
  <1>2. ASSUME NEW d \in Calls, pc[d] \in Open
        PROVE  HoldsApproval(d) /\ ord[d] \in Orders
    BY <1>2 DEF Control, ControlOf, HoldsApproval, ApprovalLabels
  <1>3. ASSUME NEW d \in Calls, Same(d), QuietStore
        PROVE  /\ pc'[d] \in {"check_order", "approve_order"} => orders'[ord'[d]] # "approved"
               /\ pc'[d] = "insert_sub" => orders'[ord'[d]] = "approved"
               /\ pc'[d] \in Open => \A s \in SubIds : subs'[s].order # ord'[d]
    BY <1>2, <1>3 DEF Same, QuietStore, OrderStages
  <1>4. ASSUME QuietStore,
               \A d \in Calls :
                 /\ pc'[d] \in {"check_order", "approve_order"} => orders'[ord'[d]] # "approved"
                 /\ pc'[d] = "insert_sub" => orders'[ord'[d]] = "approved"
                 /\ pc'[d] \in Open => \A s \in SubIds : subs'[s].order # ord'[d]
        PROVE  OrderStages'
    <2>1. \A o \in Orders : orders'[o] = "approved" => keys'[ApprovalKey(o)].status # "absent"
      BY <1>0, <1>4 DEF QuietStore, OrderStages
    <2>2. \A s \in SubIds : Exists(s)' => orders'[subs'[s].order] = "approved"
      BY <1>1, <1>4 DEF QuietStore, OrderStages
    <2>3. OneSubscriptionPerOrder'
      BY <1>4 DEF QuietStore, OrderStages, OneSubscriptionPerOrder
    <2> QED
      BY <1>4, <2>1, <2>2, <2>3 DEF OrderStages
  <1>5. ASSUME NEW c \in Calls, Step(c) \/ Fail(c) PROVE OrderStages'
    <2>0. (\A d \in Calls \ {c} : Same(d)) /\ ControlOf(c)
      BY <1>5, OthersKeep DEF Control
    <2>1. CASE ApproveOrder(c)
      <3>1. pc[c] = "approve_order" /\ ord[c] \in Orders /\ HoldsApproval(c)
        BY <1>2, <2>1 DEF ApproveOrder, At
      <3>2. /\ orders' = [orders EXCEPT ![ord[c]] = "approved"] /\ UNCHANGED <<subs, keys>>
            /\ pc'[c] = "read_plan" /\ ord'[c] = ord[c]
        BY <2>1 DEF ApproveOrder, Moves, Goto
      <3>3. \A o \in Orders : orders'[o] = "approved" <=> orders[o] = "approved" \/ o = ord[c]
        BY <3>1, <3>2
      <3>4. ASSUME NEW d \in Calls
            PROVE  /\ pc'[d] \in {"check_order", "approve_order"} => orders'[ord'[d]] # "approved"
                   /\ pc'[d] = "insert_sub" => orders'[ord'[d]] = "approved"
                   /\ pc'[d] \in Open => \A s \in SubIds : subs'[s].order # ord'[d]
        <4>1. CASE d = c
          BY <4>1, <3>1, <3>2 DEF OrderStages
        <4>2. CASE d # c
          BY <4>2, <1>2, <2>0, <3>1, <3>2, <3>3 DEF OrderStages, Same, Exclusive
        <4> QED BY <4>1, <4>2
      <3> QED
        BY <1>1, <3>1, <3>2, <3>3, <3>4 DEF OrderStages, OneSubscriptionPerOrder, Exists, Exclusive
    <2>2. CASE InsertSub(c)
      <3>1. pc[c] = "insert_sub" /\ ord[c] \in Orders /\ HoldsApproval(c)
        BY <1>2, <2>2 DEF InsertSub, At
      <3>2. PICK t \in SubIds : ~Exists(t) /\ subs' = [subs EXCEPT ![t] =
                [order |-> ord[c], price |-> snap[c], provision |-> "unprovisioned"]]
        BY <2>2 DEF InsertSub
      <3>3. UNCHANGED <<orders, keys>> /\ pc'[c] = "read_profile" /\ ord'[c] = ord[c]
        BY <2>2 DEF InsertSub, Goto
      <3>4. /\ subs'[t].order = ord[c] /\ \A s \in SubIds \ {t} : subs'[s] = subs[s]
            /\ \A s \in SubIds : Exists(s)' <=> Exists(s) \/ s = t
        BY <3>1, <3>2, DataAssumption DEF Exists, NoSub
      <3>5. ASSUME NEW d \in Calls
            PROVE  /\ pc'[d] \in {"check_order", "approve_order"} => orders'[ord'[d]] # "approved"
                   /\ pc'[d] = "insert_sub" => orders'[ord'[d]] = "approved"
                   /\ pc'[d] \in Open => \A s \in SubIds : subs'[s].order # ord'[d]
        <4>1. CASE d = c
          BY <4>1, <3>3
        <4>2. CASE d # c
          BY <4>2, <1>2, <2>0, <3>1, <3>3, <3>4 DEF OrderStages, Same, Exclusive
        <4> QED BY <4>1, <4>2
      <3>6. \A s \in SubIds : Exists(s)' => orders'[subs'[s].order] = "approved"
        BY <3>1, <3>3, <3>4 DEF OrderStages
      <3>7. OneSubscriptionPerOrder'
        BY <3>1, <3>4 DEF OrderStages, OneSubscriptionPerOrder
      <3> QED
        BY <3>3, <3>5, <3>6, <3>7 DEF OrderStages
    <2>3. CASE ~ApproveOrder(c) /\ ~InsertSub(c)
      <3>1. QuietStore
        <4>1. \A d \in Calls \ {c} : ~ApproveOrder(d) /\ ~InsertSub(d)
          BY <2>0 DEF ApproveOrder, InsertSub, Same, Moves, Goto, At
        <4> QED BY <2>3, <4>1, QuietSteps
      <3>2. /\ pc'[c] \in {"check_order", "approve_order"} => orders'[ord'[c]] # "approved"
            /\ pc'[c] = "insert_sub" => orders'[ord'[c]] = "approved"
            /\ pc'[c] \in Open => \A s \in SubIds : subs'[s].order # ord'[c]
        <4> USE DEF Moves, Replies, Reply, Goto, At
        <4>1. CASE StartApproval(c)
          <5>1. /\ ord[c] \in Orders /\ ord'[c] = ord[c] /\ pc'[c] = "check_order"
                /\ KeyOf(c) = ApprovalKey(ord[c]) /\ keys[KeyOf(c)].status = "absent"
            BY <2>0, <4>1, KeyOfCall DEF StartApproval, Claims, ControlOf, BeginState, Labels
          <5>2. orders[ord[c]] # "approved" /\ \A s \in SubIds : subs[s].order # ord[c]
            <6>1. orders[ord[c]] # "approved"
              BY <5>1 DEF OrderStages
            <6>2. ASSUME NEW s \in SubIds PROVE subs[s].order # ord[c]
              BY <1>1, <5>1, <6>1 DEF OrderStages
            <6> QED BY <6>1, <6>2
          <5> QED BY <3>1, <5>1, <5>2 DEF QuietStore
        <4>2. CASE CheckOrder(c)
          BY <1>2, <3>1, <4>2 DEF CheckOrder, OrderStages, QuietStore
        <4>3. CASE ReadPlan(c)
          BY <1>2, <3>1, <4>3 DEF ReadPlan, OrderStages, QuietStore, store
        <4>4. CASE ~StartApproval(c) /\ ~CheckOrder(c) /\ ~ReadPlan(c)
          <5>1. pc'[c] \notin Open
            BY <1>5, <2>3, <4>4 DEF Step, StartProvision, Claims, ReplayApproval, ReadProfile,
               InsertProfile, ReadSub, ReplayProvision, RecordPlan, Enqueue, BeginIntent, Refuse,
               CompleteRead, CompleteWrite, Fail
          <5> QED BY <5>1
        <4> QED BY <4>1, <4>2, <4>3, <4>4
      <3> QED
        BY <1>3, <1>4, <2>0, <3>1, <3>2
    <2> QED
      BY <2>1, <2>2, <2>3
  <1>6. ASSUME NEW c \in Calls,
               \/ \E o \in Orders, what \in Ops : InvokeOnOrder(c, o, what)
               \/ \E s \in SubIds : InvokeProvision(c, s)
        PROVE  OrderStages'
    <2>1. QuietStore
      BY <1>6 DEF InvokeOnOrder, InvokeProvision, store, QuietStore, Exists
    <2>2. pc'[c] \notin Open /\ \A d \in Calls \ {c} : Same(d)
      BY <1>6, OthersKeep DEF InvokeOnOrder, InvokeProvision, Entry, Goto
    <2> QED
      BY <1>3, <1>4, <2>1, <2>2
  <1>7. ASSUME UNCHANGED local PROVE OrderStages'
    <2>1. QuietStore
      BY <1>7, QuietSteps DEF local, ApproveOrder, InsertSub, Moves, Goto, At
    <2>2. \A d \in Calls : Same(d)
      BY <1>7 DEF local, Same
    <2> QED
      BY <1>3, <1>4, <2>1, <2>2
  <1> QED
    BY <1>5, <1>6, <1>7
    DEF Next, vars, MarkProvisionFailed, FlagDeliveryRetry, PlaceOrder, EditPlan

-----------------------------------------------------------------------------
(* Subscriptions stay. *)
LEMMA SubsStay ==
  ASSUME TypeOK, Control, DeliveryStages, [Next]_vars, NEW s \in SubIds, Exists(s)
  PROVE  Exists(s)'
  <1>1. CASE \E c \in Calls : ApproveOrder(c)
    BY <1>1 DEF ApproveOrder, Exists
  <1>2. CASE \E c \in Calls : InsertSub(c)
    <2>1. PICK c \in Calls, t \in SubIds : ~Exists(t) /\ subs' = [subs EXCEPT ![t] =
              [order |-> ord[c], price |-> snap[c], provision |-> "unprovisioned"]]
      BY <1>2 DEF InsertSub
    <2> QED BY <2>1 DEF Exists, TypeOK
  <1>3. CASE \A c \in Calls : ~ApproveOrder(c) /\ ~InsertSub(c)
    BY <1>3, QuietSteps DEF QuietStore
  <1> QED BY <1>1, <1>2, <1>3

LEMMA DeliveryStagesStep ==
  ASSUME TypeOK, Control, Exclusive, DeliveryStages, [Next]_vars
  PROVE  DeliveryStages'
  <1> DEFINE CallStage(d) ==
          /\ pc[d] \in ProvisionLabels \cup {"begin_provision"} => Exists(sub[d])
          /\ pc[d] = "record_plan" => intents[sub[d]] = 0
          /\ pc[d] = "enqueue" => intents[sub[d]] = 1 /\ messages[sub[d]] = 0
  <1> USE DEF TypeOK
  <1>0. \A s \in SubIds : keys[ProvisionKey(s)].status # "absent"
                          => keys'[ProvisionKey(s)].status # "absent"
    BY RowsStay, KeysDiffer
  <1>1. \A s \in SubIds : Exists(s) => Exists(s)'
    BY SubsStay
  <1>2. ASSUME NEW d \in Calls, pc[d] \in ProvisionLabels \cup {"begin_provision"}
        PROVE  /\ sub[d] \in SubIds
               /\ pc[d] # "begin_provision" => HoldsProvision(d)
    BY <1>2 DEF Control, ControlOf, HoldsProvision, ProvisionLabels
  <1>3. ASSUME NEW d \in Calls, Same(d), UNCHANGED <<intents, messages>>
        PROVE  CallStage(d)'
    <2>1. CASE pc[d] \in ProvisionLabels \cup {"begin_provision"}
      BY <1>1, <1>2, <1>3, <2>1 DEF Same, DeliveryStages
    <2>2. CASE pc[d] \notin ProvisionLabels \cup {"begin_provision"}
      BY <1>3, <2>2 DEF Same, ProvisionLabels
    <2> QED BY <2>1, <2>2
  <1>4. ASSUME UNCHANGED <<intents, messages>>, \A d \in Calls : CallStage(d)'
        PROVE  DeliveryStages'
    BY <1>0, <1>4 DEF DeliveryStages, OneDeliveryPerSubscription
  <1>5. ASSUME NEW c \in Calls, Step(c) \/ Fail(c) PROVE DeliveryStages'
    <2>0. (\A d \in Calls \ {c} : Same(d)) /\ ControlOf(c)
      BY <1>5, OthersKeep DEF Control
    <2>1. CASE RecordPlan(c)
      <3>1. pc[c] = "record_plan" /\ sub[c] \in SubIds /\ HoldsProvision(c)
        BY <1>2, <2>1 DEF RecordPlan, At, ProvisionLabels
      <3>2. /\ intents' = [intents EXCEPT ![sub[c]] = @ + 1] /\ UNCHANGED <<messages, keys>>
            /\ pc'[c] = "enqueue" /\ sub'[c] = sub[c]
        BY <2>1 DEF RecordPlan, Moves, Goto
      <3>3. intents[sub[c]] = 0 /\ intents'[sub[c]] = 1 /\ messages[sub[c]] = 0
        BY <3>1, <3>2 DEF DeliveryStages, OneDeliveryPerSubscription
      <3>4. ASSUME NEW d \in Calls PROVE CallStage(d)'
        <4>1. CASE d = c
          BY <1>1, <3>1, <3>2, <3>3, <4>1 DEF DeliveryStages, ProvisionLabels
        <4>2. CASE d # c /\ pc[d] \in ProvisionLabels
          BY <1>1, <1>2, <2>0, <3>1, <3>2, <4>2 DEF Same, DeliveryStages, Exclusive
        <4>3. CASE d # c /\ pc[d] \notin ProvisionLabels
          BY <1>1, <1>2, <2>0, <3>2, <4>3 DEF Same, DeliveryStages, ProvisionLabels
        <4> QED BY <4>1, <4>2, <4>3
      <3>5. \A s \in SubIds : keys'[ProvisionKey(s)].status = "absent" => intents'[s] = 0
        BY <3>1, <3>2 DEF DeliveryStages, Exclusive
      <3>6. OneDeliveryPerSubscription'
        BY <3>1, <3>2, <3>3 DEF DeliveryStages, OneDeliveryPerSubscription
      <3> QED BY <3>4, <3>5, <3>6 DEF DeliveryStages
    <2>2. CASE Enqueue(c)
      <3>1. pc[c] = "enqueue" /\ sub[c] \in SubIds /\ HoldsProvision(c)
        BY <1>2, <2>2 DEF Enqueue, At, ProvisionLabels
      <3>2. /\ messages' = [messages EXCEPT ![sub[c]] = @ + 1] /\ UNCHANGED <<intents, keys>>
            /\ pc'[c] = "complete_read"
        BY <2>2 DEF Enqueue, Moves, Goto
      <3>3. intents[sub[c]] = 1 /\ messages'[sub[c]] = 1
        BY <3>1, <3>2 DEF DeliveryStages
      <3>4. ASSUME NEW d \in Calls PROVE CallStage(d)'
        <4>1. CASE d = c
          BY <3>2, <4>1 DEF ProvisionLabels
        <4>2. CASE d # c /\ pc[d] \in ProvisionLabels
          BY <1>1, <1>2, <2>0, <3>1, <3>2, <4>2 DEF Same, DeliveryStages, Exclusive
        <4>3. CASE d # c /\ pc[d] \notin ProvisionLabels
          BY <1>1, <1>2, <2>0, <3>2, <4>3 DEF Same, DeliveryStages, ProvisionLabels
        <4> QED BY <4>1, <4>2, <4>3
      <3>5. OneDeliveryPerSubscription'
        BY <3>1, <3>2, <3>3 DEF DeliveryStages, OneDeliveryPerSubscription
      <3> QED BY <1>0, <3>2, <3>4, <3>5 DEF DeliveryStages
    <2>3. CASE ~RecordPlan(c) /\ ~Enqueue(c)
      <3> USE DEF Moves, Replies, Reply, Goto, At
      <3>1. UNCHANGED <<intents, messages>>
        BY <1>5, <2>3 DEF Step, StartApproval, StartProvision, Claims, ReplayApproval, CheckOrder,
           ApproveOrder, ReadPlan, InsertSub, ReadProfile, InsertProfile, ReadSub,
           ReplayProvision, BeginIntent, Refuse, CompleteRead, CompleteWrite, Fail, store
      <3>2. CallStage(c)'
        <4>1. CASE StartProvision(c)
          <5>1. /\ sub[c] \in SubIds /\ Exists(sub[c]) /\ sub'[c] = sub[c] /\ pc'[c] = "record_plan"
                /\ keys[ProvisionKey(sub[c])].status = "absent"
            BY <1>2, <2>0, <4>1, KeyOfCall
            DEF StartProvision, Claims, ControlOf, BeginState, Labels, DeliveryStages
          <5> QED BY <1>1, <3>1, <5>1 DEF DeliveryStages
        <4>2. CASE ReadSub(c)
          BY <1>1, <2>0, <4>2 DEF ReadSub, ControlOf, ProvisionLabels
        <4>3. CASE ~StartProvision(c) /\ ~ReadSub(c)
          <5>1. pc'[c] \notin ProvisionLabels \cup {"begin_provision"}
            BY <1>5, <2>3, <4>3 DEF Step, StartApproval, Claims, ReplayApproval, CheckOrder,
               ApproveOrder, ReadPlan, InsertSub, ReadProfile, InsertProfile,
               ReplayProvision, BeginIntent, Refuse, CompleteRead, CompleteWrite, Fail,
               ProvisionLabels
          <5> QED BY <5>1 DEF ProvisionLabels
        <4> QED BY <4>1, <4>2, <4>3
      <3> QED BY <1>3, <1>4, <2>0, <3>1, <3>2
    <2> QED BY <2>1, <2>2, <2>3
  <1>6. ASSUME NEW c \in Calls,
               \/ \E o \in Orders, what \in Ops : InvokeOnOrder(c, o, what)
               \/ \E s \in SubIds : InvokeProvision(c, s)
        PROVE  DeliveryStages'
    <2>1. UNCHANGED <<intents, messages>>
      BY <1>6 DEF InvokeOnOrder, InvokeProvision, store
    <2>2. pc'[c] \notin ProvisionLabels \cup {"begin_provision"} /\ \A d \in Calls \ {c} : Same(d)
      BY <1>6, OthersKeep DEF InvokeOnOrder, InvokeProvision, Entry, Goto, ProvisionLabels
    <2>3. CallStage(c)'
      BY <2>2 DEF ProvisionLabels
    <2> QED BY <1>3, <1>4, <2>1, <2>2, <2>3
  <1>7. ASSUME UNCHANGED <<local, intents, messages>> PROVE DeliveryStages'
    BY <1>3, <1>4, <1>7 DEF local, Same
  <1> QED
    BY <1>5, <1>6, <1>7
    DEF Next, vars, store, MarkProvisionFailed, FlagDeliveryRetry, PlaceOrder, EditPlan

-----------------------------------------------------------------------------
(* What a step may do to a row of the ledger: claim it when it is absent,   *)
(* or complete it under the key of the call.                                *)
LEMMA KeySteps ==
  ASSUME TypeOK, [Next]_vars, NEW k \in Keys
  PROVE  \/ keys'[k] = keys[k]
         \/ keys[k].status = "absent" /\ keys'[k].status = "in_progress"
         \/ \E c \in Calls : CompleteWrite(c) /\ KeyOf(c) = k
  <1> DEFINE Claimed == \/ keys'[k] = keys[k]
                        \/ keys[k].status = "absent" /\ keys'[k].status = "in_progress"
  <1> USE DEF TypeOK, KeyRow
  <1>1. ASSUME NEW c \in Calls, keys' = [keys EXCEPT ![KeyOf(c)] = Begun(@)]
        PROVE  Claimed
    <2>1. CASE k = KeyOf(c)
      BY <1>1, <2>1 DEF Begun
    <2>2. CASE k # KeyOf(c)
      BY <1>1, <2>2
    <2> QED BY <2>1, <2>2
  <1>2. ASSUME NEW c \in Calls, StartApproval(c) \/ StartProvision(c) \/ BeginIntent(c)
        PROVE  Claimed
    BY <1>1, <1>2 DEF StartApproval, StartProvision, Claims, BeginIntent, Replies, store
  <1>3. ASSUME NEW c \in Calls, CompleteWrite(c), KeyOf(c) # k
        PROVE  keys'[k] = keys[k]
    BY <1>3 DEF CompleteWrite
  <1>4. ASSUME NEW c \in Calls, Step(c) \/ Fail(c)
        PROVE  \/ StartApproval(c) \/ StartProvision(c) \/ BeginIntent(c) \/ CompleteWrite(c)
               \/ UNCHANGED keys
    BY <1>4 DEF Step, ReplayApproval, CheckOrder, ApproveOrder, ReadPlan, InsertSub, ReadProfile,
        InsertProfile, ReadSub, ReplayProvision, RecordPlan, Enqueue, Refuse, CompleteRead,
        Fail, Replies, store
  <1> QED
    BY <1>2, <1>3, <1>4 DEF Next, vars, store,
        InvokeOnOrder, InvokeProvision, MarkProvisionFailed, FlagDeliveryRetry, PlaceOrder, EditPlan

(* Whose key CompleteWrite completes: that of a holder, or of payment_flow. *)
LEMMA CompleterHolds ==
  ASSUME TypeOK, Control, NEW c \in Calls, CompleteWrite(c)
  PROVE  /\ \A o \in Orders : KeyOf(c) = ApprovalKey(o)
              => ord[c] = o /\ (HoldsApproval(c) \/ op[c] = "intent_approve")
         /\ \A s \in SubIds : KeyOf(c) = ProvisionKey(s) => sub[c] = s /\ HoldsProvision(c)
         /\ ~HoldsApproval(c)' /\ ~HoldsProvision(c)'
  <1>0. ControlOf(c) /\ pc[c] = "complete_write"
    BY DEF Control, CompleteWrite, At
  <1>1. \/ Approving(c) \/ Provisioning(c) \/ op[c] \in Intents
    BY <1>0 DEF ControlOf, CompleteLabels
  <1>2. /\ Approving(c) => HoldsApproval(c) /\ KeyOf(c) = ApprovalKey(ord[c])
        /\ Provisioning(c) => HoldsProvision(c) /\ KeyOf(c) = ProvisionKey(sub[c])
    BY <1>0, KeyOfCall DEF HoldsApproval, HoldsProvision, CompleteLabels, Labels
  <1>3. op[c] \in Intents =>
           /\ ord[c] \in Orders
           /\ op[c] = "intent_approve" => KeyOf(c) = ApprovalKey(ord[c])
           /\ op[c] = "intent_provision" => KeyOf(c) = ProvisionKey(ord[c])
    BY <1>0, KeyOfCall DEF Labels, KeyOf, Provisioning, Intents
  <1>4. /\ \A o \in Orders : KeyOf(c) = ApprovalKey(o)
              => ord[c] = o /\ (HoldsApproval(c) \/ op[c] = "intent_approve")
        /\ \A s \in SubIds : KeyOf(c) = ProvisionKey(s) => sub[c] = s /\ HoldsProvision(c)
    BY <1>1, <1>2, <1>3, KeysDiffer, DataAssumption DEF Intents
  <1>5. pc'[c] \in {"read_sub", "done"}
    BY DEF CompleteWrite, Reply, Goto, TypeOK
  <1> QED
    BY <1>4, <1>5 DEF HoldsApproval, HoldsProvision, ApprovalLabels, ProvisionLabels, CompleteLabels

(* Once payment_flow has been invoked on an order, it has been for good. *)
LEMMA IntentsStay ==
  ASSUME TypeOK, Control, [Next]_vars, NEW o \in Orders, OnlyServices(o)'
  PROVE  OnlyServices(o)
  <1> USE DEF TypeOK
  <1> SUFFICES ASSUME NEW e \in Calls, op[e] = "intent_approve" PROVE ord[e] # o
    BY DEF OnlyServices
  <1>0. pc[e] # "idle"
    BY DataAssumption DEF Control, ControlOf, AllOps
  <1>1. ASSUME NEW c \in Calls, Step(c) \/ Fail(c) PROVE op'[e] = op[e] /\ ord'[e] = ord[e]
    BY <1>1 DEF Step, StartApproval, StartProvision, Claims, ReplayApproval, CheckOrder,
        ApproveOrder, ReadPlan, InsertSub, ReadProfile, InsertProfile, ReadSub, ReplayProvision,
        RecordPlan, Enqueue, BeginIntent, Refuse, CompleteRead, CompleteWrite, Fail, Moves, Replies
  <1>2. ASSUME NEW c \in Calls,
               \/ \E x \in Orders, what \in Ops : InvokeOnOrder(c, x, what)
               \/ \E s \in SubIds : InvokeProvision(c, s)
        PROVE  op'[e] = op[e] /\ ord'[e] = ord[e]
    BY <1>0, <1>2 DEF InvokeOnOrder, InvokeProvision, At
  <1>3. op'[e] = op[e] /\ ord'[e] = ord[e]
    BY <1>1, <1>2 DEF Next, vars, local, MarkProvisionFailed, FlagDeliveryRetry, PlaceOrder, EditPlan
  <1> QED
    BY <1>3 DEF OnlyServices

LEMMA ClaimsAreOpenStep ==
  ASSUME TypeOK, Control, Exclusive, ClaimsAreOpen, [Next]_vars
  PROVE  ClaimsAreOpen'
  <1> SUFFICES ASSUME NEW d \in Calls
        PROVE  /\ HoldsApproval(d)' /\ OnlyServices(ord[d])'
                    => keys'[ApprovalKey(ord'[d])].status = "in_progress"
               /\ HoldsProvision(d)' => keys'[ProvisionKey(sub'[d])].status = "in_progress"
    BY DEF ClaimsAreOpen
  <1>1. ASSUME NEW c \in Calls, CompleteWrite(c)
        PROVE  /\ c = d => ~HoldsApproval(d)' /\ ~HoldsProvision(d)'
               /\ c # d => Same(d)
    BY <1>1, CompleterHolds, OthersKeep DEF Step
  <1>2. /\ HoldsApproval(d)' =>
              /\ ord'[d] = ord[d] /\ ord[d] \in Orders
              /\ \/ HoldsApproval(d)
                 \/ /\ keys[ApprovalKey(ord[d])].status = "absent"
                    /\ keys'[ApprovalKey(ord[d])].status # "absent"
        /\ HoldsProvision(d)' =>
              /\ sub'[d] = sub[d] /\ sub[d] \in SubIds
              /\ \/ HoldsProvision(d)
                 \/ /\ keys[ProvisionKey(sub[d])].status = "absent"
                    /\ keys'[ProvisionKey(sub[d])].status # "absent"
    <2>1. /\ HoldsApproval(d) => ord[d] \in Orders
          /\ HoldsProvision(d) => sub[d] \in SubIds
      BY DEF Control, ControlOf, HoldsApproval, HoldsProvision, Approving, Provisioning, Intents,
             ApprovalLabels, ProvisionLabels, CompleteLabels
    <2>2. CASE Same(d)
      BY <2>1, <2>2 DEF Same, HoldsApproval, HoldsProvision, Approving, Provisioning
    <2>3. CASE \/ Step(d) \/ Fail(d)
               \/ \E o \in Orders, what \in Ops : InvokeOnOrder(d, o, what)
               \/ \E s \in SubIds : InvokeProvision(d, s)
      BY <2>3, HolderSteps
    <2>4. CASE UNCHANGED local
      BY <2>2, <2>4 DEF local, Same
    <2>5. ASSUME NEW c \in Calls \ {d},
                 \/ Step(c) \/ Fail(c)
                 \/ \E o \in Orders, what \in Ops : InvokeOnOrder(c, o, what)
                 \/ \E s \in SubIds : InvokeProvision(c, s)
          PROVE  Same(d)
      BY <2>5, OthersKeep
    <2> QED
      BY <2>2, <2>3, <2>4, <2>5
      DEF Next, vars, MarkProvisionFailed, FlagDeliveryRetry, PlaceOrder, EditPlan
  <1>3. ASSUME HoldsApproval(d)', OnlyServices(ord[d])'
        PROVE  keys'[ApprovalKey(ord'[d])].status = "in_progress"
    <2>1. ord'[d] = ord[d] /\ ord[d] \in Orders /\ ApprovalKey(ord[d]) \in Keys
      BY <1>2, <1>3, KeysDiffer
    <2>2. OnlyServices(ord[d])
      <3>1. PICK o \in Orders : o = ord[d] /\ o = ord'[d]
        BY <2>1
      <3>2. OnlyServices(o)'
        BY <1>3, <3>1 DEF OnlyServices
      <3> QED BY <3>1, <3>2, IntentsStay
    <2>3. ASSUME NEW c \in Calls, CompleteWrite(c), KeyOf(c) = ApprovalKey(ord[d])
          PROVE  FALSE
      <3>1. ord[c] = ord[d] /\ (HoldsApproval(c) \/ op[c] = "intent_approve")
        BY <2>1, <2>3, CompleterHolds
      <3>2. HoldsApproval(c) /\ c # d /\ Same(d)
        BY <1>1, <1>3, <2>2, <2>3, <3>1 DEF OnlyServices
      <3>3. HoldsApproval(d)
        BY <1>3, <3>2 DEF Same, HoldsApproval, Approving
      <3> QED BY <3>1, <3>2, <3>3 DEF Exclusive
    <2>4. \/ keys'[ApprovalKey(ord[d])] = keys[ApprovalKey(ord[d])]
          \/ keys[ApprovalKey(ord[d])].status = "absent"
             /\ keys'[ApprovalKey(ord[d])].status = "in_progress"
      BY <2>1, <2>3, KeySteps
    <2> QED
      BY <1>2, <1>3, <2>1, <2>2, <2>4 DEF ClaimsAreOpen
  <1>4. ASSUME HoldsProvision(d)'
        PROVE  keys'[ProvisionKey(sub'[d])].status = "in_progress"
    <2>1. sub'[d] = sub[d] /\ sub[d] \in SubIds /\ ProvisionKey(sub[d]) \in Keys
      BY <1>2, <1>4, KeysDiffer
    <2>2. ASSUME NEW c \in Calls, CompleteWrite(c), KeyOf(c) = ProvisionKey(sub[d])
          PROVE  FALSE
      <3>1. sub[c] = sub[d] /\ HoldsProvision(c) /\ c # d /\ Same(d)
        BY <1>1, <1>4, <2>1, <2>2, CompleterHolds
      <3>2. HoldsProvision(d)
        BY <1>4, <3>1 DEF Same, HoldsProvision, Provisioning
      <3> QED BY <3>1, <3>2 DEF Exclusive
    <2>3. \/ keys'[ProvisionKey(sub[d])] = keys[ProvisionKey(sub[d])]
          \/ keys[ProvisionKey(sub[d])].status = "absent"
             /\ keys'[ProvisionKey(sub[d])].status = "in_progress"
      BY <2>1, <2>2, KeySteps
    <2> QED
      BY <1>2, <1>4, <2>1, <2>3 DEF ClaimsAreOpen
  <1> QED
    BY <1>3, <1>4

LEMMA InvStep == IInv /\ [Next]_vars => IInv'
  BY TypeStep, ControlStep, ExclusiveStep, OrderStagesStep, DeliveryStagesStep, ClaimsAreOpenStep
  DEF IInv

THEOREM Invariance == Spec => []IInv
  <1>1. IInv /\ [Next]_vars => IInv'
    BY InvStep
  <1> QED
    BY <1>1, InitInv, PTL DEF Spec

(* Every variable keeps its type, whatever calls run and wherever they fail. *)
THEOREM TypeCorrect == Spec => []TypeOK
  BY Invariance, PTL DEF IInv

(* However often and concurrently an order is approved, and wherever a call *)
(* dies, at most one subscription is made from it.                          *)
THEOREM AtMostOneSubscription == Spec => []OneSubscriptionPerOrder
  <1>1. IInv => OneSubscriptionPerOrder
    BY DEF IInv, OrderStages
  <1> QED
    BY <1>1, Invariance, PTL

(* A subscription is planned at most once and its delivery message queued   *)
(* at most once, after the plan.                                            *)
THEOREM AtMostOneDelivery == Spec => []OneDeliveryPerSubscription
  <1>1. IInv => OneDeliveryPerSubscription
    BY DEF IInv, DeliveryStages
  <1> QED
    BY <1>1, Invariance, PTL

(* What a replay answers stays: a completed claim of the services is never  *)
(* completed again with another result.                                     *)
THEOREM StableReplays == Spec => ReplaysAreStable
  <1> DEFINE Stable ==
        /\ \A o \in Orders :
              OnlyServices(o) /\ keys[ApprovalKey(o)].status = "completed"
                => keys'[ApprovalKey(o)] = keys[ApprovalKey(o)]
        /\ \A s \in SubIds :
              keys[ProvisionKey(s)].status = "completed"
                => keys'[ProvisionKey(s)] = keys[ProvisionKey(s)]
  <1>1. ASSUME IInv, [Next]_vars PROVE Stable
    <2>0. TypeOK /\ Control /\ ClaimsAreOpen
      BY <1>1 DEF IInv
    <2>1. ASSUME NEW o \in Orders, OnlyServices(o), keys[ApprovalKey(o)].status = "completed"
          PROVE  keys'[ApprovalKey(o)] = keys[ApprovalKey(o)]
      <3>1. ASSUME NEW c \in Calls, CompleteWrite(c), KeyOf(c) = ApprovalKey(o) PROVE FALSE
        BY <2>0, <2>1, <3>1, CompleterHolds DEF OnlyServices, ClaimsAreOpen
      <3> QED BY <1>1, <2>0, <2>1, <3>1, KeySteps, KeysDiffer
    <2>2. ASSUME NEW s \in SubIds, keys[ProvisionKey(s)].status = "completed"
          PROVE  keys'[ProvisionKey(s)] = keys[ProvisionKey(s)]
      <3>1. ASSUME NEW c \in Calls, CompleteWrite(c), KeyOf(c) = ProvisionKey(s) PROVE FALSE
        BY <2>0, <2>2, <3>1, CompleterHolds DEF ClaimsAreOpen
      <3> QED BY <1>1, <2>0, <2>2, <3>1, KeySteps, KeysDiffer
    <2> QED BY <2>1, <2>2
  <1>2. IInv /\ [Next]_vars => [Stable]_vars
    BY <1>1
  <1> QED
    BY <1>2, Invariance, PTL DEF Spec, ReplaysAreStable

(* What no step takes back: an approval, and what a subscription is of and  *)
(* for, and that it has been planned or has failed.                         *)
Ahead ==
    /\ \A o \in Orders : orders[o] = "approved" => orders'[o] = "approved"
    /\ \A s \in SubIds : Exists(s) =>
          /\ subs'[s].order = subs[s].order /\ subs'[s].price = subs[s].price
          /\ subs[s].provision # "unprovisioned" => subs'[s].provision # "unprovisioned"

LEMMA StepsGoAhead ==
  ASSUME IInv, [Next]_vars
  PROVE  Ahead
  <1> USE DEF Ahead
  <1> USE DEF TypeOK
  <1>0. TypeOK /\ Control /\ DeliveryStages
    BY DEF IInv
  <1>1. ASSUME UNCHANGED <<orders, subs>> PROVE Ahead
    BY <1>1
  <1>2. ASSUME NEW s \in SubIds, Exists(s), UNCHANGED orders,
               NEW status \in ProvisionStatuses \ {"unprovisioned"},
               subs' = [subs EXCEPT ![s] = Provisioned(@, status)]
        PROVE  Ahead
    <2>1. subs'[s] = [order |-> subs[s].order, price |-> subs[s].price, provision |-> status]
      BY <1>0, <1>2 DEF Provisioned
    <2>2. \A t \in SubIds \ {s} : subs'[t] = subs[t]
      BY <1>0, <1>2
    <2> QED BY <1>2, <2>1, <2>2
  <1>3. ASSUME NEW c \in Calls, RecordPlan(c) PROVE Ahead
    BY <1>0, <1>2, <1>3
    DEF RecordPlan, At, Control, ControlOf, DeliveryStages, ProvisionLabels, ProvisionStatuses
  <1>4. ASSUME NEW s \in SubIds, MarkProvisionFailed(s) PROVE Ahead
    BY <1>2, <1>4 DEF MarkProvisionFailed, ProvisionStatuses
  <1>5. ASSUME NEW o \in Orders, PlaceOrder(o) PROVE Ahead
    BY <1>0, <1>5 DEF PlaceOrder
  <1>6. ASSUME NEW c \in Calls, ApproveOrder(c) PROVE Ahead
    BY <1>0, <1>6 DEF ApproveOrder
  <1>7. ASSUME NEW c \in Calls, InsertSub(c) PROVE Ahead
    BY <1>0, <1>7 DEF InsertSub
  <1>8. ASSUME NEW c \in Calls, Step(c) \/ Fail(c),
               ~RecordPlan(c), ~ApproveOrder(c), ~InsertSub(c)
        PROVE  UNCHANGED <<orders, subs>>
    BY <1>8 DEF Step, StartApproval, StartProvision, Claims, ReplayApproval, CheckOrder, ReadPlan,
        ReadProfile, InsertProfile, ReadSub, ReplayProvision, Enqueue, BeginIntent, Refuse,
        CompleteRead, CompleteWrite, Fail, Replies, store
  <1> QED
    BY <1>1, <1>3, <1>4, <1>5, <1>6, <1>7, <1>8
    DEF Next, vars, store, InvokeOnOrder, InvokeProvision, FlagDeliveryRetry, EditPlan

(* Compensation and re-runs only move forward: an approved order stays      *)
(* approved, a subscription keeps its order and its price, and one that has *)
(* been planned or has failed is never unprovisioned again.                 *)
THEOREM Forward == Spec => ForwardOnly
  <1>1. IInv /\ [Next]_vars => [Ahead]_vars
    BY StepsGoAhead
  <1> QED
    BY <1>1, Invariance, PTL DEF Spec, ForwardOnly, Ahead

-----------------------------------------------------------------------------
(* The services implement FulfilmentPromise. *)

LEMMA QuietPromise ==
  ASSUME QuietStore
  PROVE  /\ {o \in Orders : orders'[o] = "approved"} = {o \in Orders : orders[o] = "approved"}
         /\ [o \in Orders |-> {s \in SubIds : subs'[s].order = o}]
                = [o \in Orders |-> {s \in SubIds : subs[s].order = o}]
  BY DEF QuietStore

LEMMA PromiseInit == Init => Promise!Init
  <1> SUFFICES ASSUME Init PROVE Promise!Init
    OBVIOUS
  <1>1. {o \in Orders : orders[o] = "approved"} = {}
    BY DEF Init
  <1>2. \A o \in Orders : {s \in SubIds : subs[s].order = o} = {}
    BY DataAssumption DEF Init, NoSub
  <1> QED
    BY <1>1, <1>2 DEF Init, Promise!Init

LEMMA PromiseStep ==
  ASSUME IInv, [Next]_vars
  PROVE  [Promise!Next]_(Promise!vars)
  <1> USE DEF TypeOK
  <1>0. TypeOK /\ Control /\ Exclusive /\ OrderStages /\ DeliveryStages
    BY DEF IInv
  <1>1. ASSUME QuietStore, UNCHANGED <<intents, messages>> PROVE UNCHANGED Promise!vars
    BY <1>1, QuietPromise DEF Promise!vars
  <1>2. ASSUME NEW c \in Calls, ApproveOrder(c) PROVE Promise!Next
    <2>1. PICK o \in Orders : o = ord[c] /\ orders[o] # "approved"
      BY <1>0, <1>2 DEF ApproveOrder, At, Control, ControlOf, ApprovalLabels, OrderStages
    <2>2. orders' = [orders EXCEPT ![o] = "approved"] /\ UNCHANGED <<subs, intents, messages>>
      BY <1>2, <2>1 DEF ApproveOrder
    <2>3. {x \in Orders : orders'[x] = "approved"}
            = {x \in Orders : orders[x] = "approved"} \cup {o}
      BY <1>0, <2>1, <2>2
    <2>4. Promise!Approve(o)
      BY <2>1, <2>2, <2>3 DEF Promise!Approve
    <2> QED BY <2>4 DEF Promise!Next
  <1>3. ASSUME NEW c \in Calls, InsertSub(c) PROVE Promise!Next
    <2>1. PICK o \in Orders : /\ o = ord[c] /\ orders[o] = "approved"
                              /\ \A s \in SubIds : subs[s].order # o
      BY <1>0, <1>3 DEF InsertSub, At, Control, ControlOf, ApprovalLabels, OrderStages
    <2>2. PICK t \in SubIds : ~Exists(t) /\ subs' = [subs EXCEPT ![t] =
              [order |-> o, price |-> snap[c], provision |-> "unprovisioned"]]
      BY <1>3, <2>1 DEF InsertSub
    <2>3. /\ subs[t].order \notin Orders
          /\ \A s \in SubIds : subs'[s].order = IF s = t THEN o ELSE subs[s].order
      BY <1>0, <2>2, DataAssumption DEF Exists, NoSub
    <2>4. [x \in Orders |-> {y \in SubIds : subs'[y].order = x}]
            = [[x \in Orders |-> {y \in SubIds : subs[y].order = x}] EXCEPT ![o] = {t}]
      BY <2>1, <2>3
    <2>5. UNCHANGED <<orders, intents, messages>>
      BY <1>3 DEF InsertSub
    <2>6. Promise!Make(o, t)
      BY <2>1, <2>3, <2>4, <2>5 DEF Promise!Make
    <2> QED BY <2>6 DEF Promise!Next
  <1>4. ASSUME NEW c \in Calls, RecordPlan(c) PROVE Promise!Next
    <2>1. sub[c] \in SubIds /\ subs[sub[c]].order \in Orders /\ intents[sub[c]] = 0
      BY <1>0, <1>4 DEF RecordPlan, At, Control, ControlOf, ProvisionLabels, DeliveryStages,
         Exists, Subscription
    <2>2. intents' = [intents EXCEPT ![sub[c]] = 1] /\ UNCHANGED messages
      BY <1>0, <1>4, <2>1 DEF RecordPlan
    <2>3. QuietStore
      <3>1. \A d \in Calls : ~ApproveOrder(d) /\ ~InsertSub(d)
        BY <1>0, <1>4, <2>1, <2>2 DEF ApproveOrder, InsertSub
      <3> QED BY <1>0, <3>1, QuietSteps
    <2>4. Promise!Plan(sub[c])
      BY <2>1, <2>2, <2>3, QuietPromise DEF Promise!Plan
    <2> QED BY <2>1, <2>4 DEF Promise!Next
  <1>5. ASSUME NEW c \in Calls, Enqueue(c) PROVE Promise!Next
    <2>1. sub[c] \in SubIds /\ intents[sub[c]] = 1 /\ messages[sub[c]] = 0
      BY <1>0, <1>5 DEF Enqueue, At, Control, ControlOf, ProvisionLabels, DeliveryStages
    <2>2. messages' = [messages EXCEPT ![sub[c]] = 1] /\ UNCHANGED <<orders, subs, intents>>
      BY <1>0, <1>5, <2>1 DEF Enqueue
    <2>3. Promise!Announce(sub[c])
      BY <2>1, <2>2 DEF Promise!Announce
    <2> QED BY <2>1, <2>3 DEF Promise!Next
  <1>6. ASSUME \A c \in Calls : /\ ~ApproveOrder(c) /\ ~InsertSub(c)
                                /\ ~RecordPlan(c) /\ ~Enqueue(c)
        PROVE  UNCHANGED Promise!vars
    <2>1. QuietStore
      BY <1>0, <1>6, QuietSteps
    <2>2. ASSUME NEW c \in Calls, Step(c) \/ Fail(c) PROVE UNCHANGED <<intents, messages>>
      BY <1>6, <2>2 DEF Step, StartApproval, StartProvision, Claims, ReplayApproval, CheckOrder,
         ReadPlan, ReadProfile, InsertProfile, ReadSub, ReplayProvision, BeginIntent, Refuse,
         CompleteRead, CompleteWrite, Fail, Replies, store
    <2>3. UNCHANGED <<intents, messages>>
      BY <2>2 DEF Next, vars, store, InvokeOnOrder, InvokeProvision, MarkProvisionFailed,
         FlagDeliveryRetry, PlaceOrder, EditPlan
    <2> QED BY <1>1, <2>1, <2>3
  <1> QED
    BY <1>2, <1>3, <1>4, <1>5, <1>6

(* Whatever the callers do, the services approve, fulfil, plan and announce *)
(* as the abstract specification allows: each once, and in that order.      *)
THEOREM Refinement == Spec => KeepsPromise
  <1>1. IInv /\ [Next]_vars => [Promise!Next]_(Promise!vars)
    BY PromiseStep
  <1> QED
    BY <1>1, PromiseInit, Invariance, PTL DEF Spec, KeepsPromise, Promise!Spec

-----------------------------------------------------------------------------
(* What the calls answer, and what their answers mean.                      *)

(* The inductive invariant, on top of IInv.  OneFirst follows a call from   *)
(* its claim to its answer: it is the only one that ever got that far with  *)
(* its order.  ApprovalChain and DeliveryChain say what is in the tables    *)
(* once a call is about to complete its claim, once the claim is completed, *)
(* and once a call has answered.                                            *)
Asked(c) == op[c] \in {"approve", "flow"}
Told(c) == Asked(c) /\ Answered(approval[c])
Worked(c) == HoldsApproval(c) \/ (Asked(c) /\ approval[c] = "fresh")

OneFirst ==
    /\ \A c \in Calls :
        Worked(c) => ord[c] \in Orders /\ keys[ApprovalKey(ord[c])].status # "absent"
    /\ \A c, d \in Calls : Worked(c) /\ Worked(d) /\ ord[c] = ord[d] => c = d

Completing(c) == pc[c] \in CompleteLabels

ApprovalChain ==
    /\ \A c \in Calls :
        /\ pc[c] \in {"read_profile", "insert_profile"} \/ (Completing(c) /\ Approving(c)) \/ Told(c)
            => sub[c] \in SubIds /\ ord[c] \in Orders /\ subs[sub[c]].order = ord[c]
        /\ Completing(c) /\ Approving(c) => profiles[CustomerOf[ord[c]]] >= 1
    /\ \A o \in Orders :
        LET row == keys[ApprovalKey(o)] IN
        /\ row.status = "completed" /\ row.ref \in SubIds
            => subs[row.ref].order = o /\ profiles[CustomerOf[o]] >= 1
        /\ row.status = "completed" /\ OnlyServices(o) => row.ref \in SubIds

DeliveryChain ==
    /\ \A s \in SubIds :
        /\ keys[ProvisionKey(s)].status = "completed" => messages[s] = 1
        /\ intents[s] = 1 => Exists(s) /\ subs[s].provision # "unprovisioned"
    /\ \A c \in Calls :
        /\ Completing(c) /\ Provisioning(c) => messages[sub[c]] = 1
        /\ Answered(provision[c]) => sub[c] \in SubIds /\ messages[sub[c]] = 1
        /\ provision[c] # "none" => pc[c] = "done"

\* A flow provisions only after a good approval.
FlowOf(c) ==
    /\ op[c] = "flow"
    /\ \/ pc[c] \in ProvisionLabels \cup {"read_sub", "begin_provision"}
       \/ Completing(c) /\ approval[c] # "none"
       \/ provision[c] # "none"
    => Answered(approval[c])
FlowOrder == \A c \in Calls : FlowOf(c)

AnswerInv == OneFirst /\ ApprovalChain /\ DeliveryChain /\ FlowOrder

-----------------------------------------------------------------------------
LEMMA AnswerInit == Init => AnswerInv
  <1> SUFFICES ASSUME Init PROVE AnswerInv
    OBVIOUS
  <1>1. OneFirst
    BY DataAssumption DEF Init, AllOps, OneFirst, Worked, Asked, HoldsApproval, Approving
  <1>2. ApprovalChain
    BY KeysDiffer DEF Init, ApprovalChain, Completing, CompleteLabels, Told, Answered, Absent
  <1>3. DeliveryChain
    BY KeysDiffer DEF Init, DeliveryChain, Completing, CompleteLabels, Answered, Absent
  <1>4. FlowOrder
    BY DataAssumption DEF Init, FlowOrder, FlowOf, AllOps
  <1> QED BY <1>1, <1>2, <1>3, <1>4 DEF AnswerInv

(* Profiles, plans and messages are only ever added. *)
LEMMA TablesGrow ==
  ASSUME TypeOK, Control, DeliveryStages, [Next]_vars
  PROVE  /\ \A u \in Customers : profiles'[u] >= profiles[u]
         /\ \A s \in SubIds : intents'[s] >= intents[s] /\ messages'[s] >= messages[s]
  <1> DEFINE Grow == /\ \A u \in Customers : profiles'[u] >= profiles[u]
                     /\ \A s \in SubIds : intents'[s] >= intents[s] /\ messages'[s] >= messages[s]
  <1> USE DEF TypeOK
  <1>1. ASSUME UNCHANGED <<profiles, intents, messages>> PROVE Grow
    BY <1>1
  <1>2. ASSUME NEW c \in Calls, InsertProfile(c) PROVE Grow
    BY <1>2 DEF InsertProfile
  <1>3. ASSUME NEW c \in Calls, RecordPlan(c) PROVE Grow
    BY <1>3 DEF RecordPlan
  <1>4. ASSUME NEW c \in Calls, Enqueue(c) PROVE Grow
    BY <1>4 DEF Enqueue
  <1>5. ASSUME NEW c \in Calls, Step(c) \/ Fail(c), ~InsertProfile(c), ~RecordPlan(c), ~Enqueue(c)
        PROVE  UNCHANGED <<profiles, intents, messages>>
    BY <1>5 DEF Step, StartApproval, StartProvision, Claims, ReplayApproval, CheckOrder, ReadPlan,
        ApproveOrder, InsertSub, ReadProfile, ReadSub, ReplayProvision, BeginIntent, Refuse,
        CompleteRead, CompleteWrite, Fail, Replies, store
  <1> QED
    BY <1>1, <1>2, <1>3, <1>4, <1>5 DEF Next, vars, store, InvokeOnOrder, InvokeProvision,
       MarkProvisionFailed, FlagDeliveryRetry, PlaceOrder, EditPlan

-----------------------------------------------------------------------------
(* A call that says it was the first on its order had the claim. *)
LEMMA FirstHeld ==
  ASSUME TypeOK, Control, NEW c \in Calls,
         \/ Step(c) \/ Fail(c)
         \/ \E o \in Orders, what \in Ops : InvokeOnOrder(c, o, what)
         \/ \E s \in SubIds : InvokeProvision(c, s),
         Asked(c)', approval'[c] = "fresh"
  PROVE  ord'[c] = ord[c] /\ Worked(c)
  <1> USE DEF TypeOK, Reply, Replies, Moves, Goto, At, Asked, Worked
  <1>0. ControlOf(c)
    BY DEF Control
  <1>1. CASE StartApproval(c)
    BY <1>1 DEF StartApproval, Claims
  <1>2. CASE ReplayApproval(c)
    BY <1>2 DEF ReplayApproval
  <1>3. CASE CheckOrder(c)
    BY <1>3 DEF CheckOrder
  <1>4. CASE ApproveOrder(c)
    BY <1>4 DEF ApproveOrder
  <1>5. CASE ReadPlan(c)
    BY <1>5 DEF ReadPlan
  <1>6. CASE InsertSub(c)
    BY <1>6 DEF InsertSub
  <1>7. CASE ReadProfile(c)
    BY <1>7 DEF ReadProfile
  <1>8. CASE InsertProfile(c)
    BY <1>8 DEF InsertProfile
  <1>9. CASE ReadSub(c)
    BY <1>9 DEF ReadSub
  <1>10. CASE StartProvision(c)
    BY <1>10 DEF StartProvision, Claims
  <1>11. CASE ReplayProvision(c)
    BY <1>11 DEF ReplayProvision
  <1>12. CASE RecordPlan(c)
    BY <1>12 DEF RecordPlan
  <1>13. CASE Enqueue(c)
    BY <1>13 DEF Enqueue
  <1>14. CASE BeginIntent(c)
    BY <1>0, <1>14 DEF BeginIntent, ControlOf, Intents
  <1>15. CASE Refuse(c)
    BY <1>15 DEF Refuse
  <1>16. CASE CompleteRead(c) \/ CompleteWrite(c)
    <2>1. ord'[c] = ord[c] /\ op'[c] = op[c] /\ pc[c] \in CompleteLabels
      BY <1>16 DEF CompleteRead, CompleteWrite, CompleteLabels
    <2>2. approval[c] = "fresh" \/ ~Provisioning(c)
      BY <1>16 DEF CompleteRead, CompleteWrite
    <2>3. ~Provisioning(c) => Approving(c)
      BY <1>0, <2>1 DEF ControlOf, CompleteLabels, Intents
    <2> QED BY <2>1, <2>2, <2>3 DEF HoldsApproval
  <1>18. CASE Fail(c)
    BY <1>18 DEF Fail
  <1>19. CASE \E o \in Orders, what \in Ops : InvokeOnOrder(c, o, what)
    BY <1>0, <1>19 DEF InvokeOnOrder, ControlOf
  <1>20. CASE \E s \in SubIds : InvokeProvision(c, s)
    BY <1>20 DEF InvokeProvision
  <1> QED
    BY <1>1, <1>2, <1>3, <1>4, <1>5, <1>6, <1>7, <1>8, <1>9, <1>10, <1>11, <1>12, <1>13, <1>14, <1>15, <1>16, <1>18, <1>19, <1>20 DEF Step

LEMMA OneFirstStep ==
  ASSUME TypeOK, Control, OneFirst, [Next]_vars
  PROVE  OneFirst'
  <1>0. \A o \in Orders : keys[ApprovalKey(o)].status # "absent"
                            => keys'[ApprovalKey(o)].status # "absent"
    BY RowsStay, KeysDiffer
  <1>1. ASSUME NEW d \in Calls, Same(d)
        PROVE  (Worked(d)' <=> Worked(d)) /\ ord'[d] = ord[d]
    BY <1>1 DEF Same, Worked, Asked, HoldsApproval, Approving
  <1>2. ASSUME NEW c \in Calls,
               \/ Step(c) \/ Fail(c)
               \/ \E o \in Orders, what \in Ops : InvokeOnOrder(c, o, what)
               \/ \E s \in SubIds : InvokeProvision(c, s)
        PROVE  OneFirst'
    <2>1. \A d \in Calls \ {c} : Same(d)
      BY <1>2, OthersKeep
    <2>2. Worked(c)' =>
                /\ ord'[c] = ord[c]
                /\ \/ Worked(c)
                   \/ /\ ord[c] \in Orders
                      /\ keys[ApprovalKey(ord[c])].status = "absent"
                      /\ keys'[ApprovalKey(ord[c])].status # "absent"
      BY <1>2, HolderSteps, FirstHeld DEF Worked
    <2>3. ASSUME NEW d \in Calls, Worked(d)'
          PROVE  ord'[d] \in Orders /\ keys'[ApprovalKey(ord'[d])].status # "absent"
      BY <1>0, <1>1, <2>1, <2>2, <2>3 DEF OneFirst
    <2>4. ASSUME NEW d \in Calls, NEW e \in Calls, Worked(d)', Worked(e)', ord'[d] = ord'[e]
          PROVE  d = e
      BY <1>1, <2>1, <2>2, <2>4 DEF OneFirst
    <2> QED BY <2>3, <2>4 DEF OneFirst
  <1>3. ASSUME UNCHANGED local PROVE OneFirst'
    BY <1>0, <1>1, <1>3 DEF local, Same, OneFirst
  <1> QED
    BY <1>2, <1>3 DEF Next, vars, MarkProvisionFailed, FlagDeliveryRetry, PlaceOrder, EditPlan

-----------------------------------------------------------------------------
(* One call has its subscription. *)
NeedsSub(c) ==
    pc[c] \in {"read_profile", "insert_profile"} \/ (Completing(c) /\ Approving(c)) \/ Told(c)
HasSub(c) ==
    /\ NeedsSub(c) => sub[c] \in SubIds /\ ord[c] \in Orders /\ subs[sub[c]].order = ord[c]
    /\ Completing(c) /\ Approving(c) => profiles[CustomerOf[ord[c]]] >= 1

LEMMA OwnSub ==
  ASSUME IInv, ApprovalChain, Ahead, [Next]_vars, NEW c \in Calls,
         \/ Step(c) \/ Fail(c)
         \/ \E o \in Orders, what \in Ops : InvokeOnOrder(c, o, what)
         \/ \E s \in SubIds : InvokeProvision(c, s)
  PROVE  HasSub(c)'
  <1> USE DEF TypeOK, Reply, Replies, Moves, Goto, At
  <1>0. TypeOK /\ ControlOf(c) /\ HasSub(c) /\ DeliveryStages /\ Control
    BY DEF IInv, Control, ApprovalChain, HasSub, NeedsSub
  <1>1. \A u \in Customers : profiles'[u] >= profiles[u]
    BY <1>0, TablesGrow
  <1>2. \A s \in SubIds : subs[s].order \in Orders => subs'[s].order = subs[s].order
    BY DataAssumption DEF Ahead, Exists, NoSub
  <1>3. \A o \in Orders : CustomerOf[o] \in Customers
    BY DataAssumption
  \* The step needs nothing that the call did not have.
  <1>4. ASSUME NeedsSub(c)' => NeedsSub(c), (Completing(c) /\ Approving(c))' => Completing(c) /\ Approving(c),
               ord'[c] = ord[c], sub'[c] = sub[c]
        PROVE  HasSub(c)'
    <2>1. CASE NeedsSub(c)'
      <3>1. /\ sub[c] \in SubIds /\ ord[c] \in Orders /\ subs'[sub[c]].order = ord[c]
            /\ profiles'[CustomerOf[ord[c]]] >= profiles[CustomerOf[ord[c]]]
        BY <1>0, <1>1, <1>2, <1>3, <1>4, <2>1 DEF HasSub
      <3>2. profiles[CustomerOf[ord[c]]] \in Nat /\ profiles'[CustomerOf[ord[c]]] \in Nat
        <4>1. TypeOK'
          BY <1>0, TypeStep
        <4> QED BY <1>0, <1>3, <3>1, <4>1
      <3> QED BY <1>0, <1>4, <3>1, <3>2 DEF HasSub
    <2>2. CASE ~NeedsSub(c)'
      BY <2>2 DEF HasSub, NeedsSub
    <2> QED BY <2>1, <2>2
  <1> USE DEF NeedsSub, Completing, CompleteLabels, Approving, Told, Asked, Answered
  <1>5. CASE InsertSub(c)
    <2>1. ord[c] \in Orders /\ Approving(c)
      BY <1>0, <1>5 DEF InsertSub, ControlOf, ApprovalLabels
    <2>2. PICK s \in SubIds :
              /\ subs' = [subs EXCEPT ![s] = [order |-> ord[c], price |-> snap[c],
                                              provision |-> "unprovisioned"]]
              /\ sub' = [sub EXCEPT ![c] = s]
      BY <1>5 DEF InsertSub
    <2>3. subs'[s].order = ord[c] /\ sub'[c] = s /\ ord'[c] = ord[c] /\ pc'[c] = "read_profile"
      BY <1>0, <1>5, <2>2 DEF InsertSub
    <2> QED BY <2>1, <2>3 DEF HasSub
  <1>6. CASE ReadProfile(c)
    <2>1. /\ ord[c] \in Orders /\ sub[c] \in SubIds /\ subs[sub[c]].order = ord[c]
          /\ ord' = ord /\ sub' = sub /\ subs' = subs /\ profiles' = profiles
          /\ pc'[c] \in CompleteLabels => profiles[CustomerOf[ord[c]]] > 0
      BY <1>0, <1>6 DEF ReadProfile, HasSub, store
    <2> QED BY <1>0, <1>3, <2>1 DEF HasSub
  <1>7. CASE InsertProfile(c)
    <2>1. /\ ord[c] \in Orders /\ sub[c] \in SubIds /\ subs[sub[c]].order = ord[c]
          /\ ord' = ord /\ sub' = sub /\ subs' = subs
          /\ profiles' = [profiles EXCEPT ![CustomerOf[ord[c]]] = @ + 1]
      BY <1>0, <1>7 DEF InsertProfile, HasSub
    <2>2. profiles'[CustomerOf[ord[c]]] >= 1
      BY <1>0, <1>3, <2>1
    <2> QED BY <2>1, <2>2 DEF HasSub
  <1>8. CASE ReplayApproval(c)
    <2>1. Approving(c) /\ ord[c] \in Orders /\ ord'[c] = ord[c] /\ op'[c] = op[c] /\ subs' = subs
      BY <1>0, <1>8 DEF ReplayApproval, ControlOf, store
    <2>2. KeyOf(c) = ApprovalKey(ord[c]) /\ keys[KeyOf(c)].status = "completed"
      BY <1>0, <1>8, <2>1, KeyOfCall, KeysDiffer DEF ReplayApproval, BeginState, Labels, KeyRow
    <2>3. CASE keys[KeyOf(c)].ref \in SubIds
      <3>1. subs[keys[KeyOf(c)].ref].order = ord[c]
        BY <2>1, <2>2, <2>3 DEF ApprovalChain
      <3>2. sub'[c] = keys[KeyOf(c)].ref /\ pc'[c] \in {"read_sub", "done"}
        BY <1>0, <1>8, <2>3 DEF ReplayApproval
      <3> QED BY <2>1, <2>3, <3>1, <3>2 DEF HasSub
    <2>4. CASE keys[KeyOf(c)].ref \notin SubIds
      <3>1. approval'[c] = "raised" /\ pc'[c] = "done"
        BY <1>0, <1>8, <2>1, <2>4 DEF ReplayApproval, Provisioning
      <3> QED BY <3>1 DEF HasSub
    <2> QED BY <2>3, <2>4
  <1>9. CASE CompleteRead(c) \/ CompleteWrite(c)
    <2>1. Approving(c) \/ Provisioning(c) \/ op[c] \in Intents
      BY <1>0, <1>9 DEF CompleteRead, CompleteWrite, ControlOf
    <2>2. ord' = ord /\ sub' = sub /\ op' = op
      BY <1>9 DEF CompleteRead, CompleteWrite
    <2>3. NeedsSub(c)' => NeedsSub(c)
      BY <1>0, <1>9, <2>1, <2>2 DEF CompleteRead, CompleteWrite, Intents
    <2>4. (Completing(c) /\ Approving(c))' => Completing(c) /\ Approving(c)
      BY <1>0, <1>9, <2>2 DEF CompleteRead, CompleteWrite, Provisioning
    <2> QED BY <1>4, <2>2, <2>3, <2>4
  <1>10. CASE StartApproval(c) \/ CheckOrder(c) \/ ApproveOrder(c) \/ ReadPlan(c)
    <2>1. ord[c] \in Orders /\ Approving(c)
      BY <1>0, <1>10 DEF StartApproval, Claims, CheckOrder, ApproveOrder, ReadPlan, ControlOf, ApprovalLabels
    <2>2. /\ pc'[c] \in {"check_order", "approve_order", "read_plan", "insert_sub", "done"}
          /\ approval'[c] \in {"none", "raised"}
      BY <1>0, <1>10, <2>1 DEF StartApproval, Claims, CheckOrder, ApproveOrder, ReadPlan, Provisioning
    <2> QED BY <2>2 DEF HasSub
  <1>11. CASE \/ ReadSub(c) \/ StartProvision(c) \/ ReplayProvision(c) \/ RecordPlan(c) \/ Enqueue(c)
    <2>1. Provisioning(c)
      BY <1>0, <1>11 DEF ReadSub, StartProvision, Claims, ReplayProvision, RecordPlan, Enqueue,
         ControlOf, ProvisionLabels
    <2>2. ord' = ord /\ sub' = sub /\ op' = op /\ approval' = approval
      BY <1>11, <2>1 DEF ReadSub, StartProvision, Claims, ReplayProvision, RecordPlan, Enqueue
    <2>3. pc'[c] \notin {"read_profile", "insert_profile"}
      BY <1>0, <1>11 DEF ReadSub, StartProvision, Claims, ReplayProvision, RecordPlan, Enqueue
    <2>4. ~Approving(c) /\ ~Approving(c)'
      BY <2>1, <2>2 DEF Provisioning
    <2> QED BY <1>4, <2>2, <2>3, <2>4
  <1>12. CASE BeginIntent(c)
    <2>1. op[c] \in Intents /\ op' = op /\ pc'[c] \in {"complete_read", "done"}
      BY <1>0, <1>12 DEF BeginIntent, ControlOf, Intents, Provisioning
    <2> QED BY <2>1 DEF HasSub, Intents
  <1>13. CASE Refuse(c) \/ Fail(c)
    <2>1. ord' = ord /\ sub' = sub /\ op' = op
      BY <1>13 DEF Refuse, Fail
    <2>2. pc'[c] = "done" /\ (approval'[c] = approval[c] \/ approval'[c] \in {"raised", "refused"})
      BY <1>0, <1>13 DEF Refuse, Fail
    <2> QED BY <1>4, <2>1, <2>2
  <1>14. CASE \/ \E o \in Orders, what \in Ops : InvokeOnOrder(c, o, what)
              \/ \E s \in SubIds : InvokeProvision(c, s)
    <2>1. pc'[c] \in {"begin_approval", "begin_intent", "read_sub"} /\ approval'[c] = "none"
      BY <1>0, <1>14 DEF InvokeOnOrder, InvokeProvision, Entry, ControlOf
    <2> QED BY <2>1 DEF HasSub
  <1> QED
    BY <1>5, <1>6, <1>7, <1>8, <1>9, <1>10, <1>11, <1>12, <1>13, <1>14 DEF Step

LEMMA ApprovalChainStep ==
  ASSUME IInv, ApprovalChain, [Next]_vars
  PROVE  ApprovalChain'
  <1>0. TypeOK /\ TypeOK' /\ Control /\ DeliveryStages /\ Ahead
    BY TypeStep, StepsGoAhead DEF IInv
  <1>1. \A o \in Orders : profiles[CustomerOf[o]] \in Nat /\ profiles'[CustomerOf[o]] \in Nat
                          /\ profiles'[CustomerOf[o]] >= profiles[CustomerOf[o]]
    BY <1>0, TablesGrow, DataAssumption DEF TypeOK
  <1>2. \A s \in SubIds : subs[s].order \in Orders => subs'[s].order = subs[s].order
    BY <1>0, DataAssumption DEF Ahead, Exists, NoSub
  <1>3. ASSUME NEW d \in Calls, Same(d) PROVE HasSub(d)'
    <2>1. NeedsSub(d)' => NeedsSub(d) /\ sub'[d] = sub[d] /\ ord'[d] = ord[d]
      BY <1>3 DEF Same, NeedsSub, Completing, CompleteLabels, Approving, Told, Asked
    <2>2. (Completing(d) /\ Approving(d))' => Completing(d) /\ Approving(d)
      BY <1>3 DEF Same, Completing, CompleteLabels, Approving
    <2>3. HasSub(d)
      BY DEF ApprovalChain, HasSub, NeedsSub
    <2>4. NeedsSub(d)' => sub'[d] \in SubIds /\ ord'[d] \in Orders /\ subs'[sub'[d]].order = ord'[d]
      BY <1>2, <2>1, <2>3 DEF HasSub
    <2>5. (Completing(d) /\ Approving(d))' => profiles'[CustomerOf[ord'[d]]] >= 1
      BY <1>1, <2>1, <2>2, <2>3, <2>4 DEF HasSub, NeedsSub
    <2> QED BY <2>4, <2>5 DEF HasSub
  <1>4. ASSUME NEW d \in Calls PROVE HasSub(d)'
    <2>1. CASE Same(d)
      BY <1>3, <2>1
    <2>2. CASE ~Same(d)
      <3>1. \/ Step(d) \/ Fail(d)
            \/ \E o \in Orders, what \in Ops : InvokeOnOrder(d, o, what)
            \/ \E s \in SubIds : InvokeProvision(d, s)
        <4>1. ASSUME UNCHANGED local PROVE FALSE
          BY <2>2, <4>1 DEF local, Same
        <4>2. ASSUME NEW c \in Calls,
                     \/ Step(c) \/ Fail(c)
                     \/ \E o \in Orders, what \in Ops : InvokeOnOrder(c, o, what)
                     \/ \E s \in SubIds : InvokeProvision(c, s)
              PROVE  c = d
          BY <1>0, <2>2, <4>2, OthersKeep
        <4> QED
          BY <4>1, <4>2 DEF Next, vars, MarkProvisionFailed, FlagDeliveryRetry, PlaceOrder, EditPlan
      <3> QED BY <1>0, <3>1, OwnSub
    <2> QED BY <2>1, <2>2
  <1>5. ASSUME NEW o \in Orders
        PROVE  LET row == keys'[ApprovalKey(o)] IN
               /\ row.status = "completed" /\ row.ref \in SubIds
                    => subs'[row.ref].order = o /\ profiles'[CustomerOf[o]] >= 1
               /\ row.status = "completed" /\ OnlyServices(o)' => row.ref \in SubIds
    <2> DEFINE k == ApprovalKey(o)
    <2>0. k \in Keys
      BY KeysDiffer
    <2>1. CASE keys'[k] = keys[k]
      BY <1>0, <1>1, <1>2, <2>1, IntentsStay DEF ApprovalChain
    <2>2. CASE keys'[k].status = "in_progress"
      BY <2>2
    <2>3. ASSUME NEW c \in Calls, CompleteWrite(c), KeyOf(c) = k
          PROVE  /\ keys'[k].ref \in SubIds
                      => subs'[keys'[k].ref].order = o /\ profiles'[CustomerOf[o]] >= 1
                 /\ OnlyServices(o)' => keys'[k].ref \in SubIds
      <3>1. keys'[k] = Completed(ResultRef(c)) /\ ord[c] = o /\ (HoldsApproval(c) \/ op[c] = "intent_approve")
        BY <1>0, <2>0, <2>3, CompleterHolds DEF CompleteWrite, TypeOK
      <3>2. keys'[k].ref = ResultRef(c)
        BY <3>1 DEF Completed
      <3>3. CASE op[c] = "intent_approve"
        BY <1>0, <3>1, <3>2, <3>3, IntentsStay, DataAssumption DEF ResultRef, OnlyServices
      <3>4. CASE HoldsApproval(c)
        <4>1. Completing(c) /\ Approving(c) /\ ResultRef(c) = sub[c]
          BY <2>3, <3>4 DEF HoldsApproval, CompleteWrite, At, Completing, CompleteLabels, Approving, ResultRef
        <4>2. sub[c] \in SubIds /\ subs[sub[c]].order = o /\ profiles[CustomerOf[o]] >= 1
          BY <3>1, <4>1 DEF ApprovalChain
        <4> QED BY <1>1, <1>2, <3>2, <4>1, <4>2
      <3> QED BY <3>1, <3>3, <3>4
    <2> QED BY <1>0, <2>0, <2>1, <2>2, <2>3, KeySteps
  <1> QED
    BY <1>4, <1>5 DEF ApprovalChain, HasSub, NeedsSub

-----------------------------------------------------------------------------
(* One call's delivery. *)
HasMessage(c) ==
    /\ Completing(c) /\ Provisioning(c) => messages[sub[c]] = 1
    /\ Answered(provision[c]) => sub[c] \in SubIds /\ messages[sub[c]] = 1
    /\ provision[c] # "none" => pc[c] = "done"

LEMMA OwnMessage ==
  ASSUME IInv, DeliveryChain, [Next]_vars, NEW c \in Calls,
         \/ Step(c) \/ Fail(c)
         \/ \E o \in Orders, what \in Ops : InvokeOnOrder(c, o, what)
         \/ \E s \in SubIds : InvokeProvision(c, s)
  PROVE  HasMessage(c)'
  <1> USE DEF TypeOK, Reply, Replies, Moves, Goto, At
  <1>0. TypeOK /\ ControlOf(c) /\ HasMessage(c) /\ DeliveryStages /\ Control
    BY DEF IInv, Control, DeliveryChain, HasMessage
  <1>1. provision[c] = "none"
    BY <1>0 DEF HasMessage, Step, StartApproval, StartProvision, Claims, ReplayApproval,
       CheckOrder, ApproveOrder, ReadPlan, InsertSub, ReadProfile, InsertProfile, ReadSub,
       ReplayProvision, RecordPlan, Enqueue, BeginIntent, Refuse, CompleteRead, CompleteWrite,
       Fail, InvokeOnOrder, InvokeProvision
  <1> USE DEF Completing, CompleteLabels, Answered
  \* Steps before the provisioning, and those of payment_flow.
  <1>2. ASSUME provision'[c] = "none", ~(Completing(c) /\ Provisioning(c))' PROVE HasMessage(c)'
    BY <1>2 DEF HasMessage
  <1>3. CASE Enqueue(c)
    <2>1. sub[c] \in SubIds /\ intents[sub[c]] = 1 /\ messages[sub[c]] = 0
      BY <1>0, <1>3 DEF Enqueue, ControlOf, ProvisionLabels, DeliveryStages
    <2>2. messages'[sub'[c]] = 1 /\ provision' = provision
      BY <1>0, <1>3, <2>1 DEF Enqueue
    <2> QED BY <1>1, <2>2 DEF HasMessage
  <1>4. CASE ReplayProvision(c)
    <2>1. sub[c] \in SubIds /\ KeyOf(c) = ProvisionKey(sub[c]) /\ keys[KeyOf(c)].status = "completed"
      BY <1>0, <1>4, KeyOfCall, KeysDiffer DEF ReplayProvision, BeginState, Labels, KeyRow, ControlOf
    <2>2. messages[sub[c]] = 1 /\ sub' = sub /\ messages' = messages /\ pc'[c] = "done"
      BY <1>0, <1>4, <2>1 DEF ReplayProvision, DeliveryChain, ControlOf, store
    <2> QED BY <2>1, <2>2 DEF HasMessage
  <1>5. CASE CompleteRead(c) \/ CompleteWrite(c)
    <2>1. sub' = sub /\ op' = op /\ messages' = messages
      BY <1>5 DEF CompleteRead, CompleteWrite, store
    <2>2. CASE Provisioning(c)
      <3>1. sub[c] \in SubIds /\ messages[sub[c]] = 1
        BY <1>0, <1>5, <2>2 DEF CompleteRead, CompleteWrite, HasMessage, ControlOf, Approving,
           Provisioning, Intents
      <3>2. provision'[c] # "none" => pc'[c] = "done"
        BY <1>0, <1>1, <1>5, <2>2 DEF CompleteRead, CompleteWrite
      <3> QED BY <2>1, <3>1, <3>2 DEF HasMessage
    <2>3. CASE ~Provisioning(c)
      <3>1. provision'[c] = "none"
        BY <1>0, <1>1, <1>5, <2>3 DEF CompleteRead, CompleteWrite
      <3>2. pc'[c] \in {"complete_read", "complete_write"} => ~Provisioning(c)'
        BY <1>0, <1>5, <2>3 DEF CompleteRead, CompleteWrite, Provisioning
      <3> QED BY <1>2, <3>1, <3>2
    <2> QED BY <2>2, <2>3
  <1>6. CASE \/ StartApproval(c) \/ ReplayApproval(c) \/ CheckOrder(c) \/ ApproveOrder(c)
             \/ ReadPlan(c) \/ InsertSub(c) \/ ReadProfile(c) \/ InsertProfile(c)
    <2>1. Approving(c) /\ ~Provisioning(c)
      BY <1>0, <1>6 DEF StartApproval, Claims, ReplayApproval, CheckOrder, ApproveOrder, ReadPlan,
         InsertSub, ReadProfile, InsertProfile, ControlOf, ApprovalLabels, Approving, Provisioning
    <2>2. provision'[c] = "none" /\ op'[c] = op[c] /\ (pc'[c] \in CompleteLabels => approval'[c] = approval[c])
      BY <1>0, <1>1, <1>6, <2>1 DEF StartApproval, Claims, ReplayApproval, CheckOrder, ApproveOrder,
         ReadPlan, InsertSub, ReadProfile, InsertProfile
    <2> QED BY <1>2, <2>1, <2>2 DEF Provisioning
  <1>7. CASE ReadSub(c) \/ StartProvision(c) \/ RecordPlan(c)
    <2>1. /\ pc'[c] \in {"begin_provision", "record_plan", "enqueue", "done"}
          /\ provision'[c] # "none" => pc'[c] = "done" /\ provision'[c] = "raised"
      BY <1>0, <1>1, <1>7 DEF ReadSub, StartProvision, Claims, RecordPlan, ControlOf
    <2> QED BY <2>1 DEF HasMessage
  <1>8. CASE BeginIntent(c)
    <2>1. op[c] \in Intents /\ op'[c] = op[c]
      BY <1>0, <1>8 DEF BeginIntent, ControlOf
    <2>2. provision'[c] = "none"
      BY <1>0, <1>1, <1>8, <2>1 DEF BeginIntent, Provisioning, Intents
    <2> QED BY <1>2, <2>1, <2>2 DEF Provisioning, Intents
  <1>9. CASE Refuse(c) \/ Fail(c)
    <2>1. pc'[c] = "done" /\ provision'[c] \in {"none", "refused", "raised"}
      BY <1>0, <1>1, <1>9 DEF Refuse, Fail
    <2> QED BY <2>1 DEF HasMessage
  <1>10. CASE \/ \E o \in Orders, what \in Ops : InvokeOnOrder(c, o, what)
              \/ \E s \in SubIds : InvokeProvision(c, s)
    <2>1. pc'[c] \notin CompleteLabels /\ provision'[c] = "none"
      BY <1>0, <1>1, <1>10 DEF InvokeOnOrder, InvokeProvision, Entry
    <2> QED BY <1>2, <2>1
  <1> QED
    BY <1>3, <1>4, <1>5, <1>6, <1>7, <1>8, <1>9, <1>10 DEF Step

LEMMA DeliveryChainStep ==
  ASSUME IInv, DeliveryChain, [Next]_vars
  PROVE  DeliveryChain'
  <1>0. TypeOK /\ TypeOK' /\ Control /\ DeliveryStages /\ DeliveryStages' /\ Ahead
    BY InvStep, StepsGoAhead DEF IInv
  <1>1. \A s \in SubIds : messages[s] = 1 => messages'[s] = 1
    <2>1. \A s \in SubIds : /\ messages[s] \in Nat /\ messages'[s] \in Nat /\ intents'[s] \in Nat
                            /\ messages'[s] >= messages[s]
      BY <1>0, TablesGrow DEF TypeOK
    <2>2. \A s \in SubIds : intents'[s] <= 1 /\ messages'[s] <= intents'[s]
      BY <1>0 DEF DeliveryStages, OneDeliveryPerSubscription
    <2> QED BY <2>1, <2>2
  <1>2. ASSUME NEW d \in Calls, Same(d) PROVE HasMessage(d)'
    <2>1. HasMessage(d) /\ ControlOf(d)
      BY <1>0 DEF DeliveryChain, HasMessage, Control
    <2>2. Completing(d) /\ Provisioning(d) => sub[d] \in SubIds
      BY <2>1 DEF ControlOf, Completing, CompleteLabels, Approving, Provisioning, Intents
    <2>3. /\ (Completing(d) /\ Provisioning(d))' => Completing(d) /\ Provisioning(d)
          /\ sub'[d] = sub[d] /\ provision'[d] = provision[d] /\ pc'[d] = pc[d]
      BY <1>2 DEF Same, Completing, CompleteLabels, Provisioning
    <2> QED BY <1>1, <2>1, <2>2, <2>3 DEF HasMessage
  <1>3. ASSUME NEW d \in Calls PROVE HasMessage(d)'
    <2>1. CASE Same(d)
      BY <1>2, <2>1
    <2>2. CASE ~Same(d)
      <3>1. ASSUME UNCHANGED local PROVE FALSE
        BY <2>2, <3>1 DEF local, Same
      <3>2. ASSUME NEW c \in Calls,
                   \/ Step(c) \/ Fail(c)
                   \/ \E o \in Orders, what \in Ops : InvokeOnOrder(c, o, what)
                   \/ \E s \in SubIds : InvokeProvision(c, s)
            PROVE  c = d
        BY <1>0, <2>2, <3>2, OthersKeep
      <3>3. \/ Step(d) \/ Fail(d)
            \/ \E o \in Orders, what \in Ops : InvokeOnOrder(d, o, what)
            \/ \E s \in SubIds : InvokeProvision(d, s)
        BY <3>1, <3>2 DEF Next, vars, MarkProvisionFailed, FlagDeliveryRetry, PlaceOrder, EditPlan
      <3> QED BY <3>3, OwnMessage
    <2> QED BY <2>1, <2>2
  <1>4. ASSUME NEW s \in SubIds, keys'[ProvisionKey(s)].status = "completed"
        PROVE  messages'[s] = 1
    <2>1. ASSUME NEW c \in Calls, CompleteWrite(c), KeyOf(c) = ProvisionKey(s)
          PROVE  messages[s] = 1
      <3>1. sub[c] = s /\ HoldsProvision(c)
        BY <1>0, <2>1, CompleterHolds
      <3> QED BY <2>1, <3>1 DEF HoldsProvision, CompleteWrite, At, DeliveryChain, Completing, CompleteLabels
    <2>2. keys[ProvisionKey(s)].status = "completed" => messages[s] = 1
      BY DEF DeliveryChain
    <2> QED BY <1>0, <1>1, <1>4, <2>1, <2>2, KeySteps, KeysDiffer
  <1>5. ASSUME NEW s \in SubIds, intents'[s] = 1
        PROVE  Exists(s)' /\ subs'[s].provision # "unprovisioned"
    <2>1. CASE intents[s] = 1
      BY <1>0, <2>1, SubsStay DEF DeliveryChain, Ahead
    <2>2. ASSUME NEW c \in Calls, RecordPlan(c), sub[c] = s
          PROVE  Exists(s)' /\ subs'[s].provision # "unprovisioned"
      BY <1>0, <2>2 DEF RecordPlan, TypeOK, Provisioned, Exists, NoSub
    <2>3. ASSUME \A c \in Calls : ~(RecordPlan(c) /\ sub[c] = s) PROVE intents'[s] = intents[s]
      <3>1. ASSUME NEW c \in Calls, RecordPlan(c) PROVE intents'[s] = intents[s]
        BY <1>0, <2>3, <3>1 DEF RecordPlan, TypeOK
      <3>2. ASSUME NEW c \in Calls, Step(c) \/ Fail(c), ~RecordPlan(c) PROVE UNCHANGED intents
        BY <3>2 DEF Step, StartApproval, StartProvision, Claims, ReplayApproval, CheckOrder,
           ApproveOrder, ReadPlan, InsertSub, ReadProfile, InsertProfile, ReadSub, ReplayProvision,
           Enqueue, BeginIntent, Refuse, CompleteRead, CompleteWrite, Fail, Replies, store
      <3> QED
        BY <3>1, <3>2 DEF Next, vars, store, InvokeOnOrder, InvokeProvision, MarkProvisionFailed,
           FlagDeliveryRetry, PlaceOrder, EditPlan
    <2> QED BY <1>5, <2>1, <2>2, <2>3
  <1> QED
    BY <1>3, <1>4, <1>5 DEF DeliveryChain, HasMessage

-----------------------------------------------------------------------------
LEMMA FlowOrderStep ==
  ASSUME TypeOK, Control, DeliveryChain, FlowOrder, [Next]_vars
  PROVE  FlowOrder'
  <1> USE DEF TypeOK, Reply, Replies, Moves, Goto, At, FlowOf, Completing, CompleteLabels,
              ProvisionLabels, Answered
  <1>1. ASSUME NEW d \in Calls, Same(d) PROVE FlowOf(d)'
    BY <1>1 DEF Same, FlowOrder
  <1>2. ASSUME NEW c \in Calls, Step(c) \/ Fail(c) PROVE FlowOf(c)'
    <2>0. FlowOf(c) /\ ControlOf(c)
      BY DEF FlowOrder, Control
    <2> USE DEF ControlOf, Approving, Provisioning, Intents
    <2>1. CASE StartApproval(c)
      BY <2>0, <2>1 DEF StartApproval, Claims, ApprovalLabels
    <2>2. CASE ReplayApproval(c)
      BY <2>0, <2>2 DEF ReplayApproval
    <2>3. CASE CheckOrder(c)
      BY <2>0, <2>3 DEF CheckOrder, ApprovalLabels
    <2>4. CASE ApproveOrder(c)
      BY <2>0, <2>4 DEF ApproveOrder, ApprovalLabels
    <2>5. CASE ReadPlan(c)
      BY <2>0, <2>5 DEF ReadPlan, ApprovalLabels
    <2>6. CASE InsertSub(c)
      BY <2>0, <2>6 DEF InsertSub, ApprovalLabels
    <2>7. CASE ReadProfile(c)
      BY <2>0, <2>7 DEF ReadProfile, ApprovalLabels
    <2>8. CASE InsertProfile(c)
      BY <2>0, <2>8 DEF InsertProfile, ApprovalLabels
    <2>9. CASE ReadSub(c)
      BY <2>0, <2>9 DEF ReadSub
    <2>10. CASE StartProvision(c)
      BY <2>0, <2>10 DEF StartProvision, Claims
    <2>11. CASE ReplayProvision(c)
      BY <2>0, <2>11 DEF ReplayProvision
    <2>12. CASE RecordPlan(c)
      BY <2>0, <2>12 DEF RecordPlan
    <2>13. CASE Enqueue(c)
      BY <2>0, <2>13 DEF Enqueue
    <2>14. CASE BeginIntent(c)
      BY <2>0, <2>14 DEF BeginIntent
    <2>15. CASE Refuse(c)
      BY <2>0, <2>15 DEF Refuse
    <2>16. CASE CompleteRead(c)
      BY <2>0, <2>16 DEF CompleteRead
    <2>17. CASE CompleteWrite(c)
      BY <2>0, <2>17 DEF CompleteWrite
    <2>18. CASE Fail(c)
      BY <2>0, <2>18 DEF Fail, ApprovalLabels, Labels
    <2> QED
      BY <1>2, <2>1, <2>2, <2>3, <2>4, <2>5, <2>6, <2>7, <2>8, <2>9, <2>10, <2>11, <2>12, <2>13, <2>14, <2>15, <2>16, <2>17, <2>18 DEF Step
  <1>3. ASSUME NEW c \in Calls,
               \/ \E o \in Orders, what \in Ops : InvokeOnOrder(c, o, what)
               \/ \E s \in SubIds : InvokeProvision(c, s)
        PROVE  FlowOf(c)'
    BY <1>3 DEF InvokeOnOrder, InvokeProvision, Entry, DeliveryChain
  <1>4. ASSUME UNCHANGED local PROVE FlowOrder'
    BY <1>1, <1>4 DEF local, Same, FlowOrder
  <1> QED
    BY <1>1, <1>2, <1>3, <1>4, OthersKeep
    DEF Next, vars, FlowOrder, MarkProvisionFailed, FlagDeliveryRetry, PlaceOrder, EditPlan

LEMMA AnswerStep == IInv /\ AnswerInv /\ [Next]_vars => AnswerInv'
  BY OneFirstStep, ApprovalChainStep, DeliveryChainStep, FlowOrderStep DEF IInv, AnswerInv

(* What calls have answered, what the ledger says is completed and what the *)
(* tables hold belong together at every moment.                             *)
THEOREM AnswerInvariance == Spec => []AnswerInv
  <1>1. Spec => [](IInv /\ AnswerInv)
    <2>1. IInv /\ AnswerInv /\ [Next]_vars => (IInv /\ AnswerInv)'
      BY InvStep, AnswerStep
    <2> QED
      BY <2>1, InitInv, AnswerInit, PTL DEF Spec
  <1> QED
    BY <1>1, PTL

LEMMA OneSubEach ==
  ASSUME IInv, NEW s \in SubIds, NEW t \in SubIds, NEW o \in Orders,
         subs[s].order = o, subs[t].order = o
  PROVE  s = t
  BY DataAssumption DEF IInv, OrderStages, OneSubscriptionPerOrder, Exists, NoSub

(* All calls that approved one order name the same subscription, which was  *)
(* made from it, and at most one of them says it was the first.             *)
THEOREM Agreement == Spec => []AnswersAgree
  <1>1. IInv /\ AnswerInv => AnswersAgree
    <2> SUFFICES ASSUME IInv, AnswerInv, NEW c \in Calls, NEW d \in Calls,
                        {op[c], op[d]} \subseteq {"approve", "flow"}, ord[c] = ord[d],
                        Answered(approval[c]), Answered(approval[d])
                 PROVE  /\ sub[c] = sub[d] /\ subs[sub[c]].order = ord[c]
                        /\ approval[c] = "fresh" /\ approval[d] = "fresh" => c = d
      BY DEF AnswersAgree
    <2>1. /\ sub[c] \in SubIds /\ sub[d] \in SubIds /\ ord[c] \in Orders
          /\ subs[sub[c]].order = ord[c] /\ subs[sub[d]].order = ord[c]
      BY DEF AnswerInv, ApprovalChain, Told, Asked
    <2>2. sub[c] = sub[d]
      BY <2>1, OneSubEach
    <2>3. approval[c] = "fresh" /\ approval[d] = "fresh" => c = d
      BY DEF AnswerInv, OneFirst, Worked, Asked
    <2> QED BY <2>1, <2>2, <2>3
  <1> QED
    BY <1>1, Invariance, AnswerInvariance, PTL

(* A completed approval whose result is a subscription has its order        *)
(* approved, its subscription and its customer's profile; a completed       *)
(* provisioning, and a call that answered one, has its one message queued.  *)
THEOREM Completeness == Spec => []CompletedMeansDone
  <1>1. IInv /\ AnswerInv => CompletedMeansDone
    <2> SUFFICES ASSUME IInv, AnswerInv PROVE CompletedMeansDone
      OBVIOUS
    <2>1. ASSUME NEW o \in Orders, keys[ApprovalKey(o)].status = "completed",
                 keys[ApprovalKey(o)].ref \in SubIds
          PROVE  /\ orders[o] = "approved" /\ subs[keys[ApprovalKey(o)].ref].order = o
                 /\ profiles[CustomerOf[o]] >= 1
      <3>1. subs[keys[ApprovalKey(o)].ref].order = o /\ profiles[CustomerOf[o]] >= 1
        BY <2>1 DEF AnswerInv, ApprovalChain
      <3>2. Exists(keys[ApprovalKey(o)].ref)
        BY <3>1, DataAssumption DEF Exists, NoSub
      <3> QED BY <2>1, <3>1, <3>2 DEF IInv, OrderStages
    <2>2. ASSUME NEW s \in SubIds, keys[ProvisionKey(s)].status = "completed"
          PROVE  Exists(s) /\ intents[s] = 1 /\ messages[s] = 1
      <3>1. messages[s] = 1 /\ intents[s] \in Nat /\ intents[s] <= 1 /\ messages[s] <= intents[s]
        BY <2>2 DEF AnswerInv, DeliveryChain, IInv, DeliveryStages, OneDeliveryPerSubscription, TypeOK
      <3> QED BY <3>1 DEF AnswerInv, DeliveryChain
    <2>3. \A c \in Calls : Answered(provision[c]) => messages[sub[c]] = 1
      BY DEF AnswerInv, DeliveryChain
    <2> QED BY <2>1, <2>2, <2>3 DEF CompletedMeansDone
  <1> QED
    BY <1>1, Invariance, AnswerInvariance, PTL

(* An order approved by a call that failed half way keeps its open claim:   *)
(* no later call can take it for done.                                      *)
THEOREM NothingLostSilently == Spec => []HalfDoneIsVisible
  <1>1. IInv /\ AnswerInv => HalfDoneIsVisible
    <2> SUFFICES ASSUME IInv, AnswerInv, NEW o \in Orders, orders[o] = "approved",
                        \A s \in SubIds : subs[s].order # o
                 PROVE  /\ keys[ApprovalKey(o)].status # "absent"
                        /\ OnlyServices(o) => keys[ApprovalKey(o)].status = "in_progress"
      BY DEF HalfDoneIsVisible
    <2>1. keys[ApprovalKey(o)].status # "absent"
      BY DEF IInv, OrderStages
    <2>2. OnlyServices(o) => keys[ApprovalKey(o)].status # "completed"
      BY DEF AnswerInv, ApprovalChain
    <2>3. keys[ApprovalKey(o)].status \in {"absent", "in_progress", "completed"}
      BY KeysDiffer DEF IInv, TypeOK, KeyRow, KeyStatuses
    <2> QED BY <2>1, <2>2, <2>3
  <1> QED
    BY <1>1, Invariance, AnswerInvariance, PTL

(* Whoever is told that an order is approved finds its subscription on the  *)
(* dashboard of the customer, and after its provisioning not as pending.    *)
THEOREM Shown == Spec => []AnswersAreShown
  <1>1. IInv /\ AnswerInv => AnswersAreShown
    <2> SUFFICES ASSUME IInv, AnswerInv, NEW c \in Calls, Told(c)
                 PROVE  /\ \E row \in customer_dashboard(CustomerOf[ord[c]]) :
                              /\ row.id = sub[c]
                              /\ Answered(provision[c]) => row.status # "pending"
                        /\ op[c] = "flow" /\ Answered(provision[c])
                              => \E line \in build_account_status(CustomerOf[ord[c]]) :
                                    line.provision # "unprovisioned"
      BY DEF AnswersAreShown, Told, Asked, AnswerInv, FlowOrder, FlowOf, Answered
    <2> DEFINE s == sub[c]
    <2>1. s \in SubIds /\ ord[c] \in Orders /\ subs[s].order = ord[c]
      BY DEF AnswerInv, ApprovalChain
    <2>2. Exists(s) /\ s \in SubscriptionsOf(CustomerOf[ord[c]])
      BY <2>1, DataAssumption DEF Exists, NoSub, SubscriptionsOf
    <2>3. Answered(provision[c]) => subs[s].provision # "unprovisioned"
      <3>1. SUFFICES ASSUME Answered(provision[c]) PROVE subs[s].provision # "unprovisioned"
        OBVIOUS
      <3>2. messages[s] = 1 /\ intents[s] \in Nat /\ intents[s] <= 1 /\ messages[s] <= intents[s]
        BY <2>1, <3>1 DEF AnswerInv, DeliveryChain, IInv, DeliveryStages,
           OneDeliveryPerSubscription, TypeOK
      <3> QED BY <2>1, <3>2 DEF AnswerInv, DeliveryChain
    <2>4. _subscription_summary(s).id = s
          /\ (subs[s].provision \notin {"unprovisioned", "pending"}
                => _subscription_summary(s).status # "pending")
      BY DEF _subscription_summary
    <2>5. subs[s].provision \in ProvisionStatuses
      BY <2>1, <2>2 DEF IInv, TypeOK, Exists, Subscription
    <2>6. _subscription_summary(s) \in customer_dashboard(CustomerOf[ord[c]])
      BY <2>2 DEF customer_dashboard
    <2>7. [status |-> "pending", provision |-> subs[s].provision]
              \in build_account_status(CustomerOf[ord[c]])
      BY <2>2 DEF build_account_status
    <2> QED BY <2>3, <2>4, <2>5, <2>6, <2>7 DEF ProvisionStatuses
  <1> QED
    BY <1>1, Invariance, AnswerInvariance, PTL

(* A dashboard takes nothing back: a subscription stays on it at its price, *)
(* and one that is not pending does not become pending again.               *)
THEOREM DashboardsGrow == Spec => DashboardsOnlyGrow
  <1> DEFINE Grows ==
        \A u \in Customers : \A row \in customer_dashboard(u) :
            \E later \in customer_dashboard(u)' :
                /\ later.id = row.id /\ later.price = row.price
                /\ row.status # "pending" => later.status # "pending"
  <1>1. ASSUME IInv, [Next]_vars PROVE Grows
    <2> SUFFICES ASSUME NEW u \in Customers, NEW row \in customer_dashboard(u)
                 PROVE  \E later \in customer_dashboard(u)' :
                            /\ later.id = row.id /\ later.price = row.price
                            /\ row.status # "pending" => later.status # "pending"
      OBVIOUS
    <2>1. PICK s \in SubIds : Exists(s) /\ CustomerOf[subs[s].order] = u
                              /\ row = _subscription_summary(s)
      BY DEF customer_dashboard, SubscriptionsOf
    <2>2. /\ subs'[s].order = subs[s].order /\ subs'[s].price = subs[s].price
          /\ subs[s].provision # "unprovisioned" => subs'[s].provision # "unprovisioned"
          /\ Exists(s)'
      BY <1>1, <2>1, StepsGoAhead, SubsStay DEF Ahead, IInv
    <2>3. subs'[s].provision \in ProvisionStatuses
      BY <1>1, <2>2, InvStep DEF IInv, TypeOK, Exists, Subscription
    <2>4. _subscription_summary(s)' \in customer_dashboard(u)'
      BY <2>1, <2>2 DEF customer_dashboard, SubscriptionsOf
    <2>5. /\ _subscription_summary(s)'.id = row.id /\ _subscription_summary(s)'.price = row.price
          /\ row.status # "pending" => _subscription_summary(s)'.status # "pending"
      BY <2>1, <2>2, <2>3 DEF _subscription_summary, ProvisionStatuses
    <2> QED BY <2>4, <2>5
  <1>2. IInv /\ [Next]_vars => [Grows]_vars
    BY <1>1
  <1> QED
    BY <1>2, Invariance, PTL DEF Spec, DashboardsOnlyGrow
=============================================================================
