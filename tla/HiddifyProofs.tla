---------------------------- MODULE HiddifyProofs ----------------------------
(* Theorems about Hiddify, for every set of calls and users, every number   *)
(* of retries and every choice of the calls that use an injected opener.    *)
EXTENDS Hiddify, FiniteSetTheorems, TLAPS

(* The inductive invariant.  Control ties a call's counters to its stage.   *)
Control ==
    \A c \in Calls :
        /\ given_up[c] + tries[c] <= Retries + (IF stage[c] = "failed" THEN 1 ELSE 0)
        /\ answer[c] # None => IsCreate(c) /\ stage[c] \in {"done", "ok"}
        /\ \A n \in 0 .. Retries : <<c, n>> \in late => stage[c] # "idle"

\* The attempts of a call that may still arrive.
LateOf(c) == {n \in 0 .. Retries : <<c, n>> \in late}

Answered(c) == IF stage[c] \in {"done", "ok"} THEN 1 ELSE 0

(* Making: a user was made by an attempt that was given up, one that still  *)
(* travels being counted ahead, or by the one that was answered for; and    *)
(* nobody else is taken for the maker of it.                                *)
Making ==
    /\ \A u \in Users : maker[u] # None => users[u] # "absent"
    /\ \A c \in Calls :
        /\ IsFiniteSet(MadeBy(c))
        /\ Cardinality(MadeBy(c)) + Cardinality(LateOf(c)) <= given_up[c] + Answered(c)
        /\ IsCreate(c) /\ stage[c] \in {"done", "ok"} => answer[c] \in MadeBy(c)

(* Knowing: nobody can ask for a user before a call has answered with it.   *)
Knowing ==
    /\ \A u \in Users : users[u] = "absent" => said[u] = "absent"
    /\ \A u \in Existing : said[u] # "absent"
    /\ \A c \in Calls :
        /\ ~IsCreate(c) => said[op[c].user] # "absent"
        /\ IsCreate(c) /\ stage[c] = "ok" => said[answer[c]] # "absent"
        /\ IsCreate(c) /\ stage[c] = "done" =>
            users[answer[c]] = "enabled" /\ said[answer[c]] = "absent"

(* Alone: a user that is not disputed has one call at it at most, no        *)
(* attempt on the way, and is as that call, or the last one, left it.       *)
Alone ==
    \A u \in Users \ disputed :
        /\ \A c \in Calls, n \in 0 .. Retries : <<c, n>> \in late => op[c].user # u
        /\ \A c, d \in Calls :
            InProgress(c) /\ InProgress(d) /\ op[c].user = u /\ op[d].user = u => c = d
        /\ \A c \in Calls : stage[c] = "done" /\ op[c].user = u => users[u] = op[c].want

IInv == TypeOK /\ Control /\ Making /\ Knowing /\ Alone /\ UndisputedIsAsSaid
-----------------------------------------------------------------------------
(* Counting: a set with one element more, or one less. *)
LEMMA OneMore ==
  ASSUME NEW S, IsFiniteSet(S), NEW x
  PROVE  /\ IsFiniteSet(S \cup {x})
         /\ Cardinality(S \cup {x}) \in Nat /\ Cardinality(S) \in Nat
         /\ Cardinality(S \cup {x}) <= Cardinality(S) + 1
  <1>1. Cardinality(S) \in Nat
    BY FS_CardinalityType
  <1>2. /\ IsFiniteSet(S \cup {x})
        /\ \/ Cardinality(S \cup {x}) = Cardinality(S)
           \/ Cardinality(S \cup {x}) = Cardinality(S) + 1
    BY FS_AddElement
  <1> QED BY <1>1, <1>2

LEMMA OneLess ==
  ASSUME NEW S, IsFiniteSet(S), NEW x \in S
  PROVE  /\ IsFiniteSet(S \ {x})
         /\ Cardinality(S \ {x}) \in Nat /\ Cardinality(S) \in Nat
         /\ Cardinality(S \ {x}) = Cardinality(S) - 1
  <1>1. /\ IsFiniteSet(S \ {x})
        /\ Cardinality(S \ {x}) = Cardinality(S) - 1
    BY FS_RemoveElement
  <1> QED BY <1>1, FS_CardinalityType

LEMMA LateFinite ==
  ASSUME NEW c \in Calls
  PROVE  IsFiniteSet(LateOf(c)) /\ Cardinality(LateOf(c)) \in Nat
  <1>1. IsFiniteSet(0 .. Retries)
    BY HiddifyAssumption, FS_Interval
  <1>2. LateOf(c) \subseteq 0 .. Retries
    BY DEF LateOf
  <1> QED BY <1>1, <1>2, FS_Subset, FS_CardinalityType

(* What a call asks for: a POST, or a change of a user. *)
LEMMA CreateOrChange ==
  ASSUME TypeOK, NEW c \in Calls
  PROVE  /\ IsCreate(c) => op[c] = NoOp /\ op[c].want = "enabled"
         /\ ~IsCreate(c) => op[c] \in Changes /\ op[c].user \in Users /\ op[c].want \in Wants
  <1>1. op[c] \in Changes \/ op[c] = NoOp
    BY DEF TypeOK, Create
  <1>2. op[c] \in Changes => op[c].user \in Users /\ op[c].want \in Wants
    BY DEF Changes
  <1>3. op[c] = NoOp => op[c].user = None /\ op[c].want = "enabled"
    BY DEF NoOp
  <1> QED BY <1>1, <1>2, <1>3, HiddifyAssumption DEF IsCreate

-----------------------------------------------------------------------------
(* What the node does with a request: it gives a uuid nobody has had, or      *)
(* changes the user the request names.                                        *)
LEMMA ApplyEffects ==
  ASSUME TypeOK, Making, Knowing, NEW c \in Calls, NEW u \in Users, Apply(c, u)
  PROVE  /\ users' \in [Users -> Wants \cup {"absent"}]
         /\ maker' \in [Users -> Calls \cup {None}]
         /\ users'[u] = op[c].want /\ \A v \in Users \ {u} : users'[v] = users[v]
         /\ users'[u] # "absent"
         /\ IsCreate(c) => /\ users[u] = "absent" /\ said[u] = "absent" /\ maker[u] = None
                           /\ users'[u] = "enabled" /\ maker' = [maker EXCEPT ![u] = c]
         /\ ~IsCreate(c) => /\ u = op[c].user /\ said[u] # "absent" /\ users[u] # "absent"
                            /\ maker' = maker
  <1>1. users \in [Users -> Wants \cup {"absent"}] /\ maker \in [Users -> Calls \cup {None}]
    BY DEF TypeOK
  <1>2. CASE IsCreate(c)
    <2>1. u = NewUser /\ users' = [users EXCEPT ![u] = "enabled"] /\ maker' = [maker EXCEPT ![u] = c]
      BY <1>2 DEF Apply
    <2>2. users[u] = "absent"
      <3> DEFINE new == {v \in Users : users[v] = "absent"}
      <3>1. new # {}
        BY <2>1, HiddifyAssumption DEF NewUser
      <3>2. u = CHOOSE v \in new : TRUE
        BY <2>1, <3>1 DEF NewUser
      <3> QED BY <3>1, <3>2
    <2>3. said[u] = "absent" /\ maker[u] = None
      BY <2>2 DEF Knowing, Making
    <2>4. op[c].want = "enabled" /\ "enabled" \in Wants
      BY <1>2, CreateOrChange DEF Wants
    <2> QED BY <1>1, <1>2, <2>1, <2>2, <2>3, <2>4
  <1>3. CASE ~IsCreate(c)
    <2>1. /\ u = op[c].user /\ users[u] \in {"enabled", "disabled"}
          /\ users' = [users EXCEPT ![u] = op[c].want] /\ maker' = maker
      BY <1>3 DEF Apply
    <2>2. op[c].want \in Wants /\ "absent" \notin Wants
      BY <1>3, CreateOrChange DEF Wants
    <2>3. said[u] # "absent"
      BY <1>3, <2>1 DEF Knowing
    <2> QED BY <1>1, <1>3, <2>1, <2>2, <2>3
  <1> QED BY <1>2, <1>3

(* A uuid nobody had becomes that call's; nobody else gains or loses one. *)
LEMMA MadeGrows ==
  ASSUME TypeOK, Making, NEW c \in Calls, NEW u \in Users, maker[u] = None,
         maker' = [maker EXCEPT ![u] = c]
  PROVE  /\ MadeBy(c)' = MadeBy(c) \cup {u}
         /\ \A d \in Calls \ {c} : MadeBy(d)' = MadeBy(d)
  BY HiddifyAssumption DEF TypeOK, MadeBy

-----------------------------------------------------------------------------
(* How an attempt ends that brings no success: it never left, was given up or *)
(* was refused; and the call goes on to the next one or has failed.           *)
AttemptEnds(c) ==
    /\ InProgress(c)
    /\ \/ stage' = [stage EXCEPT ![c] = "sent"] /\ tries[c] > 0
          /\ tries' = [tries EXCEPT ![c] = tries[c] - 1]
       \/ stage' = [stage EXCEPT ![c] = "failed"] /\ tries' = tries
          /\ (op[c].user \in disputed' \/ IsCreate(c))
          /\ (given_up' = given_up \/ tries[c] = 0)
    /\ \/ late' = late
       \/ /\ late' = late \cup {<<c, tries[c]>>} /\ stage[c] = "sent"
          /\ op[c].user \in disputed' \/ IsCreate(c)
          /\ given_up' # given_up
    /\ \/ answer' = answer /\ stage[c] # "done" /\ given_up' = given_up
       \/ answer' = [answer EXCEPT ![c] = None]
          /\ given_up' = [given_up EXCEPT ![c] = given_up[c] + 1]
    /\ disputed \subseteq disputed' /\ disputed' \subseteq Users
    /\ faults' \in 0 .. MaxFaults
    /\ UNCHANGED <<users, maker, op, said>>

LEMMA DisputeEffects ==
  ASSUME TypeOK, NEW c \in Calls
  PROVE  DisputeIfOver(c) => /\ disputed \subseteq disputed' /\ disputed' \subseteq Users
                             /\ tries[c] = 0 => op[c].user \in disputed' \/ IsCreate(c)
  BY CreateOrChange, HiddifyAssumption DEF Dispute, DisputeIfOver, TypeOK, IsCreate

LEMMA RetryEffects ==
  ASSUME TypeOK, NEW c \in Calls, Retry(c)
  PROVE  \/ stage' = [stage EXCEPT ![c] = "sent"] /\ tries[c] > 0
             /\ tries' = [tries EXCEPT ![c] = tries[c] - 1]
         \/ stage' = [stage EXCEPT ![c] = "failed"] /\ tries' = tries /\ tries[c] = 0
  BY HiddifyAssumption DEF Retry, Goto, TypeOK

LEMMA EndsSo ==
  ASSUME TypeOK, NEW c \in Calls, NotSent(c) \/ GiveUp(c) \/ ReceiveRefusal(c)
  PROVE  AttemptEnds(c)
  <1> USE HiddifyAssumption
  <1>1. CASE NotSent(c)
    <2>1. Retry(c) /\ DisputeIfOver(c) /\ stage[c] = "sent"
          /\ UNCHANGED <<users, maker, late, op, answer, given_up, said, faults>>
      BY <1>1 DEF NotSent, node
    <2>2. faults' \in 0 .. MaxFaults
      BY <2>1 DEF TypeOK
    <2>3. /\ disputed \subseteq disputed' /\ disputed' \subseteq Users
          /\ tries[c] = 0 => op[c].user \in disputed' \/ IsCreate(c)
      BY <2>1, DisputeEffects
    <2>4. \/ stage' = [stage EXCEPT ![c] = "sent"] /\ tries[c] > 0
             /\ tries' = [tries EXCEPT ![c] = tries[c] - 1]
          \/ stage' = [stage EXCEPT ![c] = "failed"] /\ tries' = tries /\ tries[c] = 0
      BY <2>1, RetryEffects
    <2> QED BY <2>1, <2>2, <2>3, <2>4 DEF AttemptEnds, InProgress
  <1>2. CASE GiveUp(c)
    <2>1. /\ InProgress(c) /\ Retry(c) /\ faults < MaxFaults /\ faults' = faults + 1
          /\ \/ late' = late /\ DisputeIfOver(c)
             \/ stage[c] = "sent" /\ late' = late \cup {<<c, tries[c]>>} /\ Dispute(op[c].user)
          /\ given_up' = [given_up EXCEPT ![c] = given_up[c] + 1]
          /\ answer' = [answer EXCEPT ![c] = None]
          /\ UNCHANGED <<users, maker, op, said>>
      BY <1>2 DEF GiveUp, node, Unanswered
    <2>2. faults' \in 0 .. MaxFaults
      BY <2>1 DEF TypeOK
    <2>3. given_up' # given_up
      BY <2>1 DEF TypeOK
    <2>4. /\ disputed \subseteq disputed' /\ disputed' \subseteq Users
          /\ tries[c] = 0 => op[c].user \in disputed' \/ IsCreate(c)
          /\ late' # late => op[c].user \in disputed' \/ IsCreate(c)
      <3>1. CASE late' = late /\ DisputeIfOver(c)
        BY <3>1, DisputeEffects
      <3>2. CASE Dispute(op[c].user)
        BY <3>2, CreateOrChange, HiddifyAssumption DEF Dispute, TypeOK, IsCreate
      <3> QED BY <2>1, <3>1, <3>2
    <2> QED BY <2>1, <2>2, <2>3, <2>4, RetryEffects DEF AttemptEnds
  <1>3. CASE ReceiveRefusal(c)
    <2>1. /\ stage[c] = "refused"
          /\ UNCHANGED <<users, maker, late, op, answer, given_up, said, faults>>
          /\ IF c \in Injected THEN Goto(c, "failed") /\ tries' = tries ELSE Retry(c)
          /\ IF c \in Injected THEN Dispute(op[c].user) ELSE DisputeIfOver(c)
      BY <1>3 DEF ReceiveRefusal, node
    <2>0. faults' \in 0 .. MaxFaults
      BY <2>1 DEF TypeOK
    <2>2. CASE c \in Injected
      <3>1. /\ disputed \subseteq disputed' /\ disputed' \subseteq Users
            /\ op[c].user \in disputed' \/ IsCreate(c)
        BY <2>1, <2>2, CreateOrChange, HiddifyAssumption DEF Dispute, TypeOK, IsCreate
      <3> QED BY <2>0, <2>1, <2>2, <3>1 DEF AttemptEnds, InProgress, Goto
    <2>3. CASE c \notin Injected
      <3>1. /\ disputed \subseteq disputed' /\ disputed' \subseteq Users
            /\ tries[c] = 0 => op[c].user \in disputed' \/ IsCreate(c)
        BY <2>1, <2>3, DisputeEffects
      <3>2. \/ stage' = [stage EXCEPT ![c] = "sent"] /\ tries[c] > 0
               /\ tries' = [tries EXCEPT ![c] = tries[c] - 1]
            \/ stage' = [stage EXCEPT ![c] = "failed"] /\ tries' = tries /\ tries[c] = 0
        BY <2>1, <2>3, RetryEffects
      <3> QED BY <2>0, <2>1, <3>1, <3>2 DEF AttemptEnds, InProgress
    <2> QED BY <2>2, <2>3
  <1> QED BY <1>1, <1>2, <1>3

-----------------------------------------------------------------------------
LEMMA InitEstablishes == Init => IInv
  <1> SUFFICES ASSUME Init PROVE IInv
    OBVIOUS
  <1> USE HiddifyAssumption
  <1>1. TypeOK
    BY DEF Init, TypeOK, Wants, Stages, Changes, Create, NoOp
  <1>2. Control
    BY DEF Init, Control
  <1>3. ASSUME NEW c \in Calls
        PROVE  /\ IsFiniteSet(MadeBy(c)) /\ Cardinality(MadeBy(c)) = 0
               /\ Cardinality(LateOf(c)) = 0 /\ given_up[c] = 0 /\ Answered(c) = 0
               /\ stage[c] = "idle" /\ IsCreate(c)
    <2>1. MadeBy(c) = {} /\ LateOf(c) = {}
      BY DEF Init, MadeBy, LateOf
    <2> QED BY <2>1, FS_EmptySet DEF Init, Answered, IsCreate, NoOp
  <1>4. Making
    BY <1>3 DEF Init, Making
  <1>5. Knowing
    BY <1>3 DEF Init, Knowing
  <1>6. Alone /\ UndisputedIsAsSaid
    BY <1>3 DEF Init, Alone, UndisputedIsAsSaid, InProgress
  <1> QED BY <1>1, <1>2, <1>4, <1>5, <1>6 DEF IInv

(* A call goes out: the user it names is known, and disputed if another call  *)
(* is at it.                                                                  *)
LEMMA CallKeeps ==
  ASSUME IInv, NEW c \in Calls, Call(c)
  PROVE  IInv'
  <1> USE HiddifyAssumption
  <1>1. PICK o \in {Create} \cup {change \in Changes : change.user \in Known} :
          /\ op' = [op EXCEPT ![c] = o]
          /\ IF \E d \in Calls : InProgress(d) /\ op[d].user = o.user
             THEN Dispute(o.user) ELSE disputed' = disputed
    BY DEF Call
  <1>2. /\ stage[c] = "idle" /\ stage' = [stage EXCEPT ![c] = "sent"]
        /\ UNCHANGED <<users, maker, late, tries, answer, given_up, said, faults>>
    BY DEF Call, node, Goto
  <1>3. /\ op'[c] = o /\ stage'[c] = "sent"
        /\ \A d \in Calls \ {c} : op'[d] = op[d] /\ stage'[d] = stage[d]
    BY <1>1, <1>2 DEF IInv, TypeOK
  <1>4. \/ o = NoOp
        \/ o \in Changes /\ o.user \in Users /\ o.user \in Known
    BY <1>1 DEF Create, Changes
  <1>5. o \in Changes => said[o.user] # "absent"
    <2> SUFFICES ASSUME o \in Changes PROVE said[o.user] # "absent"
      OBVIOUS
    <2>1. o.user \in Known
      BY <1>4, HiddifyAssumption DEF NoOp, Changes
    <2>2. CASE o.user \in Existing
      BY <2>2 DEF IInv, Knowing
    <2>3. CASE o.user \notin Existing
      <3>1. PICK d \in Calls : stage[d] = "ok" /\ o.user = answer[d] /\ answer[d] # None
        BY <2>1, <2>3 DEF Known
      <3>2. IsCreate(d)
        BY <3>1 DEF IInv, Control
      <3> QED BY <3>1, <3>2 DEF IInv, Knowing
    <2> QED BY <2>2, <2>3
  <1>6. disputed \subseteq disputed' /\ disputed' \subseteq Users
    BY <1>1, <1>4 DEF Dispute, IInv, TypeOK, NoOp
  <1>7. TypeOK'
    BY <1>1, <1>2, <1>6 DEF IInv, TypeOK, Stages, Create
  <1>8. answer[c] = None /\ \A n \in 0 .. Retries : <<c, n>> \notin late
    BY <1>2 DEF IInv, Control
  <1>9. \A d \in Calls \ {c} : IsCreate(d)' = IsCreate(d) /\ InProgress(d)' = InProgress(d)
    BY <1>3 DEF IsCreate, InProgress
  <1>10. Control'
    <2>1. ASSUME NEW d \in Calls
          PROVE  /\ given_up'[d] + tries'[d] <= Retries + (IF stage'[d] = "failed" THEN 1 ELSE 0)
                 /\ answer'[d] # None => IsCreate(d)' /\ stage'[d] \in {"done", "ok"}
                 /\ \A n \in 0 .. Retries : <<d, n>> \in late' => stage'[d] # "idle"
      <3>1. CASE d = c
        BY <1>2, <1>3, <1>8, <3>1 DEF IInv, Control
      <3>2. CASE d # c
        BY <1>2, <1>3, <1>9, <3>2 DEF IInv, Control
      <3> QED BY <3>1, <3>2
    <2> QED BY <2>1 DEF Control
  <1>11. Making'
    <2>1. ASSUME NEW d \in Calls
          PROVE  /\ MadeBy(d)' = MadeBy(d) /\ LateOf(d)' = LateOf(d)
                 /\ Answered(d)' = Answered(d)
                 /\ IsCreate(d)' /\ stage'[d] \in {"done", "ok"} =>
                      IsCreate(d) /\ stage[d] \in {"done", "ok"}
      <3>1. MadeBy(d)' = MadeBy(d) /\ LateOf(d)' = LateOf(d)
        BY <1>2 DEF MadeBy, LateOf
      <3>2. CASE d = c
        BY <1>2, <1>3, <3>1, <3>2 DEF Answered
      <3>3. CASE d # c
        BY <1>3, <1>9, <3>1, <3>3 DEF Answered
      <3> QED BY <3>2, <3>3
    <2> QED BY <1>2, <2>1 DEF IInv, Making
  <1>12. Knowing'
    <2>1. ASSUME NEW d \in Calls
          PROVE  /\ ~IsCreate(d)' => said'[op'[d].user] # "absent"
                 /\ IsCreate(d)' /\ stage'[d] = "ok" => said'[answer'[d]] # "absent"
                 /\ IsCreate(d)' /\ stage'[d] = "done" =>
                     users'[answer'[d]] = "enabled" /\ said'[answer'[d]] = "absent"
      <3>1. CASE d = c
        BY <1>2, <1>3, <1>4, <1>5, <3>1 DEF IsCreate, NoOp
      <3>2. CASE d # c
        BY <1>2, <1>3, <1>9, <3>2 DEF IInv, Knowing
      <3> QED BY <3>1, <3>2
    <2> QED BY <1>2, <2>1 DEF IInv, Knowing
  <1>13. Alone'
    <2> SUFFICES ASSUME NEW u \in Users \ disputed'
                 PROVE  /\ \A d \in Calls, n \in 0 .. Retries : <<d, n>> \in late' => op'[d].user # u
                        /\ \A d, e \in Calls :
                             InProgress(d)' /\ InProgress(e)' /\ op'[d].user = u /\ op'[e].user = u => d = e
                        /\ \A d \in Calls : stage'[d] = "done" /\ op'[d].user = u => users'[u] = op'[d].want
      BY DEF Alone
    <2>1. u \in Users \ disputed
      BY <1>6
    <2>2. \A d \in Calls, n \in 0 .. Retries : <<d, n>> \in late' => op'[d].user # u
      BY <1>2, <1>3, <1>8, <2>1 DEF IInv, Alone
    <2>3. o.user = u => \A d \in Calls : InProgress(d) => op[d].user # u
      BY <1>1 DEF Dispute
    <2>4. \A d, e \in Calls :
            InProgress(d)' /\ InProgress(e)' /\ op'[d].user = u /\ op'[e].user = u => d = e
      BY <1>3, <1>9, <2>1, <2>3 DEF IInv, Alone
    <2>5. \A d \in Calls : stage'[d] = "done" /\ op'[d].user = u => users'[u] = op'[d].want
      BY <1>2, <1>3, <2>1 DEF IInv, Alone
    <2> QED BY <2>2, <2>4, <2>5
  <1>14. UndisputedIsAsSaid'
    <2>1. \A d \in Calls : InProgress(d) => d # c
      BY <1>2 DEF InProgress
    <2> QED BY <1>2, <1>3, <1>6, <1>9, <2>1 DEF IInv, UndisputedIsAsSaid
  <1> QED BY <1>7, <1>10, <1>11, <1>12, <1>13, <1>14 DEF IInv

(* An attempt that ends without success leaves the node alone; what it may    *)
(* still do is counted.                                                       *)
LEMMA EndKeeps ==
  ASSUME IInv, NEW c \in Calls, AttemptEnds(c)
  PROVE  IInv'
  <1> USE HiddifyAssumption
  <1>1. /\ InProgress(c) /\ disputed \subseteq disputed' /\ disputed' \subseteq Users
        /\ faults' \in 0 .. MaxFaults
        /\ users' = users /\ maker' = maker /\ op' = op /\ said' = said
    BY DEF AttemptEnds
  <1>2. PICK to \in {"sent", "failed"} : stage' = [stage EXCEPT ![c] = to]
    BY DEF AttemptEnds
  <1>3. /\ stage'[c] = to /\ stage[c] \in {"sent", "done", "refused"}
        /\ \A d \in Calls \ {c} : stage'[d] = stage[d]
    BY <1>1, <1>2 DEF IInv, TypeOK, InProgress
  <1>4. given_up \in [Calls -> 0 .. Retries + 1] /\ tries \in [Calls -> 0 .. Retries]
        /\ given_up[c] + tries[c] <= Retries
    BY <1>3 DEF IInv, Control, TypeOK
  <1>5. given_up' = given_up \/ given_up' = [given_up EXCEPT ![c] = given_up[c] + 1]
    BY DEF AttemptEnds
  <1>6. /\ tries' \in [Calls -> 0 .. Retries] /\ given_up' \in [Calls -> 0 .. Retries + 1]
        /\ \A d \in Calls \ {c} : given_up'[d] = given_up[d] /\ tries'[d] = tries[d]
        /\ given_up'[c] + tries'[c] <= Retries + (IF stage'[c] = "failed" THEN 1 ELSE 0)
    <2>1. CASE to = "sent"
      <3>1. tries' = [tries EXCEPT ![c] = tries[c] - 1] /\ tries[c] > 0
        BY <1>2, <1>3, <2>1 DEF AttemptEnds, IInv, TypeOK
      <3> QED BY <1>3, <1>4, <1>5, <2>1, <3>1
    <2>2. CASE to = "failed"
      <3>1. tries' = tries /\ (given_up' = given_up \/ tries[c] = 0)
        BY <1>2, <1>3, <2>2 DEF AttemptEnds, IInv, TypeOK
      <3> QED BY <1>3, <1>4, <1>5, <2>2, <3>1
    <2> QED BY <2>1, <2>2
  <1>7. /\ answer' \in [Calls -> Users \cup {None}]
        /\ \A d \in Calls \ {c} : answer'[d] = answer[d]
        /\ answer'[c] = None
    <2>1. (answer' = answer /\ stage[c] # "done") \/ answer' = [answer EXCEPT ![c] = None]
      BY DEF AttemptEnds
    <2>2. stage[c] # "done" => answer[c] = None
      BY <1>3 DEF IInv, Control
    <2> QED BY <2>1, <2>2 DEF IInv, TypeOK
  <1>8. /\ late' \in SUBSET (Calls \X (0 .. Retries)) /\ late \subseteq late'
        /\ \A d \in Calls, n \in 0 .. Retries :
             <<d, n>> \in late' => <<d, n>> \in late \/ d = c
    BY <1>4 DEF AttemptEnds, IInv, TypeOK
  <1>9. TypeOK'
    <2>1. stage' \in [Calls -> Stages]
      BY <1>2 DEF IInv, TypeOK, Stages
    <2> QED BY <1>1, <1>6, <1>7, <1>8, <2>1 DEF IInv, TypeOK
  <1>10. Control'
    <2>1. ASSUME NEW d \in Calls
          PROVE  /\ given_up'[d] + tries'[d] <= Retries + (IF stage'[d] = "failed" THEN 1 ELSE 0)
                 /\ answer'[d] # None => IsCreate(d)' /\ stage'[d] \in {"done", "ok"}
                 /\ \A n \in 0 .. Retries : <<d, n>> \in late' => stage'[d] # "idle"
      <3>1. CASE d = c
        BY <1>3, <1>6, <1>7, <3>1
      <3>2. CASE d # c
        BY <1>1, <1>3, <1>6, <1>7, <1>8, <3>2 DEF IInv, Control, IsCreate
      <3> QED BY <3>1, <3>2
    <2> QED BY <2>1 DEF Control
  <1>11. \A d \in Calls : MadeBy(d)' = MadeBy(d) /\ IsCreate(d)' = IsCreate(d)
    BY <1>1 DEF MadeBy, IsCreate
  <1>12. Making'
    <2>1. ASSUME NEW d \in Calls
          PROVE  /\ Cardinality(MadeBy(d)) + Cardinality(LateOf(d)') <= given_up'[d] + Answered(d)'
                 /\ IsCreate(d) /\ stage'[d] \in {"done", "ok"} => answer'[d] \in MadeBy(d)
      <3>0. /\ IsFiniteSet(MadeBy(d)) /\ Cardinality(MadeBy(d)) \in Nat
            /\ IsFiniteSet(LateOf(d)) /\ Cardinality(LateOf(d)) \in Nat
            /\ Cardinality(MadeBy(d)) + Cardinality(LateOf(d)) <= given_up[d] + Answered(d)
        BY LateFinite, FS_CardinalityType DEF IInv, Making
      <3>1. CASE d # c
        <4>1. LateOf(d)' = LateOf(d) /\ Answered(d)' = Answered(d)
          BY <1>3, <1>8, <3>1 DEF LateOf, Answered
        <4> QED BY <1>3, <1>6, <1>7, <3>0, <3>1, <4>1 DEF IInv, Making
      <3>2. CASE d = c
        <4>1. Answered(c)' = 0 /\ stage'[c] \notin {"done", "ok"}
          BY <1>3 DEF Answered
        <4>2. CASE stage[c] = "done"
          <5>1. late' = late /\ given_up'[c] = given_up[c] + 1
            BY <1>4, <4>2 DEF AttemptEnds
          <5>2. LateOf(c)' = LateOf(c)
            BY <5>1 DEF LateOf
          <5>3. Answered(c) = 1
            BY <4>2 DEF Answered
          <5> QED BY <1>4, <3>0, <3>2, <4>1, <5>1, <5>2, <5>3
        <4>3. CASE stage[c] # "done"
          <5>1. Answered(c) = 0
            BY <1>3, <4>3 DEF Answered
          <5>2. CASE late' = late
            <6>1. LateOf(c)' = LateOf(c)
              BY <5>2 DEF LateOf
            <6>2. given_up'[c] >= given_up[c] /\ given_up'[c] \in Nat
              BY <1>4, <1>5, <1>6
            <6> QED BY <1>4, <3>0, <3>2, <4>1, <5>1, <6>1, <6>2
          <5>3. CASE late' # late
            <6>1. late' = late \cup {<<c, tries[c]>>} /\ given_up' # given_up
              BY <5>3 DEF AttemptEnds
            <6>2. given_up'[c] = given_up[c] + 1
              BY <1>4, <1>5, <6>1
            <6>3. LateOf(c)' = LateOf(c) \cup {tries[c]}
              BY <1>4, <6>1 DEF LateOf
            <6>4. /\ Cardinality(LateOf(c)') \in Nat
                  /\ Cardinality(LateOf(c)') <= Cardinality(LateOf(c)) + 1
              BY <3>0, <3>2, <6>3, OneMore
            <6> QED BY <1>4, <3>0, <3>2, <4>1, <5>1, <6>2, <6>4
          <5> QED BY <5>2, <5>3
        <4> QED BY <3>2, <4>1, <4>2, <4>3
      <3> QED BY <3>1, <3>2
    <2> QED BY <1>1, <1>11, <2>1 DEF IInv, Making
  <1>13. Knowing'
    BY <1>1, <1>3, <1>7, <1>11 DEF IInv, Knowing
  <1>14. \A d \in Calls : InProgress(d)' => InProgress(d)
    BY <1>1, <1>3 DEF InProgress
  <1>15. \A u \in Users \ disputed' : u \in Users \ disputed
                                     /\ (op[c].user = u => late' = late /\ to = "sent")
    <2>1. to = "failed" => op[c].user \in disputed' \/ IsCreate(c)
      BY <1>2, <1>3 DEF AttemptEnds, IInv, TypeOK
    <2>2. late' # late => op[c].user \in disputed' \/ IsCreate(c)
      BY DEF AttemptEnds
    <2> QED BY <1>1, <2>1, <2>2 DEF IsCreate
  <1>16. Alone'
    BY <1>1, <1>3, <1>8, <1>14, <1>15 DEF IInv, Alone
  <1>17. UndisputedIsAsSaid'
    <2> SUFFICES ASSUME NEW u \in Users \ disputed', said[u] # "absent",
                        \A d \in Calls : InProgress(d)' => op[d].user # u
                 PROVE  users[u] = said[u]
      BY <1>1 DEF UndisputedIsAsSaid
    <2>1. \A d \in Calls : InProgress(d) => op[d].user # u
      <3>1. op[c].user # u
        BY <1>3, <1>15 DEF InProgress
      <3>2. \A d \in Calls \ {c} : InProgress(d)' = InProgress(d)
        BY <1>3 DEF InProgress
      <3> QED BY <3>1, <3>2
    <2> QED BY <1>15, <2>1 DEF IInv, UndisputedIsAsSaid
  <1> QED BY <1>9, <1>10, <1>12, <1>13, <1>16, <1>17 DEF IInv

(* A refusal changes nothing but the stage of the attempt. *)
LEMMA RefuseKeeps ==
  ASSUME IInv, NEW c \in Calls, Refuse(c)
  PROVE  IInv'
  <1>1. /\ stage[c] = "sent" /\ stage' = [stage EXCEPT ![c] = "refused"]
        /\ UNCHANGED <<users, maker, late, op, tries, answer, given_up, said, disputed, faults>>
    BY DEF Refuse, Goto, node, history
  <1>2. stage'[c] = "refused" /\ \A d \in Calls \ {c} : stage'[d] = stage[d]
    BY <1>1 DEF IInv, TypeOK
  <1>3. TypeOK'
    BY <1>1 DEF IInv, TypeOK, Stages
  <1>4. \A d \in Calls : /\ InProgress(d)' = InProgress(d) /\ IsCreate(d)' = IsCreate(d)
                         /\ MadeBy(d)' = MadeBy(d) /\ LateOf(d)' = LateOf(d)
                         /\ Answered(d)' = Answered(d)
    BY <1>1, <1>2 DEF InProgress, IsCreate, MadeBy, LateOf, Answered
  <1>5. Control'
    BY <1>1, <1>2, <1>4 DEF IInv, Control
  <1>6. Making' /\ Knowing'
    <2>1. Making'
      BY <1>1, <1>2, <1>4 DEF IInv, Making
    <2>2. Knowing'
      BY <1>1, <1>2, <1>4 DEF IInv, Knowing
    <2> QED BY <2>1, <2>2
  <1>7. Alone' /\ UndisputedIsAsSaid'
    <2>1. Alone'
      BY <1>1, <1>2, <1>4 DEF IInv, Alone
    <2>2. UndisputedIsAsSaid'
      BY <1>1, <1>4 DEF IInv, UndisputedIsAsSaid
    <2> QED BY <2>1, <2>2
  <1> QED BY <1>3, <1>5, <1>6, <1>7 DEF IInv

(* What a request does at the node, taken or arriving late: a user of one     *)
(* call more, and no call learns or loses anything by it.                     *)
LEMMA MakingGrows ==
  ASSUME IInv, NEW c \in Calls, NEW u \in Users, Apply(c, u)
  PROVE  /\ \A v \in Users : maker'[v] # None => users'[v] # "absent"
         /\ \A d \in Calls \ {c} : MadeBy(d)' = MadeBy(d)
         /\ MadeBy(c) \subseteq MadeBy(c)'
         /\ IsFiniteSet(MadeBy(c)') /\ Cardinality(MadeBy(c)') \in Nat
         /\ Cardinality(MadeBy(c)') <= Cardinality(MadeBy(c)) + 1
         /\ IsCreate(c) => u \in MadeBy(c)'
         /\ \A v \in Users : users'[v] = "absent" => users[v] = "absent"
  <1>1. /\ TypeOK /\ Making /\ Knowing /\ IsFiniteSet(MadeBy(c)) /\ Cardinality(MadeBy(c)) \in Nat
    BY FS_CardinalityType DEF IInv, Making
  <1>2. /\ users'[u] # "absent" /\ \A v \in Users \ {u} : users'[v] = users[v]
        /\ IsCreate(c) => maker[u] = None /\ maker' = [maker EXCEPT ![u] = c]
        /\ ~IsCreate(c) => maker' = maker
    BY <1>1, ApplyEffects
  <1>3. \A v \in Users : maker'[v] # None => users'[v] # "absent"
    BY <1>1, <1>2 DEF Making, TypeOK
  <1>4. \A v \in Users : users'[v] = "absent" => users[v] = "absent"
    BY <1>2
  <1>5. CASE IsCreate(c)
    <2>1. /\ MadeBy(c)' = MadeBy(c) \cup {u}
          /\ \A d \in Calls \ {c} : MadeBy(d)' = MadeBy(d)
      BY <1>1, <1>2, <1>5, MadeGrows
    <2>2. /\ IsFiniteSet(MadeBy(c) \cup {u}) /\ Cardinality(MadeBy(c) \cup {u}) \in Nat
          /\ Cardinality(MadeBy(c) \cup {u}) <= Cardinality(MadeBy(c)) + 1
      BY <1>1, OneMore
    <2> QED BY <1>3, <1>4, <2>1, <2>2
  <1>6. CASE ~IsCreate(c)
    <2>1. \A d \in Calls : MadeBy(d)' = MadeBy(d)
      BY <1>2, <1>6 DEF MadeBy
    <2> QED BY <1>1, <1>3, <1>4, <1>6, <2>1
  <1> QED BY <1>5, <1>6

(* A user a create_user was answered with stays as it is until the answer is  *)
(* received: nobody else knows it.                                            *)
LEMMA AnswersStay ==
  ASSUME IInv, NEW c \in Calls, NEW u \in Users, Apply(c, u),
         NEW d \in Calls, IsCreate(d), stage[d] = "done"
  PROVE  u # answer[d] /\ answer[d] \in Users /\ users'[answer[d]] = "enabled"
  <1>1. /\ answer[d] \in Users /\ users[answer[d]] = "enabled" /\ said[answer[d]] = "absent"
    BY DEF IInv, Making, MadeBy, Knowing
  <1>2. /\ IsCreate(c) => users[u] = "absent"
        /\ ~IsCreate(c) => said[u] # "absent"
        /\ \A v \in Users \ {u} : users'[v] = users[v]
    BY ApplyEffects DEF IInv
  <1> QED BY <1>1, <1>2

LEMMA TakeKeeps ==
  ASSUME IInv, NEW c \in Calls, Take(c)
  PROVE  IInv'
  <1> USE HiddifyAssumption
  <1>1. PICK u \in Users :
          /\ Apply(c, u)
          /\ answer' = IF IsCreate(c) THEN [answer EXCEPT ![c] = u] ELSE answer
    BY DEF Take
  <1>2. /\ stage[c] = "sent" /\ stage' = [stage EXCEPT ![c] = "done"]
        /\ UNCHANGED <<late, op, tries, given_up, said, disputed, faults>>
    BY DEF Take, Goto, history
  <1>3. stage'[c] = "done" /\ \A d \in Calls \ {c} : stage'[d] = stage[d]
    BY <1>2 DEF IInv, TypeOK
  <1>4. /\ users' \in [Users -> Wants \cup {"absent"}]
        /\ maker' \in [Users -> Calls \cup {None}]
        /\ users'[u] = op[c].want /\ \A v \in Users \ {u} : users'[v] = users[v]
        /\ IsCreate(c) => users[u] = "absent" /\ said[u] = "absent" /\ users'[u] = "enabled"
        /\ ~IsCreate(c) => u = op[c].user /\ said[u] # "absent"
    BY <1>1, ApplyEffects DEF IInv
  <1>5. /\ answer' \in [Calls -> Users \cup {None}]
        /\ \A d \in Calls \ {c} : answer'[d] = answer[d]
        /\ IsCreate(c) => answer'[c] = u
        /\ ~IsCreate(c) => answer'[c] = answer[c]
    BY <1>1 DEF IInv, TypeOK
  <1>6. TypeOK'
    BY <1>2, <1>4, <1>5 DEF IInv, TypeOK, Stages
  <1>7. \A d \in Calls : /\ InProgress(d)' = InProgress(d) /\ IsCreate(d)' = IsCreate(d)
                         /\ LateOf(d)' = LateOf(d)
    BY <1>2, <1>3 DEF InProgress, IsCreate, LateOf
  <1>8. Control'
    <2>1. ASSUME NEW d \in Calls
          PROVE  /\ given_up[d] + tries[d] <= Retries + (IF stage'[d] = "failed" THEN 1 ELSE 0)
                 /\ answer'[d] # None => IsCreate(d) /\ stage'[d] \in {"done", "ok"}
                 /\ \A n \in 0 .. Retries : <<d, n>> \in late => stage'[d] # "idle"
      <3>1. CASE d = c
        BY <1>2, <1>3, <1>5, <3>1 DEF IInv, Control
      <3>2. CASE d # c
        BY <1>3, <1>5, <3>2 DEF IInv, Control
      <3> QED BY <3>1, <3>2
    <2> QED BY <1>2, <1>7, <2>1 DEF Control
  <1>9. Making'
    <2>1. ASSUME NEW d \in Calls
          PROVE  /\ IsFiniteSet(MadeBy(d)')
                 /\ Cardinality(MadeBy(d)') + Cardinality(LateOf(d)) <= given_up[d] + Answered(d)'
                 /\ IsCreate(d) /\ stage'[d] \in {"done", "ok"} => answer'[d] \in MadeBy(d)'
      <3>1. CASE d = c
        <4>1. Answered(c) = 0 /\ Answered(c)' = 1
          BY <1>2, <1>3 DEF Answered
        <4>2. /\ Cardinality(MadeBy(c)) \in Nat /\ Cardinality(LateOf(c)) \in Nat
              /\ Cardinality(MadeBy(c)) + Cardinality(LateOf(c)) <= given_up[c] + Answered(c)
              /\ given_up[c] \in Nat
          BY LateFinite, FS_CardinalityType DEF IInv, Making, TypeOK
        <4>3. /\ IsFiniteSet(MadeBy(c)') /\ Cardinality(MadeBy(c)') \in Nat
              /\ Cardinality(MadeBy(c)') <= Cardinality(MadeBy(c)) + 1
              /\ IsCreate(c) => u \in MadeBy(c)'
          BY <1>1, MakingGrows
        <4> QED BY <1>5, <3>1, <4>1, <4>2, <4>3
      <3>2. CASE d # c
        <4>1. MadeBy(d)' = MadeBy(d) /\ Answered(d)' = Answered(d)
          BY <1>1, <1>3, <3>2, MakingGrows DEF Answered
        <4> QED BY <1>3, <1>5, <3>2, <4>1 DEF IInv, Making
      <3> QED BY <3>1, <3>2
    <2>2. \A v \in Users : maker'[v] # None => users'[v] # "absent"
      BY <1>1, MakingGrows
    <2> QED BY <1>2, <1>7, <2>1, <2>2 DEF Making
  <1>10. Knowing'
    <2>1. ASSUME NEW d \in Calls
          PROVE  /\ ~IsCreate(d) => said[op[d].user] # "absent"
                 /\ IsCreate(d) /\ stage'[d] = "ok" => said[answer'[d]] # "absent"
                 /\ IsCreate(d) /\ stage'[d] = "done" =>
                     users'[answer'[d]] = "enabled" /\ said[answer'[d]] = "absent"
      <3>1. CASE d = c
        BY <1>3, <1>4, <1>5, <3>1 DEF IInv, Knowing
      <3>2. CASE d # c
        <4>1. IsCreate(d) /\ stage[d] = "done" => users'[answer[d]] = "enabled"
          BY <1>1, AnswersStay
        <4> QED BY <1>3, <1>5, <3>2, <4>1 DEF IInv, Knowing
      <3> QED BY <3>1, <3>2
    <2>2. \A v \in Users : users'[v] = "absent" => said[v] = "absent"
      BY <1>1, MakingGrows DEF IInv, Knowing
    <2> QED BY <1>2, <1>7, <2>1, <2>2 DEF IInv, Knowing
  <1>11. ASSUME NEW v \in Users \ disputed
         PROVE  /\ v = u /\ ~IsCreate(c) => \A d \in Calls : InProgress(d) /\ op[d].user = v => d = c
                /\ v = u /\ IsCreate(c) => said[v] = "absent"
                /\ v # u => users'[v] = users[v]
    BY <1>2, <1>4, <1>11 DEF IInv, Alone, InProgress
  <1>12. Alone'
    <2>1. ASSUME NEW v \in Users \ disputed, NEW d \in Calls, stage'[d] = "done", op[d].user = v
          PROVE  users'[v] = op[d].want
      <3>1. ~IsCreate(d) /\ said[v] # "absent"
        BY <2>1 DEF IInv, Knowing, IsCreate
      <3>2. CASE d = c
        BY <1>4, <2>1, <3>1, <3>2
      <3>3. CASE d # c
        <4>1. stage[d] = "done" /\ InProgress(d)
          BY <1>3, <2>1, <3>3 DEF InProgress
        <4>2. v # u
          BY <1>11, <2>1, <3>1, <3>3, <4>1
        <4> QED BY <1>11, <2>1, <4>1, <4>2 DEF IInv, Alone
      <3> QED BY <3>2, <3>3
    <2> QED BY <1>2, <1>7, <2>1 DEF IInv, Alone
  <1>13. UndisputedIsAsSaid'
    <2> SUFFICES ASSUME NEW v \in Users \ disputed, said[v] # "absent",
                        \A d \in Calls : InProgress(d) => op[d].user # v
                 PROVE  users'[v] = said[v]
      BY <1>2, <1>7 DEF UndisputedIsAsSaid
    <2>1. v # u
      BY <1>2, <1>4 DEF InProgress
    <2> QED BY <1>11, <2>1 DEF IInv, UndisputedIsAsSaid
  <1> QED BY <1>6, <1>8, <1>9, <1>10, <1>12, <1>13 DEF IInv

LEMMA ArriveKeeps ==
  ASSUME IInv, NEW c \in Calls, NEW n \in 0 .. Retries, Arrive(c, n)
  PROVE  IInv'
  <1> USE HiddifyAssumption
  <1>1. /\ <<c, n>> \in late /\ late' = late \ {<<c, n>>}
        /\ UNCHANGED <<op, stage, tries, answer, given_up, said, disputed, faults>>
        /\ \/ \E u \in Users : Apply(c, u)
           \/ users' = users /\ maker' = maker
    BY DEF Arrive, node, client, history
  <1>2. \A d \in Calls : /\ InProgress(d)' = InProgress(d) /\ IsCreate(d)' = IsCreate(d)
                         /\ Answered(d)' = Answered(d)
    BY <1>1 DEF InProgress, IsCreate, Answered
  <1>3. \A d \in Calls : d # c => LateOf(d)' = LateOf(d)
    BY <1>1 DEF LateOf
  <1>4. /\ Cardinality(LateOf(c)') = Cardinality(LateOf(c)) - 1
        /\ Cardinality(LateOf(c)') \in Nat /\ Cardinality(LateOf(c)) \in Nat
    <2>1. LateOf(c)' = LateOf(c) \ {n} /\ n \in LateOf(c) /\ IsFiniteSet(LateOf(c))
      BY <1>1, LateFinite DEF LateOf
    <2> QED BY <2>1, OneLess
  <1>5. Control'
    BY <1>1, <1>2 DEF IInv, Control
  <1>6. /\ TypeOK' /\ Making' /\ Knowing'
        /\ \A v \in Users \ disputed : users'[v] = users[v] \/ said[v] = "absent"
    <2>1. CASE users' = users /\ maker' = maker
      <3>1. TypeOK'
        BY <1>1, <2>1 DEF IInv, TypeOK
      <3>2. \A d \in Calls : /\ MadeBy(d)' = MadeBy(d) /\ Cardinality(MadeBy(d)) \in Nat
                             /\ given_up[d] \in Nat /\ Answered(d) \in Nat
        <4>1. \A d \in Calls : MadeBy(d)' = MadeBy(d)
          BY <2>1 DEF MadeBy
        <4>2. \A d \in Calls : Cardinality(MadeBy(d)) \in Nat
          BY FS_CardinalityType DEF IInv, Making
        <4> QED BY <4>1, <4>2 DEF IInv, TypeOK, Answered
      <3>3. Making'
        <4>1. ASSUME NEW d \in Calls
              PROVE  Cardinality(MadeBy(d)) + Cardinality(LateOf(d)') <= given_up[d] + Answered(d)
          <5>1. Cardinality(MadeBy(d)) + Cardinality(LateOf(d)) <= given_up[d] + Answered(d)
            BY DEF IInv, Making
          <5>2. CASE d = c
            BY <1>4, <3>2, <5>1, <5>2
          <5>3. CASE d # c
            BY <1>3, <5>1, <5>3
          <5> QED BY <5>2, <5>3
        <4> QED BY <1>1, <1>2, <2>1, <3>2, <4>1 DEF IInv, Making
      <3>4. Knowing'
        BY <1>1, <1>2, <2>1 DEF IInv, Knowing
      <3> QED BY <2>1, <3>1, <3>3, <3>4
    <2>2. CASE \E u \in Users : Apply(c, u)
      <3>1. PICK u \in Users : Apply(c, u)
        BY <2>2
      <3>2. /\ users' \in [Users -> Wants \cup {"absent"}]
            /\ maker' \in [Users -> Calls \cup {None}]
            /\ \A v \in Users \ {u} : users'[v] = users[v]
            /\ IsCreate(c) => said[u] = "absent"
            /\ ~IsCreate(c) => u = op[c].user
        BY <3>1, ApplyEffects DEF IInv
      <3>3. TypeOK'
        BY <1>1, <3>2 DEF IInv, TypeOK
      <3>4. Making'
        <4>1. ASSUME NEW d \in Calls
              PROVE  /\ IsFiniteSet(MadeBy(d)')
                     /\ Cardinality(MadeBy(d)') + Cardinality(LateOf(d)') <= given_up[d] + Answered(d)
                     /\ MadeBy(d) \subseteq MadeBy(d)'
          <5>1. CASE d = c
            <6>1. /\ IsFiniteSet(MadeBy(c)') /\ Cardinality(MadeBy(c)') \in Nat
                  /\ Cardinality(MadeBy(c)') <= Cardinality(MadeBy(c)) + 1
                  /\ MadeBy(c) \subseteq MadeBy(c)'
              BY <3>1, MakingGrows
            <6>2. /\ Cardinality(MadeBy(c)) \in Nat /\ given_up[c] \in Nat /\ Answered(c) \in Nat
                  /\ Cardinality(MadeBy(c)) + Cardinality(LateOf(c)) <= given_up[c] + Answered(c)
              BY FS_CardinalityType DEF IInv, Making, TypeOK, Answered
            <6> QED BY <1>4, <5>1, <6>1, <6>2
          <5>2. CASE d # c
            BY <1>3, <3>1, <5>2, MakingGrows DEF IInv, Making
          <5> QED BY <5>1, <5>2
        <4>2. \A v \in Users : maker'[v] # None => users'[v] # "absent"
          BY <3>1, MakingGrows
        <4> QED BY <1>1, <1>2, <4>1, <4>2 DEF IInv, Making
      <3>5. Knowing'
        <4>1. \A d \in Calls : IsCreate(d) /\ stage[d] = "done" => users'[answer[d]] = "enabled"
          BY <3>1, AnswersStay
        <4>2. \A v \in Users : users'[v] = "absent" => said[v] = "absent"
          BY <3>1, MakingGrows DEF IInv, Knowing
        <4> QED BY <1>1, <1>2, <4>1, <4>2 DEF IInv, Knowing
      <3>6. \A v \in Users \ disputed : users'[v] = users[v] \/ said[v] = "absent"
        BY <1>1, <3>2 DEF IInv, Alone
      <3> QED BY <3>3, <3>4, <3>5, <3>6
    <2> QED BY <1>1, <2>1, <2>2
  <1>7. Alone'
    <2>1. ASSUME NEW v \in Users \ disputed, NEW d \in Calls, stage[d] = "done", op[d].user = v
          PROVE  users'[v] = op[d].want
      <3>1. said[v] # "absent"
        BY <2>1 DEF IInv, Knowing, IsCreate
      <3> QED BY <1>6, <2>1, <3>1 DEF IInv, Alone
    <2> QED BY <1>1, <1>2, <2>1 DEF IInv, Alone
  <1>8. UndisputedIsAsSaid'
    BY <1>1, <1>2, <1>6 DEF IInv, UndisputedIsAsSaid
  <1> QED BY <1>5, <1>6, <1>7, <1>8 DEF IInv

(* A success makes its user known, and it is as the call asked. *)
LEMMA ReceiveKeeps ==
  ASSUME IInv, NEW c \in Calls, Receive(c)
  PROVE  IInv'
  <1> USE HiddifyAssumption
  <1>1. PICK u : u = IF IsCreate(c) THEN answer[c] ELSE op[c].user
    OBVIOUS
  <1>2. /\ stage[c] = "done" /\ stage' = [stage EXCEPT ![c] = "ok"]
        /\ said' = [said EXCEPT ![u] = op[c].want]
        /\ UNCHANGED <<users, maker, late, op, tries, answer, given_up, disputed, faults>>
    BY <1>1 DEF Receive, Goto, node
  <1>3. stage'[c] = "ok" /\ \A d \in Calls \ {c} : stage'[d] = stage[d]
    BY <1>2 DEF IInv, TypeOK
  <1>4. u \in Users /\ op[c].want \in Wants /\ "absent" \notin Wants
    BY <1>1, <1>2, CreateOrChange DEF IInv, Making, MadeBy, Wants
  <1>5. said'[u] = op[c].want /\ \A v \in Users \ {u} : said'[v] = said[v]
    BY <1>2, <1>4 DEF IInv, TypeOK
  <1>6. TypeOK'
    BY <1>2, <1>4 DEF IInv, TypeOK, Stages
  <1>7. \A d \in Calls : /\ IsCreate(d)' = IsCreate(d) /\ LateOf(d)' = LateOf(d)
                         /\ MadeBy(d)' = MadeBy(d) /\ Answered(d)' = Answered(d)
                         /\ InProgress(d)' <=> InProgress(d) /\ d # c
    BY <1>2, <1>3 DEF InProgress, IsCreate, LateOf, MadeBy, Answered
  <1>8. Control'
    BY <1>2, <1>3, <1>7 DEF IInv, Control
  <1>9. Making'
    BY <1>2, <1>3, <1>7 DEF IInv, Making
  <1>10. Knowing'
    <2>1. users[u] # "absent"
      <3>1. CASE IsCreate(c)
        BY <1>1, <1>2, <3>1 DEF IInv, Knowing
      <3>2. CASE ~IsCreate(c)
        BY <1>1, <1>4, <3>2 DEF IInv, Knowing
      <3> QED BY <3>1, <3>2
    <2>2. ASSUME NEW d \in Calls, IsCreate(d), stage[d] = "done", d # c
          PROVE  answer[d] \in Users /\ answer[d] # u
      <3>1. answer[d] \in Users /\ maker[answer[d]] = d /\ said[answer[d]] = "absent"
        BY <2>2 DEF IInv, Making, MadeBy, Knowing
      <3>2. CASE IsCreate(c)
        <4>1. maker[u] = c
          BY <1>1, <1>2, <3>2 DEF IInv, Making, MadeBy
        <4> QED BY <2>2, <3>1, <4>1
      <3>3. CASE ~IsCreate(c)
        BY <1>1, <3>1, <3>3 DEF IInv, Knowing
      <3> QED BY <3>2, <3>3
    <2>3. \A v \in Users : said[v] # "absent" => said'[v] # "absent"
      BY <1>4, <1>5
    <2>4. \A v \in Users : said[v] = "absent" /\ v # u => said'[v] = "absent"
      BY <1>5
    <2>5. ASSUME NEW d \in Calls
          PROVE  /\ ~IsCreate(d) => said'[op[d].user] # "absent"
                 /\ IsCreate(d) /\ stage'[d] = "ok" => said'[answer[d]] # "absent"
                 /\ IsCreate(d) /\ stage'[d] = "done" =>
                     users[answer[d]] = "enabled" /\ said'[answer[d]] = "absent"
      <3>1. ~IsCreate(d) => op[d].user \in Users
        BY CreateOrChange DEF IInv
      <3>2. IsCreate(d) /\ stage[d] \in {"done", "ok"} => answer[d] \in Users
        BY DEF IInv, Making, MadeBy
      <3>3. CASE d = c
        BY <1>1, <1>3, <1>4, <1>5, <3>3
      <3>4. ~IsCreate(d) => said'[op[d].user] # "absent"
        BY <2>3, <3>1 DEF IInv, Knowing
      <3>5. CASE d # c
        <4>1. IsCreate(d) /\ stage[d] = "ok" => said'[answer[d]] # "absent"
          BY <2>3, <3>2 DEF IInv, Knowing
        <4>2. IsCreate(d) /\ stage[d] = "done" =>
                users[answer[d]] = "enabled" /\ said'[answer[d]] = "absent"
          BY <2>2, <2>4, <3>5 DEF IInv, Knowing
        <4> QED BY <1>3, <3>4, <3>5, <4>1, <4>2
      <3> QED BY <3>3, <3>4, <3>5
    <2>6. \A v \in Existing : said'[v] # "absent"
      BY <2>3 DEF IInv, Knowing
    <2> QED BY <1>2, <1>5, <1>7, <2>1, <2>5, <2>6 DEF IInv, Knowing
  <1>11. Alone'
    <2>1. \A d \in Calls : stage'[d] = "done" => stage[d] = "done"
      BY <1>3
    <2> QED BY <1>2, <1>7, <2>1 DEF IInv, Alone
  <1>12. UndisputedIsAsSaid'
    <2> SUFFICES ASSUME NEW v \in Users \ disputed, said'[v] # "absent",
                        \A d \in Calls : InProgress(d)' => op[d].user # v
                 PROVE  users[v] = said'[v]
      BY <1>2 DEF UndisputedIsAsSaid
    <2>1. CASE v = u
      <3>1. CASE IsCreate(c)
        BY <1>1, <1>2, <1>5, <2>1, <3>1, CreateOrChange DEF IInv, Knowing
      <3>2. CASE ~IsCreate(c)
        BY <1>1, <1>2, <1>5, <2>1, <3>2 DEF IInv, Alone
      <3> QED BY <3>1, <3>2
    <2>2. CASE v # u
      <3>1. op[c].user # v
        BY <1>1, <2>2 DEF IsCreate
      <3> QED BY <1>5, <1>7, <2>2, <3>1 DEF IInv, UndisputedIsAsSaid
    <2> QED BY <2>1, <2>2
  <1> QED BY <1>6, <1>8, <1>9, <1>10, <1>11, <1>12 DEF IInv

-----------------------------------------------------------------------------
LEMMA StutterKeeps ==
  ASSUME IInv, UNCHANGED vars
  PROVE  IInv'
  <1>1. UNCHANGED <<users, maker, late, op, stage, tries, answer, given_up, said, disputed, faults>>
    BY DEF vars, node, client, history
  <1>2. TypeOK' /\ Control'
    BY <1>1 DEF IInv, TypeOK, Control, IsCreate
  <1>3. Making' /\ Knowing'
    BY <1>1 DEF IInv, Making, Knowing, MadeBy, LateOf, Answered, IsCreate
  <1>4. Alone' /\ UndisputedIsAsSaid'
    BY <1>1 DEF IInv, Alone, UndisputedIsAsSaid, InProgress
  <1> QED BY <1>2, <1>3, <1>4 DEF IInv

LEMMA NextKeeps == IInv /\ [Next]_vars => IInv'
  <1> SUFFICES ASSUME IInv, [Next]_vars PROVE IInv'
    OBVIOUS
  <1>1. ASSUME NEW c \in Calls, Call(c) PROVE IInv'
    BY <1>1, CallKeeps
  <1>2. ASSUME NEW c \in Calls, NotSent(c) \/ GiveUp(c) \/ ReceiveRefusal(c) PROVE IInv'
    BY <1>2, EndsSo, EndKeeps DEF IInv
  <1>3. ASSUME NEW c \in Calls, Receive(c) PROVE IInv'
    BY <1>3, ReceiveKeeps
  <1>4. ASSUME NEW c \in Calls, Take(c) PROVE IInv'
    BY <1>4, TakeKeeps
  <1>5. ASSUME NEW c \in Calls, Refuse(c) PROVE IInv'
    BY <1>5, RefuseKeeps
  <1>6. ASSUME NEW c \in Calls, NEW n \in 0 .. Retries, Arrive(c, n) PROVE IInv'
    BY <1>6, ArriveKeeps
  <1>7. CASE UNCHANGED vars
    BY <1>7, StutterKeeps
  <1> QED BY <1>1, <1>2, <1>3, <1>4, <1>5, <1>6, <1>7 DEF Next, Attempt

-----------------------------------------------------------------------------
(* The strengthened invariant holds in every behaviour: a user is accounted   *)
(* to the call that made it, and an undisputed one to the last answered call. *)
THEOREM Invariance == Spec => []IInv
  BY InitEstablishes, NextKeeps, PTL DEF Spec

(* Every variable of client and node keeps its type. *)
THEOREM TypeCorrect == Spec => []TypeOK
  <1>1. IInv => TypeOK
    BY DEF IInv
  <1> QED BY <1>1, Invariance, PTL

(* create_user is a POST that _request retries: a call leaves at most as many *)
(* users as it has attempts whose answer was lost, and the one it answers     *)
(* with, which is one of them.                                                *)
THEOREM UsersExplained == Spec => []UsersAreExplained
  <1>1. IInv => UsersAreExplained
    <2> SUFFICES ASSUME IInv, NEW c \in Calls
                 PROVE  /\ Cardinality(MadeBy(c)) <= given_up[c] + Answered(c)
                        /\ stage[c] = "ok" /\ IsCreate(c) => answer[c] \in MadeBy(c)
      BY DEF UsersAreExplained, Answered
    <2>1. /\ Cardinality(MadeBy(c)) \in Nat /\ Cardinality(LateOf(c)) \in Nat
          /\ given_up[c] \in Nat /\ Answered(c) \in Nat
      BY LateFinite, FS_CardinalityType, HiddifyAssumption DEF IInv, Making, TypeOK, Answered
    <2> QED BY <2>1 DEF IInv, Making
  <1> QED BY <1>1, Invariance, PTL

(* Between calls a user is as the last answered call left it, unless two      *)
(* calls were at it at once, one of them failed, or an attempt for it may     *)
(* arrive late.                                                               *)
THEOREM UndisputedAsSaid == Spec => []UndisputedIsAsSaid
  <1>1. IInv => UndisputedIsAsSaid
    BY DEF IInv
  <1> QED BY <1>1, Invariance, PTL
=============================================================================
