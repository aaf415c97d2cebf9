------------------------------- MODULE BotProofs -------------------------------
(* Theorems about AccountLinking, for any accounts, customers, codes and     *)
(* calls, and about Bot, which calls it, for every sequence of updates, every *)
(* batch size and every set of calls.  No invariant of AccountLinking is     *)
(* inductive by itself: what a call has read must still be true when it      *)
(* writes, which IInv states label by label.                                 *)
EXTENDS Bot, TLAPS

Resolving == {"find", "recheck", "create"}
Consuming == {"read_code", "read_target", "link", "burn"}

\* A call has an answer only when it is done, and its inputs once it has begun.
Control ==
    \A c \in Calls :
        /\ pc[c] # "done" => answer[c] = "none"
        /\ pc[c] \in Resolving \cup Consuming => account[c] \in Accounts
        /\ pc[c] \in Consuming => code[c] \in Codes

\* What a call has read: issuers and owners are never taken back.
ReadsStayTrue ==
    \A c \in Calls :
        /\ pc[c] \in {"read_target", "link", "burn"} => issuer[code[c]] # None
        /\ pc[c] = "burn" => owner[account[c]] = issuer[code[c]]

IssuersExist == \A k \in Codes : issuer[k] # None => issuer[k] \in customers

\* What a call that answered with a customer answered is there.
AnswersHold ==
    \A c \in Calls :
        /\ answer[c] \in {"resolved", "linked", "already_linked"} =>
            account[c] \in Accounts /\ resolved[c] # None /\ owner[account[c]] = resolved[c]
        /\ answer[c] \in {"linked", "already_linked"} => code[c] \in Codes /\ code[c] \in consumed

\* An account that has no owner was not attached with a code.
AttachedHasOwner ==
    \A a \in Accounts : via[a] # None =>
        via[a] \in consumed /\ owner[a] # None /\ owner[a] = issuer[via[a]]

Facts == Control /\ ReadsStayTrue /\ IssuersExist /\ AnswersHold /\ AttachedHasOwner

IInv == TypeOK /\ EveryCustomerHasAnAccount /\ Facts

-----------------------------------------------------------------------------
\* The tables are empty and no call has begun.
LEMMA Initially == Init => IInv
<1> SUFFICES ASSUME Init PROVE IInv
  OBVIOUS
<1> USE LinkingAssumption DEF Init
<1>1. TypeOK
  BY DEF TypeOK, Labels, Answers
<1>2. EveryCustomerHasAnAccount
  BY DEF EveryCustomerHasAnAccount
<1>3. Facts
  BY DEF Facts, Control, ReadsStayTrue, IssuersExist, AnswersHold, AttachedHasOwner, Resolving, Consuming
<1> QED
  BY <1>1, <1>2, <1>3 DEF IInv

\* A step to another label that reads and writes nothing but the label: what the label
\* stands for must hold.
LEMMA MovesKeeps ==
    ASSUME IInv, NEW c \in Calls, NEW label \in Labels \ {"idle", "done"}, Moves(c, label),
           pc[c] # "done", account[c] \in Accounts,
           label \in Consuming => code[c] \in Codes,
           label \in {"read_target", "link", "burn"} => issuer[code[c]] # None,
           label = "burn" => owner[account[c]] = issuer[code[c]]
    PROVE  IInv'
<1> USE DEF IInv, Moves, Goto, store
<1>1. TypeOK'
  BY DEF TypeOK
<1>2. EveryCustomerHasAnAccount'
  BY DEF EveryCustomerHasAnAccount
<1>3. Control'
  BY DEF TypeOK, Facts, Control
<1>4. ReadsStayTrue'
  BY DEF TypeOK, Facts, ReadsStayTrue
<1>5. IssuersExist' /\ AnswersHold' /\ AttachedHasOwner'
  BY DEF Facts, IssuersExist, AnswersHold, AttachedHasOwner
<1> QED
  BY <1>1, <1>2, <1>3, <1>4, <1>5 DEF Facts

\* An answer that writes nothing and names no customer, or the owner of the account.
LEMMA AnswerKeeps ==
    ASSUME IInv, NEW c \in Calls, NEW how \in Answers \ {"linked", "already_linked"},
           NEW u \in Customers \cup {None}, Answer(c, how, u), pc[c] # "done",
           how = "resolved" => account[c] \in Accounts /\ u # None /\ owner[account[c]] = u
    PROVE  IInv'
<1> USE DEF IInv, Answer, Return, Goto, store
<1>1. TypeOK'
  BY DEF TypeOK, Labels
<1>2. EveryCustomerHasAnAccount'
  BY DEF EveryCustomerHasAnAccount
<1>3. Control'
  BY DEF TypeOK, Facts, Control, Resolving, Consuming
<1>4. ReadsStayTrue' /\ IssuersExist' /\ AttachedHasOwner'
  BY DEF TypeOK, Facts, ReadsStayTrue, IssuersExist, AttachedHasOwner
<1>5. AnswersHold'
  BY DEF TypeOK, Facts, AnswersHold
<1> QED
  BY <1>1, <1>2, <1>3, <1>4, <1>5 DEF Facts

-----------------------------------------------------------------------------
\* The steps that only read.
LEMMA ReadingKeeps ==
    ASSUME IInv, NEW c \in Calls,
           Find(c) \/ Recheck(c) \/ ReadCode(c) \/ ReadTarget(c) \/ Fail(c)
    PROVE  IInv'
<1> USE DEF Labels, Answers, Resolving, Consuming
<1>0. account[c] \in Accounts \/ Fail(c)
  BY DEF IInv, Facts, Control, Find, Recheck, ReadCode, ReadTarget, At
<1>1. CASE Find(c)
  <2>1. account[c] \in Accounts /\ pc[c] = "find"
    BY <1>1 DEF IInv, Facts, Control, Find, At
  <2>2. CASE Known(account[c])
    <3>1. Answer(c, "resolved", owner[account[c]]) /\ owner[account[c]] # None
      BY <1>1, <2>2 DEF Find, Known
    <3>2. owner[account[c]] \in Customers
      BY <2>1, <3>1 DEF IInv, TypeOK
    <3> QED
      BY <2>1, <3>1, <3>2, AnswerKeeps
  <2>3. CASE ~Known(account[c])
    <3>1. Moves(c, "recheck")
      BY <1>1, <2>3 DEF Find
    <3> QED
      BY <2>1, <3>1, MovesKeeps
  <2> QED
    BY <2>2, <2>3
<1>2. CASE Recheck(c)
  <2>1. account[c] \in Accounts /\ pc[c] = "recheck"
    BY <1>2 DEF IInv, Facts, Control, Recheck, At
  <2>2. CASE Known(account[c])
    <3>1. Answer(c, "resolved", owner[account[c]]) /\ owner[account[c]] # None
      BY <1>2, <2>2 DEF Recheck, Known
    <3>2. owner[account[c]] \in Customers
      BY <2>1, <3>1 DEF IInv, TypeOK
    <3> QED
      BY <2>1, <3>1, <3>2, AnswerKeeps
  <2>3. CASE ~Known(account[c])
    <3>1. Moves(c, "create")
      BY <1>2, <2>3 DEF Recheck
    <3> QED
      BY <2>1, <3>1, MovesKeeps
  <2> QED
    BY <2>2, <2>3
<1>3. CASE ReadCode(c)
  <2>1. account[c] \in Accounts /\ code[c] \in Codes /\ pc[c] = "read_code"
    BY <1>3 DEF IInv, Facts, Control, ReadCode, At
  <2>2. CASE Usable(code[c])
    <3>1. Moves(c, "read_target") /\ issuer[code[c]] # None
      BY <1>3, <2>2 DEF ReadCode, Usable
    <3> QED
      BY <2>1, <3>1, MovesKeeps
  <2>3. CASE ~Usable(code[c])
    <3>1. Answer(c, "invalid", None)
      BY <1>3, <2>3 DEF ReadCode
    <3> QED
      BY <2>1, <3>1, AnswerKeeps
  <2> QED
    BY <2>2, <2>3
<1>4. CASE ReadTarget(c)
  <2>1. account[c] \in Accounts /\ code[c] \in Codes /\ pc[c] = "read_target"
        /\ issuer[code[c]] # None
    BY <1>4 DEF IInv, Facts, Control, ReadsStayTrue, ReadTarget, At
  <2>2. issuer[code[c]] \in Customers
    BY <2>1 DEF IInv, TypeOK
  <2>3. CASE Moves(c, "link")
    BY <2>1, <2>3, MovesKeeps
  <2>4. CASE owner[account[c]] = issuer[code[c]] /\ Moves(c, "burn")
    BY <2>1, <2>4, MovesKeeps
  <2>5. CASE Answer(c, "merge_required", issuer[code[c]])
    BY <2>1, <2>2, <2>5, AnswerKeeps
  <2> QED
    BY <1>4, <2>3, <2>4, <2>5 DEF ReadTarget
<1>5. CASE Fail(c)
  <2>1. Answer(c, "raised", None) /\ pc[c] # "done"
    BY <1>5 DEF Fail
  <2> QED
    BY <2>1, AnswerKeeps
<1> QED
  BY <1>1, <1>2, <1>3, <1>4, <1>5

\* A new customer takes an account that nobody owned: nothing that was read is undone.
LEMMA CreateKeeps == ASSUME IInv, NEW c \in Calls, Create(c) PROVE IInv'
<1>1. account[c] \in Accounts /\ pc[c] = "create"
  BY DEF IInv, Facts, Control, Create, At, Resolving, Consuming
<1>2. CASE Known(account[c])
  <2>1. Answer(c, "raised", None)
    BY <1>2 DEF Create
  <2> QED
    BY <1>1, <2>1, AnswerKeeps DEF Answers
<1>3. CASE ~Known(account[c])
  <2>1. PICK u \in Customers \ customers :
          /\ customers' = customers \cup {u}
          /\ owner' = [owner EXCEPT ![account[c]] = u]
          /\ Return(c, "resolved", u)
    BY <1>3 DEF Create
  <2>2. UNCHANGED <<via, issuer, consumed, expired>> /\ owner[account[c]] = None
    BY <1>3 DEF Create, Known
  <2>3. u # None
    BY LinkingAssumption
  <2> USE <1>1, <2>1, <2>2, <2>3 DEF IInv, Return, Goto
  <2>4. TypeOK'
    BY DEF TypeOK, Labels, Answers
  <2>5. EveryCustomerHasAnAccount'
    <3>1. \A a \in Accounts : owner'[a] = IF a = account[c] THEN u ELSE owner[a]
      BY DEF TypeOK
    <3> QED
      BY <3>1 DEF EveryCustomerHasAnAccount
  <2>6. Control'
    BY DEF TypeOK, Facts, Control, Resolving, Consuming
  <2>7. ReadsStayTrue'
    BY DEF TypeOK, Facts, Control, ReadsStayTrue, Resolving, Consuming
  <2>8. IssuersExist' /\ AttachedHasOwner'
    BY DEF TypeOK, Facts, IssuersExist, AttachedHasOwner
  <2>9. AnswersHold'
    BY DEF TypeOK, Facts, Control, AnswersHold
  <2> QED
    BY <2>4, <2>5, <2>6, <2>7, <2>8, <2>9 DEF Facts
<1> QED
  BY <1>2, <1>3

\* The issuer of a code takes an account that nobody owned.
LEMMA AttachKeeps == ASSUME IInv, NEW c \in Calls, Attach(c) PROVE IInv'
<1>1. account[c] \in Accounts /\ code[c] \in Codes /\ pc[c] = "link" /\ issuer[code[c]] # None
  BY DEF IInv, Facts, Control, ReadsStayTrue, Attach, At, Resolving, Consuming
<1>2. CASE Known(account[c])
  <2>1. Answer(c, "raised", None)
    BY <1>2 DEF Attach
  <2> QED
    BY <1>1, <2>1, AnswerKeeps DEF Answers
<1>3. CASE ~Known(account[c])
  <2>1. /\ owner[account[c]] = None
        /\ owner' = [owner EXCEPT ![account[c]] = issuer[code[c]]]
        /\ via' = [via EXCEPT ![account[c]] = code[c]]
        /\ consumed' = consumed \cup {code[c]}
        /\ Return(c, "linked", issuer[code[c]])
        /\ UNCHANGED <<customers, issuer, expired>>
    BY <1>3 DEF Attach, Known
  <2>2. issuer[code[c]] \in customers /\ issuer[code[c]] \in Customers
    BY <1>1 DEF IInv, TypeOK, Facts, IssuersExist
  <2> USE <1>1, <2>1, <2>2 DEF IInv, Return, Goto
  <2>3. TypeOK'
    BY DEF TypeOK, Labels, Answers
  <2>4. EveryCustomerHasAnAccount'
    <3>1. \A a \in Accounts : owner'[a] = IF a = account[c] THEN issuer[code[c]] ELSE owner[a]
      BY DEF TypeOK
    <3> QED
      BY <3>1 DEF EveryCustomerHasAnAccount
  <2>5. Control'
    BY DEF TypeOK, Facts, Control, Resolving, Consuming
  <2>6. ReadsStayTrue'
    BY DEF TypeOK, Facts, Control, ReadsStayTrue, Resolving, Consuming
  <2>7. IssuersExist' /\ AttachedHasOwner'
    BY LinkingAssumption DEF TypeOK, Facts, IssuersExist, AttachedHasOwner
  <2>8. AnswersHold'
    BY DEF TypeOK, Facts, Control, AnswersHold
  <2> QED
    BY <2>3, <2>4, <2>5, <2>6, <2>7, <2>8 DEF Facts
<1> QED
  BY <1>2, <1>3

\* The code is used up although the account was the issuer's already.
LEMMA BurnKeeps == ASSUME IInv, NEW c \in Calls, Burn(c) PROVE IInv'
<1>1. /\ account[c] \in Accounts /\ code[c] \in Codes /\ pc[c] = "burn"
      /\ issuer[code[c]] # None /\ owner[account[c]] = issuer[code[c]]
  BY DEF IInv, Facts, Control, ReadsStayTrue, Burn, At, Resolving, Consuming
<1>2. issuer[code[c]] \in Customers
  BY <1>1 DEF IInv, TypeOK
<1> USE <1>1, <1>2 DEF IInv, Burn, Return, Goto
<1>3. TypeOK'
  BY DEF TypeOK, Labels, Answers
<1>4. EveryCustomerHasAnAccount'
  BY DEF EveryCustomerHasAnAccount
<1>5. Control'
  BY DEF TypeOK, Facts, Control, Resolving, Consuming
<1>6. ReadsStayTrue' /\ IssuersExist' /\ AttachedHasOwner'
  BY DEF TypeOK, Facts, ReadsStayTrue, IssuersExist, AttachedHasOwner
<1>7. AnswersHold'
  BY DEF TypeOK, Facts, AnswersHold
<1> QED
  BY <1>3, <1>4, <1>5, <1>6, <1>7 DEF Facts

\* A call that begins is given its inputs.
LEMMA InvokeKeeps ==
    ASSUME IInv, NEW c \in Calls, NEW a \in Accounts,
           InvokeResolve(c, a) \/ \E k \in Codes : InvokeConsume(c, k, a)
    PROVE  IInv'
<1> USE DEF IInv, InvokeResolve, InvokeConsume, At, Goto, store
<1>1. TypeOK'
  BY DEF TypeOK, Labels
<1>2. EveryCustomerHasAnAccount'
  BY DEF EveryCustomerHasAnAccount
<1>3. Control'
  BY DEF TypeOK, Facts, Control, Resolving, Consuming
<1>4. ReadsStayTrue'
  BY DEF TypeOK, Facts, ReadsStayTrue
<1>5. IssuersExist' /\ AttachedHasOwner'
  BY DEF Facts, IssuersExist, AttachedHasOwner
<1>6. AnswersHold'
  BY DEF TypeOK, Facts, Control, AnswersHold
<1> QED
  BY <1>1, <1>2, <1>3, <1>4, <1>5, <1>6 DEF Facts

\* A code is issued to a customer that exists, or runs out.
LEMMA CodesKeep ==
    ASSUME IInv, NEW u \in Customers, NEW k \in Codes, Issue(u, k) \/ Expire(k)
    PROVE  IInv'
<1> USE DEF IInv, Issue, Expire, local
<1>1. TypeOK'
  BY DEF TypeOK
<1>2. EveryCustomerHasAnAccount'
  BY DEF EveryCustomerHasAnAccount
<1>3. Control' /\ AnswersHold'
  BY DEF Facts, Control, AnswersHold
<1>4. ReadsStayTrue'
  BY LinkingAssumption DEF TypeOK, Facts, Control, ReadsStayTrue, Resolving, Consuming
<1>5. IssuersExist'
  BY DEF TypeOK, Facts, IssuersExist
<1>6. AttachedHasOwner'
  BY DEF TypeOK, Facts, AttachedHasOwner
<1> QED
  BY <1>1, <1>2, <1>3, <1>4, <1>5, <1>6 DEF Facts

\* Every step keeps the inductive invariant.
LEMMA Inductive == IInv /\ [Next]_vars => IInv'
<1> SUFFICES ASSUME IInv, [Next]_vars PROVE IInv'
  OBVIOUS
<1>1. CASE UNCHANGED vars
  BY <1>1 DEF vars, store, local, IInv, TypeOK, EveryCustomerHasAnAccount, Facts, Control,
     ReadsStayTrue, IssuersExist, AnswersHold, AttachedHasOwner
<1>2. CASE \E c \in Calls : Step(c) \/ Fail(c)
  BY <1>2, ReadingKeeps, CreateKeeps, AttachKeeps, BurnKeeps DEF Step
<1>3. CASE \E c \in Calls, a \in Accounts : InvokeResolve(c, a)
  BY <1>3, InvokeKeeps
<1>4. CASE \E c \in Calls, k \in Codes, a \in Accounts : InvokeConsume(c, k, a)
  BY <1>4, InvokeKeeps
<1>5. CASE \E u \in Customers, k \in Codes : Issue(u, k)
  BY <1>5, CodesKeep
<1>6. CASE \E k \in Codes : Expire(k)
  <2>1. PICK k \in Codes : Expire(k)
    BY <1>6
  <2>2. issuer[k] \in Customers
    BY <2>1 DEF IInv, TypeOK, Expire
  <2> QED
    BY <2>1, <2>2, CodesKeep
<1> QED
  BY <1>1, <1>2, <1>3, <1>4, <1>5, <1>6 DEF Next

-----------------------------------------------------------------------------
\* Every reachable state satisfies the inductive invariant.
THEOREM Invariance == Spec => []IInv
  BY Initially, Inductive, PTL DEF Spec

\* Every variable keeps its type.
THEOREM TypeCorrect == Spec => []TypeOK
<1>1. IInv => TypeOK
  BY DEF IInv
<1> QED
  BY <1>1, Invariance, PTL

\* resolve_customer never leaves a customer without an account behind, however many
\* first contacts of an account race and wherever they fail.
THEOREM NoStrayCustomer == Spec => []EveryCustomerHasAnAccount
<1>1. IInv => EveryCustomerHasAnAccount
  BY DEF IInv
<1> QED
  BY <1>1, Invariance, PTL

\* A customer that any call answered with still owns the account it was asked about.
THEOREM AnswersRemainTrue == Spec => []AnswersStayTrue
<1>1. IInv => AnswersStayTrue
  BY DEF IInv, Facts, AnswersHold, AnswersStayTrue
<1> QED
  BY <1>1, Invariance, PTL

\* A code that attached an account, or was burnt, stays used up.
THEOREM UsedUpCodes == Spec => []UsedUpCodesStayInvalid
<1>1. IInv => UsedUpCodesStayInvalid
  BY DEF IInv, Facts, AnswersHold, AttachedHasOwner, UsedUpCodesStayInvalid
<1> QED
  BY <1>1, Invariance, PTL

\* No step of any call takes an account from its owner.
THEOREM AccountsStay == Spec => OwnersStay
<1> DEFINE Stays == \A a \in Accounts : Known(a) => owner'[a] = owner[a] /\ via'[a] = via[a]
<1>1. ASSUME IInv, [Next]_vars PROVE Stays
  <2>1. CASE UNCHANGED <<owner, via>>
    BY <2>1 DEF Known
  <2>2. ASSUME NEW c \in Calls, Create(c) PROVE Stays
    BY <1>1, <2>2 DEF Create, Answer, store, Known, IInv, TypeOK
  <2>3. ASSUME NEW c \in Calls, Attach(c) PROVE Stays
    BY <1>1, <2>3 DEF Attach, Answer, store, Known, IInv, TypeOK
  <2>4. CASE UNCHANGED vars
    BY <2>1, <2>4 DEF vars, store
  <2>5. ASSUME NEW c \in Calls, (Step(c) /\ ~Create(c) /\ ~Attach(c)) \/ Fail(c) PROVE Stays
    BY <2>1, <2>5 DEF Step, Fail, Find, Recheck, ReadCode, ReadTarget, Burn, Moves, Answer, store
  <2>6. ASSUME NEW c \in Calls, NEW a \in Accounts, InvokeResolve(c, a) PROVE Stays
    BY <2>1, <2>6 DEF InvokeResolve, store
  <2>7. ASSUME NEW k \in Codes, Expire(k) PROVE Stays
    BY <2>1, <2>7 DEF Expire
  <2>8. ASSUME NEW c \in Calls, NEW k \in Codes, NEW a \in Accounts, InvokeConsume(c, k, a)
        PROVE  Stays
    BY <2>1, <2>8 DEF InvokeConsume, store
  <2>9. ASSUME NEW u \in Customers, NEW k \in Codes, Issue(u, k) PROVE Stays
    BY <2>1, <2>9 DEF Issue
  <2> QED
    BY <1>1, <2>2, <2>3, <2>4, <2>5, <2>6, <2>7, <2>8, <2>9 DEF Next
<1>2. IInv /\ [Next]_vars => [Stays]_vars
  BY <1>1
<1> QED
  BY <1>2, Invariance, PTL DEF Spec, OwnersStay

-----------------------------------------------------------------------------
(* The bot. *)

(* The inductive invariant.  The batch in hand starts where the bot stands,  *)
(* and that is the larger of its offset, which a kill resets, and of what    *)
(* Telegram has been told.  All below has been handled; what is at or above  *)
(* it only by processes that were killed.                                    *)
BatchInv ==
    /\ phase = "idle" <=> batch = <<>>
    /\ \A k \in 1 .. Len(batch) : batch[k] = Asked + k - 1

Progress ==
    \A i \in Ids :
        /\ i < Asked => handled[i] > 0
        /\ handled[i] <= 1 + crashes
        /\ i >= Asked => handled[i] <= crashes

BotIInv == BotTypeOK /\ IInv /\ BatchInv /\ Progress /\ crashes <= faults

-----------------------------------------------------------------------------
LEMMA AskedTyped ==
  ASSUME BotTypeOK
  PROVE  Asked \in 1 .. Len(Updates) + 1 /\ Len(Updates) \in Nat /\ Ids = 1 .. Len(Updates)
  <1>1. Len(Updates) \in Nat /\ Ids = 1 .. Len(Updates)
    BY BotAssumption DEF Ids
  <1> QED BY <1>1 DEF BotTypeOK, Asked

(* The update in hand is the one the bot stands at. *)
LEMMA HandAsked ==
  ASSUME BotTypeOK, BatchInv, phase # "idle"
  PROVE  /\ InHand \in Ids /\ InHand = Asked /\ batch # <<>>
         /\ Tail(batch) \in Seq(Ids) /\ Len(Tail(batch)) = Len(batch) - 1 /\ Len(batch) \in Nat \ {0}
         /\ \A k \in 1 .. Len(Tail(batch)) : Tail(batch)[k] = batch[k + 1]
  <1>1. batch # <<>> /\ batch \in Seq(Ids)
    BY DEF BatchInv, BotTypeOK
  <1>2. Len(batch) \in Nat \ {0} /\ InHand = batch[1] /\ InHand \in Ids
    BY <1>1 DEF InHand
  <1>3. batch[1] = Asked
    BY <1>2, AskedTyped DEF BatchInv
  <1>4. /\ Tail(batch) \in Seq(Ids) /\ Len(Tail(batch)) = Len(batch) - 1
        /\ \A k \in 1 .. Len(Tail(batch)) : Tail(batch)[k] = batch[k + 1]
    BY <1>1, <1>2
  <1> QED BY <1>1, <1>2, <1>3, <1>4

(* What Telegram hands out: at most Limit updates, from the one it is asked   *)
(* for on, of those that are there.                                           *)
LEMMA OfferedTyped ==
  ASSUME BotTypeOK
  PROVE  /\ Offered \in Seq(Ids) /\ Len(Offered) <= Limit
         /\ \A k \in 1 .. Len(Offered) : Offered[k] = Asked + k - 1
  <1> DEFINE last == IF Asked + Limit - 1 < arrived THEN Asked + Limit - 1 ELSE arrived
             n == IF last < Asked THEN 0 ELSE last + 1 - Asked
  <1>1. /\ Asked \in 1 .. Len(Updates) + 1 /\ Len(Updates) \in Nat /\ Ids = 1 .. Len(Updates)
        /\ arrived \in 0 .. Len(Updates) /\ Limit \in Nat
    BY AskedTyped, BotAssumption DEF BotTypeOK
  <1>2. n \in Nat /\ n <= Limit /\ \A k \in 1 .. n : Asked + k - 1 \in Ids
    BY <1>1
  <1>3. Offered = [k \in 1 .. n |-> Asked + k - 1]
    BY DEF Offered
  <1> HIDE DEF n, last
  <1>4. Offered \in [1 .. n -> Ids]
    BY <1>2, <1>3
  <1>5. Offered \in Seq(Ids) /\ Len(Offered) = n
    BY <1>2, <1>4
  <1> QED BY <1>2, <1>3, <1>5

LEMMA BotInitially == BotInit => BotIInv
  <1> SUFFICES ASSUME BotInit PROVE BotIInv
    OBVIOUS
  <1>0. Len(Updates) \in Nat /\ Ids = 1 .. Len(Updates)
    BY BotAssumption DEF Ids
  <1>1. IInv
    BY Initially DEF BotInit
  <1>2. BotTypeOK
    BY <1>0, <1>1, BotAssumption DEF BotInit, BotTypeOK, IInv, Phases
  <1>3. BatchInv
    BY DEF BotInit, BatchInv
  <1>4. Progress
    BY <1>0 DEF BotInit, Progress, Asked
  <1> QED BY <1>1, <1>2, <1>3, <1>4 DEF BotIInv, BotInit

-----------------------------------------------------------------------------
(* Whatever the bot or anybody else does, the tables of account linking see   *)
(* one of its own steps or none: poll_batch reaches them by resolve_customer  *)
(* alone.                                                                     *)
LEMMA LinkingStep ==
  ASSUME BotTypeOK, BatchInv, [BotNext]_allVars
  PROVE  [Next]_vars
  <1> USE BotAssumption
  <1>1. CASE UNCHANGED vars
    BY <1>1
  <1>2. ASSUME NEW c \in BotCalls, Route(c) PROVE [Next]_vars
    <2>1. InHand \in Ids /\ Updates[InHand] \in Update
      BY <1>2, HandAsked DEF Route, Ids
    <2>2. PICK a \in Accounts : a = Updates[InHand].from
      BY <1>2, <2>1 DEF Route, Valid, Update
    <2> QED BY <1>2, <2>2 DEF Route, Next
  <1>3. ASSUME phase = "resolve", Step(serving) \/ Fail(serving) PROVE [Next]_vars
    <2>1. serving \in BotCalls \cup {None} /\ serving # None
      BY <1>3 DEF BotTypeOK
    <2>2. PICK c \in Calls : c = serving
      BY <2>1
    <2> QED BY <1>3, <2>2 DEF Next
  <1>4. CASE Others
    BY <1>4 DEF Others, Next
  <1> QED
    BY <1>1, <1>2, <1>3, <1>4 DEF BotNext, BotStep, allVars, Send, Poll, RouteInvalid, RouteRaises,
       Resolve, Reply, ResolveRaised, ResolveFails, Kill

-----------------------------------------------------------------------------
(* The parts of the state by the actions that write them. *)
RunnerOK ==
    /\ offset \in 0 .. Len(Updates) + 1
    /\ batch \in Seq(Ids) /\ Len(batch) <= Limit
    /\ phase \in Phases
    /\ serving \in BotCalls \cup {None} /\ (serving # None <=> phase = "resolve")

CountsOK ==
    /\ arrived \in 0 .. Len(Updates) /\ confirmed \in 1 .. Len(Updates) + 1
    /\ faults \in 0 .. MaxFaults /\ crashes \in 0 .. MaxFaults /\ crashes <= faults
    /\ handled \in [Ids -> Nat]
    /\ told \in [Ids -> SUBSET Customers]

Own == RunnerOK /\ CountsOK /\ BatchInv /\ Progress

LEMMA OwnParts == BotIInv <=> IInv /\ Own
  BY DEF BotIInv, BotTypeOK, Own, RunnerOK, CountsOK, IInv

(* An update is handled to the end: the bot stands at the next one. *)
LEMMA RoutedKeeps ==
  ASSUME BotIInv, phase # "idle", NEW us \in SUBSET Customers, Routed(us), UNCHANGED faults
  PROVE  Own'
  <1>0. BotTypeOK /\ BatchInv /\ Progress /\ crashes <= faults
    BY DEF BotIInv
  <1>1. /\ InHand \in Ids /\ InHand = Asked /\ batch # <<>>
        /\ Tail(batch) \in Seq(Ids) /\ Len(Tail(batch)) = Len(batch) - 1 /\ Len(batch) \in Nat \ {0}
        /\ \A k \in 1 .. Len(Tail(batch)) : Tail(batch)[k] = batch[k + 1]
    BY <1>0, HandAsked
  <1>2. Asked \in 1 .. Len(Updates) + 1 /\ Len(Updates) \in Nat /\ Ids = 1 .. Len(Updates)
    BY <1>0, AskedTyped
  <1>3. PICK i \in Ids : i = InHand
    BY <1>1
  <1>4. /\ handled' = [handled EXCEPT ![i] = handled[i] + 1]
        /\ told' = [told EXCEPT ![i] = told[i] \cup us]
        /\ offset' = i + 1 /\ batch' = Tail(batch) /\ serving' = None
        /\ phase' = IF batch' = <<>> THEN "idle" ELSE "route"
        /\ UNCHANGED <<arrived, confirmed, faults, crashes>>
    BY <1>3 DEF Routed, telegram
  <1>5. RunnerOK'
    <2>1. offset' \in 0 .. Len(Updates) + 1
      BY <1>2, <1>4
    <2>2. batch' \in Seq(Ids) /\ Len(batch') <= Limit
      BY <1>0, <1>1, <1>4, BotAssumption DEF BotTypeOK
    <2> QED BY <1>4, <2>1, <2>2 DEF RunnerOK, Phases
  <1>6. CountsOK'
    BY <1>0, <1>4 DEF CountsOK, BotTypeOK
  <1>7. Asked' = Asked + 1
    BY <1>0, <1>1, <1>3, <1>4 DEF Asked, BotTypeOK
  <1>8. BatchInv'
    <2>1. phase' = "idle" <=> batch' = <<>>
      BY <1>4
    <2>2. ASSUME NEW k \in 1 .. Len(batch') PROVE batch'[k] = Asked' + k - 1
      <3>1. batch'[k] = batch[k + 1] /\ k + 1 \in 1 .. Len(batch)
        BY <1>1, <1>4
      <3>2. batch[k + 1] = Asked + (k + 1) - 1
        BY <1>0, <3>1 DEF BatchInv
      <3> QED BY <1>2, <1>7, <3>1, <3>2
    <2> QED BY <2>1, <2>2 DEF BatchInv
  <1>9. Progress'
    <2> SUFFICES ASSUME NEW j \in Ids
                 PROVE  /\ j < Asked' => handled'[j] > 0
                        /\ handled'[j] <= 1 + crashes'
                        /\ j >= Asked' => handled'[j] <= crashes'
      BY DEF Progress
    <2>1. handled[j] \in Nat /\ j \in Nat /\ Asked \in Nat /\ crashes \in Nat
      <3>1. handled[j] \in Nat /\ crashes \in Nat
        BY <1>0, BotAssumption DEF BotTypeOK
      <3>2. j \in Nat /\ Asked \in Nat
        BY <1>2
      <3> QED BY <3>1, <3>2
    <2>2. CASE j = i
      <3>1. handled'[j] = handled[j] + 1 /\ j = Asked /\ handled[j] <= crashes
        BY <1>0, <1>1, <1>3, <1>4, <2>1, <2>2 DEF Progress, BotTypeOK
      <3> QED BY <1>4, <1>7, <2>1, <3>1
    <2>3. CASE j # i
      <3>1. handled'[j] = handled[j] /\ j # Asked
        BY <1>0, <1>1, <1>3, <1>4, <2>3 DEF BotTypeOK
      <3> QED BY <1>0, <1>4, <1>7, <2>1, <3>1 DEF Progress
    <2> QED BY <2>2, <2>3
  <1> QED BY <1>5, <1>6, <1>8, <1>9 DEF Own

(* The batch is given up: the offset is as far as it got. *)
LEMMA RaisedKeeps ==
  ASSUME BotIInv, Raised, UNCHANGED faults
  PROVE  Own'
  <1>1. Len(<<>>) = 0 /\ <<>> \in Seq(Ids)
    OBVIOUS
  <1>2. Asked' = Asked
    BY DEF Raised, telegram, Asked
  <1>3. RunnerOK' /\ CountsOK'
    BY <1>1, BotAssumption DEF BotIInv, Raised, telegram, RunnerOK, CountsOK, BotTypeOK, Phases
  <1>4. BatchInv' /\ Progress'
    BY <1>1, <1>2 DEF BotIInv, Raised, telegram, BatchInv, Progress
  <1> QED BY <1>3, <1>4 DEF Own

(* A kill takes the offset back to what Telegram has been told; every update  *)
(* may be handled once more.                                                  *)
LEMMA KillKeeps ==
  ASSUME BotIInv, Kill
  PROVE  Own'
  <1>0. BotTypeOK /\ Progress /\ crashes <= faults
    BY DEF BotIInv
  <1>1. Len(<<>>) = 0 /\ <<>> \in Seq(Ids)
    OBVIOUS
  <1>2. /\ faults' = faults + 1 /\ faults < MaxFaults /\ crashes' = crashes + 1
        /\ offset' = 0 /\ batch' = <<>> /\ phase' = "idle" /\ serving' = None
        /\ UNCHANGED <<arrived, confirmed, handled, told>>
    BY DEF Kill, Fault, telegram
  <1>3. Asked' = confirmed /\ confirmed <= Asked /\ confirmed \in Nat /\ Asked \in Nat
    BY <1>0, <1>2, BotAssumption DEF Asked, BotTypeOK
  <1>4. RunnerOK'
    BY <1>1, <1>2, BotAssumption DEF RunnerOK, Phases
  <1>5. CountsOK'
    BY <1>0, <1>2, BotAssumption DEF CountsOK, BotTypeOK
  <1>6. BatchInv'
    BY <1>1, <1>2 DEF BatchInv
  <1>7. Progress'
    <2>1. \A i \in Ids : handled[i] \in Nat /\ i \in Nat
      BY <1>0, AskedTyped DEF BotTypeOK
    <2>2. crashes \in Nat
      BY <1>0, BotAssumption DEF BotTypeOK
    <2> QED BY <1>0, <1>2, <1>3, <2>1, <2>2 DEF Progress
  <1> QED BY <1>4, <1>5, <1>6, <1>7 DEF Own

LEMMA PollKeeps ==
  ASSUME BotIInv, Poll
  PROVE  Own'
  <1>0. BotTypeOK /\ Progress /\ crashes <= faults
    BY DEF BotIInv
  <1>1. Len(<<>>) = 0 /\ <<>> \in Seq(Ids)
    OBVIOUS
  <1>2. /\ confirmed' = Asked /\ batch' \in {Offered, <<>>}
        /\ phase' = IF batch' = <<>> THEN "idle" ELSE "route"
        /\ UNCHANGED <<arrived, faults, offset, serving, handled, told, crashes>> /\ phase = "idle"
    BY DEF Poll
  <1>3. Asked' = Asked
    BY <1>2 DEF Asked
  <1>4. Asked \in 1 .. Len(Updates) + 1
    BY <1>0, AskedTyped
  <1>5. /\ batch' \in Seq(Ids) /\ Len(batch') <= Limit
        /\ \A k \in 1 .. Len(batch') : batch'[k] = Asked' + k - 1
    <2>1. CASE batch' = Offered
      BY <1>0, <1>3, <2>1, OfferedTyped
    <2>2. CASE batch' = <<>>
      BY <1>1, <2>2, BotAssumption
    <2> QED BY <1>2, <2>1, <2>2
  <1>6. RunnerOK'
    BY <1>0, <1>2, <1>5 DEF RunnerOK, BotTypeOK, Phases
  <1>7. CountsOK'
    BY <1>0, <1>2, <1>4 DEF CountsOK, BotTypeOK
  <1>8. BatchInv'
    BY <1>2, <1>5 DEF BatchInv
  <1>9. Progress'
    BY <1>0, <1>2, <1>3 DEF Progress
  <1> QED BY <1>6, <1>7, <1>8, <1>9 DEF Own

LEMMA RouteKeeps ==
  ASSUME BotIInv, NEW c \in BotCalls, Route(c)
  PROVE  Own'
  <1>0. BotTypeOK /\ BatchInv /\ Progress /\ crashes <= faults
    BY DEF BotIInv
  <1>1. /\ serving' = c /\ phase' = "resolve" /\ phase = "route"
        /\ UNCHANGED <<arrived, confirmed, faults, offset, batch, handled, told, crashes>>
    BY DEF Route, telegram
  <1>2. c # None
    BY BotAssumption
  <1>3. RunnerOK' /\ CountsOK'
    BY <1>0, <1>1, <1>2 DEF RunnerOK, CountsOK, BotTypeOK, Phases
  <1>4. BatchInv' /\ Progress'
    BY <1>0, <1>1 DEF BatchInv, Progress, Asked
  <1> QED BY <1>3, <1>4 DEF Own

LEMMA BotInductive == BotIInv /\ [BotNext]_allVars => BotIInv'
  <1> SUFFICES ASSUME BotIInv, [BotNext]_allVars PROVE BotIInv'
    OBVIOUS
  <1>1. IInv'
    BY LinkingStep, Inductive DEF BotIInv
  <1>2. ASSUME UNCHANGED <<runner, telegram, faults, handled, told, crashes>> PROVE Own'
    BY <1>2, OwnParts DEF Own, RunnerOK, CountsOK, BatchInv, Progress, Asked, runner, telegram
  <1>3. ASSUME Send PROVE Own'
    <2>1. Len(Updates) \in Nat
      BY BotAssumption
    <2>2. CountsOK'
      BY <1>3, <2>1, OwnParts DEF Own, CountsOK, Send
    <2>3. RunnerOK' /\ BatchInv' /\ Progress'
      BY <1>3, OwnParts DEF Own, RunnerOK, BatchInv, Progress, Asked, runner, Send
    <2> QED BY <2>2, <2>3 DEF Own
  <1>4. ASSUME Poll PROVE Own'
    BY <1>4, PollKeeps
  <1>5. ASSUME RouteInvalid PROVE Own'
    BY <1>5, RoutedKeeps DEF RouteInvalid
  <1>6. ASSUME RouteRaises PROVE Own'
    BY <1>6, RaisedKeeps DEF RouteRaises
  <1>7. ASSUME NEW c \in BotCalls, Route(c) PROVE Own'
    BY <1>7, RouteKeeps
  <1>8. ASSUME Resolve PROVE Own'
    BY <1>2, <1>8 DEF Resolve, botVars
  <1>9. ASSUME Reply PROVE Own'
    <2>1. serving \in Calls
      BY <1>9, BotAssumption DEF Reply, BotIInv, BotTypeOK
    <2>2. resolved[serving] \in Customers
      BY <1>9, <2>1 DEF Reply, BotIInv, IInv, Facts, AnswersHold, TypeOK
    <2>3. PICK u \in Customers : u = resolved[serving]
      BY <2>2
    <2> QED BY <1>9, <2>3, RoutedKeeps DEF Reply
  <1>10. ASSUME ResolveRaised PROVE Own'
    BY <1>10, RaisedKeeps DEF ResolveRaised
  <1>11. ASSUME ResolveFails PROVE Own'
    <2>1. /\ faults' = faults + 1 /\ faults < MaxFaults
          /\ UNCHANGED <<runner, telegram, handled, told, crashes>>
      BY <1>11 DEF ResolveFails, Fault
    <2>2. CountsOK'
      BY <2>1, OwnParts, BotAssumption DEF Own, CountsOK, telegram
    <2>3. RunnerOK' /\ BatchInv' /\ Progress'
      BY <2>1, OwnParts DEF Own, RunnerOK, BatchInv, Progress, Asked, runner, telegram
    <2> QED BY <2>2, <2>3 DEF Own
  <1>12. ASSUME Kill PROVE Own'
    BY <1>12, KillKeeps
  <1>13. ASSUME Others \/ UNCHANGED allVars PROVE Own'
    BY <1>2, <1>13 DEF Others, botVars, allVars
  <1>14. Own'
    BY <1>3, <1>4, <1>5, <1>6, <1>7, <1>8, <1>9, <1>10, <1>11, <1>12, <1>13 DEF BotNext, BotStep
  <1>15. BotTypeOK'
    BY <1>1, <1>14 DEF Own, RunnerOK, CountsOK, BotTypeOK, IInv
  <1> QED BY <1>1, <1>14, <1>15 DEF BotIInv, Own, CountsOK

-----------------------------------------------------------------------------
(* The inductive invariant holds, through kills, exceptions and failures at   *)
(* any step and whatever other processes do to the accounts.                  *)
THEOREM BotInvariance == BotSpec => []BotIInv
  BY BotInitially, BotInductive, PTL DEF BotSpec

(* Every variable of poll_batch, and of the calls it makes, keeps its type.   *)
THEOREM BotTypeCorrect == BotSpec => []BotTypeOK
  <1>1. BotIInv => BotTypeOK
    BY DEF BotIInv
  <1> QED BY <1>1, BotInvariance, PTL

(* The bot uses account linking as the linking module says it may be used:    *)
(* with the bot running, the accounts still behave as AccountLinking's Spec.  *)
THEOREM BotLinks == BotSpec => Spec
  <1>1. BotInit => Init
    BY DEF BotInit
  <1>2. BotIInv /\ [BotNext]_allVars => [Next]_vars
    BY LinkingStep DEF BotIInv
  <1> QED BY <1>1, <1>2, BotInvariance, PTL DEF BotSpec, Spec

(* So a resolve_customer that the bot makes, or gives up in the middle,       *)
(* leaves no customer without an account.                                     *)
THEOREM BotNoStrayCustomer == BotSpec => []EveryCustomerHasAnAccount
  BY BotLinks, NoStrayCustomer, PTL

(* And no message to the bot takes an account from its owner.                 *)
THEOREM BotAccountsStay == BotSpec => OwnersStay
  BY BotLinks, AccountsStay, PTL

(* No update is lost: the offset that poll_batch acknowledges with is never   *)
(* past an update that was not handled to the end.                            *)
THEOREM NoUpdateLost == BotSpec => []ConfirmedWasHandled
  <1>1. BotIInv => ConfirmedWasHandled
    <2> SUFFICES ASSUME BotIInv, NEW i \in Ids, i < confirmed PROVE handled[i] > 0
      BY DEF ConfirmedWasHandled
    <2>1. confirmed <= Asked /\ Asked \in Nat /\ confirmed \in Nat /\ i \in Nat
      BY AskedTyped, BotAssumption DEF BotIInv, BotTypeOK, Asked
    <2> QED BY <2>1 DEF BotIInv, Progress
  <1> QED BY <1>1, BotInvariance, PTL

(* An update is handled once for every time the bot was started, at most:     *)
(* exceptions repeat nothing.                                                 *)
THEOREM RepeatsExplained == BotSpec => []RepeatsNeedACrash
  <1>1. BotIInv => RepeatsNeedACrash
    BY DEF BotIInv, Progress, RepeatsNeedACrash
  <1> QED BY <1>1, BotInvariance, PTL
=============================================================================
