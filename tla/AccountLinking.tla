---------------------------- MODULE AccountLinking ----------------------------
(* Who is who across platforms: account_service.resolve_customer and        *)
(* account_linking.issue_link_code / consume_link_code.                     *)
(*                                                                          *)
(* A CALL is one invocation, by one of several processes on the database.   *)
(* As in Fulfilment, a SELECT ahead of a transaction's first write is a     *)
(* step of its own, a transaction's writes are one step, and any step may   *)
(* fail.  platform_accounts is UNIQUE(platform_name, platform_user_id), so  *)
(* an INSERT of an account that has an owner raises and rolls back.         *)
CONSTANTS
    Accounts,    \* (platform_name, platform_user_id)
    Customers,   \* customers.id
    Codes,       \* account_link_tokens
    Calls,       \* invocations
    None         \* no value

ASSUME LinkingAssumption == None \notin Customers \cup Codes \cup Accounts

VARIABLES
    customers,   \* the customers table
    owner,       \* platform_accounts.customer_id
    via,         \* the code that attached the account, None when it was registered
    issuer,      \* account_link_tokens.customer_id, None when not issued
    consumed,    \* the codes with a consumed_at
    expired      \* the codes past their expires_at

store == <<customers, owner, via, issuer, consumed, expired>>

VARIABLES
    pc,          \* the next step of each call
    account,     \* the account it was given
    code,        \* the code it was given, None for resolve_customer
    answer,      \* how it ended
    resolved     \* the customer it returned

local == <<pc, account, code, answer, resolved>>
vars == <<store, local>>

Labels == {"idle", "find", "recheck", "create", "read_code", "read_target", "link", "burn", "done"}
Answers == {"none", "resolved", "linked", "already_linked", "merge_required", "invalid", "raised"}

TypeOK ==
    /\ customers \in SUBSET Customers
    /\ owner \in [Accounts -> Customers \cup {None}]
    /\ via \in [Accounts -> Codes \cup {None}]
    /\ issuer \in [Codes -> Customers \cup {None}]
    /\ consumed \in SUBSET Codes
    /\ expired \in SUBSET Codes
    /\ pc \in [Calls -> Labels]
    /\ account \in [Calls -> Accounts \cup {None}]
    /\ code \in [Calls -> Codes \cup {None}]
    /\ answer \in [Calls -> Answers]
    /\ resolved \in [Calls -> Customers \cup {None}]

Init ==
    /\ customers = {}
    /\ owner = [a \in Accounts |-> None]
    /\ via = [a \in Accounts |-> None]
    /\ issuer = [k \in Codes |-> None]
    /\ consumed = {}
    /\ expired = {}
    /\ pc = [c \in Calls |-> "idle"]
    /\ account = [c \in Calls |-> None]
    /\ code = [c \in Calls |-> None]
    /\ answer = [c \in Calls |-> "none"]
    /\ resolved = [c \in Calls |-> None]

-----------------------------------------------------------------------------
At(c, label) == pc[c] = label
Goto(c, label) == pc' = [pc EXCEPT ![c] = label]
Moves(c, label) == Goto(c, label) /\ UNCHANGED <<store, account, code, answer, resolved>>

Return(c, how, customer) ==
    /\ Goto(c, "done")
    /\ answer' = [answer EXCEPT ![c] = how]
    /\ resolved' = [resolved EXCEPT ![c] = customer]
    /\ UNCHANGED <<account, code>>

\* The result of a call that wrote nothing.
Answer(c, how, customer) == Return(c, how, customer) /\ UNCHANGED store

Known(a) == owner[a] # None

Usable(k) == issuer[k] # None /\ k \notin consumed \cup expired

-----------------------------------------------------------------------------
(* resolve_customer. *)

InvokeResolve(c, a) ==
    /\ At(c, "idle")
    /\ account' = [account EXCEPT ![c] = a]
    /\ Goto(c, "find")
    /\ UNCHANGED <<store, code, answer, resolved>>

\* find_customer, then the re-check, which runs ahead of the transaction's first write.
Find(c) ==
    /\ At(c, "find")
    /\ IF Known(account[c]) THEN Answer(c, "resolved", owner[account[c]]) ELSE Moves(c, "recheck")

Recheck(c) ==
    /\ At(c, "recheck")
    /\ IF Known(account[c]) THEN Answer(c, "resolved", owner[account[c]]) ELSE Moves(c, "create")

\* Mutant: INSERT OR IGNORE of the account, so the loser keeps the customer it made.
CreateIgnoring(c) ==
    /\ At(c, "create")
    /\ \E u \in Customers \ customers :
        /\ customers' = customers \cup {u}
        /\ owner' = [owner EXCEPT ![account[c]] = IF Known(account[c]) THEN @ ELSE u]
        /\ Return(c, "resolved", u)
    /\ UNCHANGED <<via, issuer, consumed, expired>>

\* The customer and its account, in one transaction.
Create(c) ==
    /\ At(c, "create")
    /\ IF Known(account[c])
       THEN Answer(c, "raised", None)
       ELSE /\ \E u \in Customers \ customers :
                /\ customers' = customers \cup {u}
                /\ owner' = [owner EXCEPT ![account[c]] = u]
                /\ Return(c, "resolved", u)
            /\ UNCHANGED <<via, issuer, consumed, expired>>

-----------------------------------------------------------------------------
(* issue_link_code: one INSERT; a code whose hash is taken is drawn again. *)

Issue(u, k) ==
    /\ u \in customers
    /\ issuer[k] = None
    /\ issuer' = [issuer EXCEPT ![k] = u]
    /\ UNCHANGED <<customers, owner, via, consumed, expired, local>>

Expire(k) ==
    /\ issuer[k] # None /\ k \notin expired
    /\ expired' = expired \cup {k}
    /\ UNCHANGED <<customers, owner, via, issuer, consumed, local>>

-----------------------------------------------------------------------------
(* consume_link_code. *)

\* Any text may be typed: a code never issued as well.
InvokeConsume(c, k, a) ==
    /\ At(c, "idle")
    /\ account' = [account EXCEPT ![c] = a]
    /\ code' = [code EXCEPT ![c] = k]
    /\ Goto(c, "read_code")
    /\ UNCHANGED <<store, answer, resolved>>

\* The validation, the same condition as validate_link_code's.
ReadCode(c) ==
    /\ At(c, "read_code")
    /\ IF Usable(code[c]) THEN Moves(c, "read_target") ELSE Answer(c, "invalid", None)

\* Mutant: an account of another customer is re-pointed and the code used up.
ReadTargetMerges(c) ==
    LET u == issuer[code[c]] IN
    /\ At(c, "read_target")
    /\ IF owner[account[c]] \in {None, u}
       THEN Moves(c, IF Known(account[c]) THEN "burn" ELSE "link")
       ELSE /\ owner' = [owner EXCEPT ![account[c]] = u]
            /\ consumed' = consumed \cup {code[c]}
            /\ Return(c, "linked", u)
            /\ UNCHANGED <<customers, via, issuer, expired>>

\* The target account: unknown, the issuer's, or another customer's.
ReadTarget(c) ==
    LET u == issuer[code[c]] IN
    /\ At(c, "read_target")
    /\ \/ owner[account[c]] = None /\ Moves(c, "link")
       \/ owner[account[c]] = u /\ Moves(c, "burn")
       \/ owner[account[c]] \notin {None, u} /\ Answer(c, "merge_required", u)

\* Attach the account and mark the code, whether or not it has been marked meanwhile.
Attach(c) ==
    LET u == issuer[code[c]] IN
    /\ At(c, "link")
    /\ IF Known(account[c])
       THEN Answer(c, "raised", None)
       ELSE /\ owner' = [owner EXCEPT ![account[c]] = u]
            /\ via' = [via EXCEPT ![account[c]] = code[c]]
            /\ consumed' = consumed \cup {code[c]}
            /\ Return(c, "linked", u)
            /\ UNCHANGED <<customers, issuer, expired>>

Burn(c) ==
    /\ At(c, "burn")
    /\ consumed' = consumed \cup {code[c]}
    /\ Return(c, "already_linked", issuer[code[c]])
    /\ UNCHANGED <<customers, owner, via, issuer, expired>>

-----------------------------------------------------------------------------
\* A locked database or a killed process: the open transaction rolls back.
Fail(c) ==
    /\ pc[c] \notin {"idle", "done"}
    /\ Answer(c, "raised", None)

Step(c) ==
    \/ Find(c) \/ Recheck(c) \/ Create(c)
    \/ ReadCode(c) \/ ReadTarget(c) \/ Attach(c) \/ Burn(c)

Next ==
    \/ \E c \in Calls : Step(c) \/ Fail(c)
    \/ \E c \in Calls, a \in Accounts : InvokeResolve(c, a)
    \/ \E c \in Calls, k \in Codes, a \in Accounts : InvokeConsume(c, k, a)
    \/ \E u \in Customers, k \in Codes : Issue(u, k)
    \/ \E k \in Codes : Expire(k)

Spec == Init /\ [][Next]_vars

-----------------------------------------------------------------------------
(* Properties. *)

\* Every customer is somebody: it owns an account, so a resolve_customer that lost the
\* race for a new account, or failed, leaves no stray customer, and every owner exists.
EveryCustomerHasAnAccount ==
    customers = {owner[a] : a \in Accounts} \ {None}

\* Whatever call answered with a customer for an account, and whenever, that customer
\* still owns the account: resolvers and linkers never disagree.
AnswersStayTrue ==
    \A c \in Calls :
        answer[c] \in {"resolved", "linked", "already_linked"} => owner[account[c]] = resolved[c]

\* An account never changes hands, also when a code of another customer is entered.
OwnersStay ==
    [][\A a \in Accounts : Known(a) => owner'[a] = owner[a] /\ via'[a] = via[a]]_vars

\* A code that attached an account or was burnt is used up: once a call has answered so,
\* no later call gets past its validation.
UsedUpCodesStayInvalid ==
    /\ \A a \in Accounts : via[a] # None => via[a] \in consumed /\ owner[a] = issuer[via[a]]
    /\ \A c \in Calls :
        answer[c] \in {"linked", "already_linked"} => code[c] \in consumed

-----------------------------------------------------------------------------
(* What the repository says and the code does not do. *)

\* account_linking: codes are "one-time", the re-validation is "atomic with the consume".
OneTimeCode ==
    \A a, b \in Accounts : via[a] # None /\ via[a] = via[b] => a = b
=============================================================================
