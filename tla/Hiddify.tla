------------------------------- MODULE Hiddify -------------------------------
(* The Hiddify client: HiddifyClient._request, with its retries, under      *)
(* create_user, patch_user, disable_user and delete_user, against the node  *)
(* it talks to, which the repository does not hold.                         *)
(*                                                                          *)
(* A request and its answer travel by themselves.  The client may give an   *)
(* attempt up before the node has taken it: then it is lost, or it arrives  *)
(* later, after what the client did next.  Reads (list_users, get_user,     *)
(* all_configs) change nothing on either side; names, quotas and package    *)
(* days are data.                                                           *)
EXTENDS Naturals, FiniteSets

CONSTANTS
    Calls,         \* calls of the four methods, each made at most once
    Users,         \* the uuids the node can give to users
    Existing,      \* the users it has to begin with
    Retries,       \* HiddifyClient._retries
    Injected,      \* the calls that go by an injected opener, which returns the HTTP status
                   \* of a refusal; urllib raises it
    MaxFaults,     \* bound of the model: attempts given up or unreadable
    None

ASSUME HiddifyAssumption ==
    /\ Existing \subseteq Users /\ Retries \in Nat /\ MaxFaults \in Nat
    /\ Injected \subseteq Calls /\ None \notin Calls \cup Users

VARIABLES
    users,       \* the node: the state of each uuid
    maker,       \* the call whose request made the user
    late,        \* attempts the client gave up and the node may still get
    op,          \* what each call asks for
    stage,       \* where its attempt in hand is
    tries,       \* the attempts it has left
    answer,      \* the user a create_user answered with
    given_up,    \* how many of its attempts the client gave up without an answer
    said,        \* what the last answered call made of the user
    disputed,    \* users two calls were at, or one failed on, or a late attempt is for
    faults

node == <<users, maker>>
client == <<op, stage, tries, answer, given_up>>
history == <<said, disputed>>
vars == <<node, late, client, history, faults>>

Wants == {"enabled", "disabled", "deleted"}
NoOp == [user |-> None, want |-> "enabled"]
Create == NoOp
Changes == [user : Users, want : Wants]

Stages == {"idle", "sent", "done", "refused", "ok", "failed"}

TypeOK ==
    /\ users \in [Users -> Wants \cup {"absent"}]
    /\ maker \in [Users -> Calls \cup {None}]
    /\ late \in SUBSET (Calls \X (0 .. Retries))
    /\ op \in [Calls -> Changes \cup {Create}]
    /\ stage \in [Calls -> Stages]
    /\ tries \in [Calls -> 0 .. Retries]
    /\ answer \in [Calls -> Users \cup {None}]
    /\ given_up \in [Calls -> 0 .. Retries + 1]
    /\ said \in [Users -> Wants \cup {"absent"}]
    /\ disputed \in SUBSET Users
    /\ faults \in 0 .. MaxFaults

Init ==
    /\ users = [u \in Users |-> IF u \in Existing THEN "enabled" ELSE "absent"]
    /\ maker = [u \in Users |-> None]
    /\ late = {}
    /\ op = [c \in Calls |-> NoOp]
    /\ stage = [c \in Calls |-> "idle"]
    /\ tries = [c \in Calls |-> Retries]
    /\ answer = [c \in Calls |-> None]
    /\ given_up = [c \in Calls |-> 0]
    /\ said = users
    /\ disputed = {}
    /\ faults = 0

-----------------------------------------------------------------------------
Goto(c, to) == stage' = [stage EXCEPT ![c] = to]
InProgress(c) == stage[c] \in {"sent", "done", "refused"}
IsCreate(c) == op[c].user = None

\* The users whose uuid a caller knows: it was there, or a create_user answered with it.
Known == Existing \cup ({answer[c] : c \in {d \in Calls : stage[d] = "ok"}} \ {None})

Dispute(u) == disputed' = disputed \cup ({u} \ {None})

-----------------------------------------------------------------------------
(* The node. *)

\* Some uuid it has not given yet.
NewUser == LET new == {u \in Users : users[u] = "absent"} IN
           IF new = {} THEN None ELSE CHOOSE u \in new : TRUE

\* What it does with a request: a POST makes a user, a PATCH or DELETE changes one it has.
Apply(c, u) ==
    IF IsCreate(c)
    THEN /\ u = NewUser
         /\ users' = [users EXCEPT ![u] = "enabled"]
         /\ maker' = [maker EXCEPT ![u] = c]
    ELSE /\ u = op[c].user
         /\ users[u] \in {"enabled", "disabled"}
         /\ users' = [users EXCEPT ![u] = op[c].want]
         /\ UNCHANGED maker

\* It takes the attempt in hand and answers.
Take(c) ==
    /\ stage[c] = "sent"
    /\ \E u \in Users :
          /\ Apply(c, u)
          /\ answer' = IF IsCreate(c) THEN [answer EXCEPT ![c] = u] ELSE answer
    /\ Goto(c, "done")
    /\ UNCHANGED <<late, op, tries, given_up, history, faults>>

\* It refuses the attempt: an unknown user, or an error of its own.
Refuse(c) ==
    /\ stage[c] = "sent"
    /\ Goto(c, "refused")
    /\ UNCHANGED <<node, late, op, tries, answer, given_up, history, faults>>

\* It gets an attempt that the client has given up; nobody hears the answer.
Arrive(c, n) ==
    /\ <<c, n>> \in late
    /\ late' = late \ {<<c, n>>}
    /\ \/ \E u \in Users : Apply(c, u)
       \/ UNCHANGED node
    /\ UNCHANGED <<client, history, faults>>

-----------------------------------------------------------------------------
(* The client. *)

\* The first attempt goes out.
Call(c) ==
    /\ stage[c] = "idle"
    /\ \E o \in {Create} \cup {change \in Changes : change.user \in Known} :
          /\ op' = [op EXCEPT ![c] = o]
          /\ IF \E d \in Calls : InProgress(d) /\ op[d].user = o.user
             THEN Dispute(o.user) ELSE UNCHANGED disputed
    /\ Goto(c, "sent")
    /\ UNCHANGED <<node, late, tries, answer, given_up, said, faults>>

\* Mutant: the attempts are not counted.
RetryForever(c) ==
    /\ Goto(c, "sent")
    /\ UNCHANGED tries

\* An attempt ends in an exception: another one if any is left, else the call has failed.
Retry(c) ==
    IF tries[c] > 0
    THEN tries' = [tries EXCEPT ![c] = @ - 1] /\ Goto(c, "sent")
    ELSE Goto(c, "failed") /\ UNCHANGED tries

\* With the attempt goes what it may have answered.
Unanswered(c) == answer' = [answer EXCEPT ![c] = None]

DisputeIfOver(c) == IF tries[c] = 0 THEN Dispute(op[c].user) ELSE UNCHANGED disputed

\* The connection is refused: the attempt never leaves.
NotSent(c) ==
    /\ stage[c] = "sent"
    /\ Retry(c)
    /\ DisputeIfOver(c)
    /\ UNCHANGED <<node, late, op, answer, given_up, said, faults>>

\* The client gives the attempt up (a timeout), or cannot read the answer (ValueError).
GiveUp(c) ==
    /\ InProgress(c)
    /\ faults < MaxFaults
    /\ faults' = faults + 1
    /\ \/ UNCHANGED late /\ DisputeIfOver(c)
       \/ stage[c] = "sent" /\ late' = late \cup {<<c, tries[c]>>} /\ Dispute(op[c].user)
    /\ given_up' = [given_up EXCEPT ![c] = @ + 1]
    /\ Unanswered(c)
    /\ Retry(c)
    /\ UNCHANGED <<node, op, said>>

\* Mutant: 200 is the only status that counts, and a POST is answered with 201.
ReceiveOnly200(c) ==
    /\ stage[c] = "done"
    /\ IF IsCreate(c) THEN Retry(c) /\ Unanswered(c) ELSE Goto(c, "ok") /\ UNCHANGED <<tries, answer>>
    /\ UNCHANGED <<node, late, op, given_up, history, faults>>

\* 2xx.
Receive(c) ==
    LET u == IF IsCreate(c) THEN answer[c] ELSE op[c].user IN
    /\ stage[c] = "done"
    /\ Goto(c, "ok")
    /\ said' = [said EXCEPT ![u] = op[c].want]
    /\ UNCHANGED <<node, late, op, tries, answer, given_up, disputed, faults>>

\* Mutant: any answer is a success.
ReceiveRefusalAsOk(c) ==
    /\ stage[c] = "refused"
    /\ Goto(c, "ok")
    /\ said' = IF IsCreate(c) THEN said ELSE [said EXCEPT ![op[c].user] = op[c].want]
    /\ UNCHANGED <<node, late, op, tries, answer, given_up, disputed, faults>>

\* 4xx or 5xx: a status from the opener, an HTTPError (an URLError) from urllib.
ReceiveRefusal(c) ==
    /\ stage[c] = "refused"
    /\ IF c \in Injected THEN Goto(c, "failed") /\ UNCHANGED tries ELSE Retry(c)
    /\ IF c \in Injected THEN Dispute(op[c].user) ELSE DisputeIfOver(c)
    /\ UNCHANGED <<node, late, op, answer, given_up, said, faults>>

Attempt(c) == NotSent(c) \/ GiveUp(c) \/ Receive(c) \/ ReceiveRefusal(c)

Next ==
    \/ \E c \in Calls : Call(c) \/ Attempt(c) \/ Take(c) \/ Refuse(c)
    \/ \E c \in Calls, n \in 0 .. Retries : Arrive(c, n)

\* The client goes on: its timeout ends an attempt the node does not answer.
Spec == Init /\ [][Next]_vars /\ \A c \in Calls : WF_vars(Attempt(c))

-----------------------------------------------------------------------------
(* Properties. *)

MadeBy(c) == {u \in Users : maker[u] = c}

\* create_user is a POST that is retried: a call may leave more than one user, or one
\* although it failed.  It is never more than the attempts whose answer was lost, and
\* the one it was answered for; refusals leave nothing.
UsersAreExplained ==
    \A c \in Calls :
        /\ Cardinality(MadeBy(c)) <= given_up[c] + (IF stage[c] \in {"done", "ok"} THEN 1 ELSE 0)
        /\ stage[c] = "ok" /\ IsCreate(c) => answer[c] \in MadeBy(c)

\* Between calls a user is as the last answered call left it, unless two calls were at it
\* at once, one of them failed, or an attempt for it arrives late.
UndisputedIsAsSaid ==
    \A u \in Users \ disputed :
        said[u] # "absent" /\ (\A c \in Calls : InProgress(c) => op[c].user # u) => users[u] = said[u]

\* Every call answers, whatever the node does.
EveryCallEnds == \A c \in Calls : stage[c] = "sent" ~> stage[c] \in {"ok", "failed"}

-----------------------------------------------------------------------------
(* What the repository says and the code does not do. *)

\* The plan: provisioning a Hiddify user twice has the same effect as doing it once.
OneUserPerCreate == \A c \in Calls : Cardinality(MadeBy(c)) <= 1
=============================================================================
