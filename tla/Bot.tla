---------------------------------- MODULE Bot ----------------------------------
(* The Telegram bot: TelegramPollingRunner.poll_batch, which hands updates  *)
(* to TelegramRouter.handle_update, which resolves the sender (a call of    *)
(* AccountLinking, between those of other processes) and replies.           *)
(*                                                                          *)
(* The offset of the next update lives in the memory of the process and     *)
(* moves on after the handler.  Telegram keeps an update until it is asked  *)
(* for a later one, and hands it out again as long as it is kept.           *)
EXTENDS AccountLinking, Naturals, Sequences

CONSTANTS
    Updates,     \* what users send, a sequence of updates in the order of update_id
    Feed,        \* who fetches: "provided" for a caller, "transport" for get_updates
    BotCalls,    \* the calls the bot makes; the others belong to other processes
    Limit,       \* updates of one batch
    MaxFaults    \* bound of the model: kills of the bot, failures of its database calls

\* The shape of an update, its sender and the text: "" and "blank" stand for no
\* text and for white space alone.
Forms == {"message", "callback", "other"}
Texts == {"", "blank", "/start", "/account", "/admin", "words"}
Update == [form : Forms, from : Accounts \cup {None}, text : Texts]

ASSUME BotAssumption ==
    /\ Updates \in Seq(Update)
    /\ Feed \in {"provided", "transport"}
    /\ BotCalls \subseteq Calls /\ None \notin BotCalls
    /\ Limit \in Nat /\ MaxFaults \in Nat

Ids == DOMAIN Updates

VARIABLES
    arrived,     \* the update_id Telegram gave last
    confirmed,   \* updates below it are acknowledged: Telegram has dropped them
    faults       \* how many faults the bot has had

telegram == <<arrived, confirmed>>

VARIABLES
    offset,      \* TelegramPollingRunner._offset, 0 for None
    batch,       \* the updates of the batch still to be routed
    phase,       \* where poll_batch is
    serving      \* the call that resolves the sender of the update in hand

runner == <<offset, batch, phase, serving>>

VARIABLES
    handled,     \* how often each update was handled to the end
    told,        \* the customers its replies were for
    crashes      \* how often the process was killed

botVars == <<telegram, faults, runner, handled, told, crashes>>
allVars == <<vars, botVars>>

Phases == {"idle", "route", "resolve"}

BotTypeOK ==
    /\ TypeOK
    /\ arrived \in 0 .. Len(Updates) /\ confirmed \in 1 .. Len(Updates) + 1
    /\ faults \in 0 .. MaxFaults /\ crashes \in 0 .. MaxFaults
    /\ offset \in 0 .. Len(Updates) + 1
    /\ batch \in Seq(Ids) /\ Len(batch) <= Limit
    /\ phase \in Phases
    /\ serving \in BotCalls \cup {None} /\ (serving # None <=> phase = "resolve")
    /\ handled \in [Ids -> Nat]
    /\ told \in [Ids -> SUBSET Customers]

BotInit ==
    /\ Init
    /\ arrived = 0 /\ confirmed = 1 /\ faults = 0
    /\ offset = 0 /\ batch = <<>> /\ phase = "idle" /\ serving = None
    /\ handled = [i \in Ids |-> 0] /\ told = [i \in Ids |-> {}] /\ crashes = 0

-----------------------------------------------------------------------------
(* parse_update. *)

\* A message or a callback with a sender; everything else is "invalid".
Valid(u) == u.form \in {"message", "callback"} /\ u.from # None

\* _norm_command takes the first word of a text that is not empty: of white space
\* alone there is none, and the IndexError is not among the exceptions caught.
ParseRaises(u) == Valid(u) /\ u.text = "blank"

-----------------------------------------------------------------------------
\* A user writes.
Send ==
    /\ arrived < Len(Updates)
    /\ arrived' = arrived + 1
    /\ UNCHANGED <<vars, confirmed, faults, runner, handled, told, crashes>>

\* Telegram drops what is below the offset it is asked for and hands out the rest.
Asked == IF offset > confirmed THEN offset ELSE confirmed
Offered == LET last == IF Asked + Limit - 1 < arrived THEN Asked + Limit - 1 ELSE arrived
           IN  [k \in 1 .. (IF last < Asked THEN 0 ELSE last + 1 - Asked) |-> Asked + k - 1]

\* Mutant: the batch is acknowledged as it is fetched.
PollAcknowledging ==
    /\ phase = "idle"
    /\ confirmed' = Asked
    /\ batch' = IF Feed = "provided" THEN Offered ELSE <<>>
    /\ offset' = IF batch' = <<>> THEN offset ELSE Asked + Len(batch')
    /\ phase' = IF batch' = <<>> THEN "idle" ELSE "route"
    /\ UNCHANGED <<vars, arrived, faults, serving, handled, told, crashes>>

\* poll_batch takes what the caller provides.  Of its own transport it takes
\* result.data if that is a list: the dry-run transport has none, and the live
\* one has the whole answer, an object with the list inside.
Poll ==
    /\ phase = "idle"
    /\ confirmed' = Asked
    /\ batch' = IF Feed = "provided" THEN Offered ELSE <<>>
    /\ phase' = IF batch' = <<>> THEN "idle" ELSE "route"
    /\ UNCHANGED <<vars, arrived, faults, offset, serving, handled, told, crashes>>

\* Mutant: the offset is moved past the batch when it is given up.
RaisedSkipping ==
    /\ offset' = batch[Len(batch)] + 1
    /\ batch' = <<>> /\ phase' = "idle" /\ serving' = None
    /\ UNCHANGED <<telegram, handled, told, crashes>>

\* An exception leaves poll_batch: what is left of the batch is forgotten, the
\* offset is as far as it got.
Raised ==
    /\ batch' = <<>> /\ phase' = "idle" /\ serving' = None
    /\ UNCHANGED <<telegram, offset, handled, told, crashes>>

InHand == Head(batch)

\* Mutant: the offset is moved when the batch is done.
RoutedLate(us) ==
    /\ handled' = [handled EXCEPT ![InHand] = @ + 1]
    /\ told' = [told EXCEPT ![InHand] = @ \cup us]
    /\ batch' = Tail(batch)
    /\ offset' = IF batch' = <<>> THEN InHand + 1 ELSE offset
    /\ phase' = IF batch' = <<>> THEN "idle" ELSE "route"
    /\ serving' = None
    /\ UNCHANGED <<telegram, crashes>>

\* Mutant: the identity of the last update is kept.
RoutedKeeping(us) ==
    /\ handled' = [handled EXCEPT ![InHand] = @ + 1]
    /\ told' = [told EXCEPT ![InHand] = @ \cup us]
    /\ offset' = InHand + 1
    /\ batch' = Tail(batch)
    /\ phase' = IF batch' = <<>> THEN "idle" ELSE "route"
    /\ UNCHANGED <<telegram, serving, crashes>>

\* handle_update has returned for the update in hand; the offset moves past it.
\* Both are in memory, so that a kill between the two is one after the first.
Routed(us) ==
    /\ handled' = [handled EXCEPT ![InHand] = @ + 1]
    /\ told' = [told EXCEPT ![InHand] = @ \cup us]
    /\ offset' = InHand + 1
    /\ batch' = Tail(batch)
    /\ phase' = IF batch' = <<>> THEN "idle" ELSE "route"
    /\ serving' = None
    /\ UNCHANGED <<telegram, crashes>>

\* An update that cannot be parsed gets a reply without an identity.
RouteInvalid ==
    /\ phase = "route" /\ ~Valid(Updates[InHand])
    /\ Routed({})
    /\ UNCHANGED <<vars, faults>>

RouteRaises ==
    /\ phase = "route" /\ ParseRaises(Updates[InHand])
    /\ Raised
    /\ UNCHANGED <<vars, faults>>

\* Calls are numbered as they come: the first one not used yet.
Free(c) == c \in BotCalls /\ At(c, "idle")

Route(c) ==
    /\ phase = "route" /\ Valid(Updates[InHand]) /\ ~ParseRaises(Updates[InHand])
    /\ Free(c) /\ c = CHOOSE d \in BotCalls : Free(d)
    /\ InvokeResolve(c, Updates[InHand].from)
    /\ serving' = c /\ phase' = "resolve"
    /\ UNCHANGED <<telegram, faults, offset, batch, handled, told, crashes>>

Resolve ==
    /\ phase = "resolve"
    /\ Step(serving)
    /\ UNCHANGED botVars

Reply ==
    /\ phase = "resolve" /\ answer[serving] = "resolved"
    /\ Routed({resolved[serving]})
    /\ UNCHANGED <<vars, faults>>

ResolveRaised ==
    /\ phase = "resolve" /\ answer[serving] = "raised"
    /\ Raised
    /\ UNCHANGED <<vars, faults>>

Fault == faults < MaxFaults /\ faults' = faults + 1

\* The database is locked for longer than the busy timeout.
ResolveFails ==
    /\ Fault
    /\ phase = "resolve" /\ Fail(serving)
    /\ UNCHANGED <<telegram, runner, handled, told, crashes>>

\* The process is killed and started again: its memory is gone.
Kill ==
    /\ Fault
    /\ crashes' = crashes + 1
    /\ offset' = 0 /\ batch' = <<>> /\ phase' = "idle" /\ serving' = None
    /\ IF phase = "resolve" /\ ~At(serving, "done") THEN Fail(serving) ELSE UNCHANGED vars
    /\ UNCHANGED <<telegram, handled, told>>

BotStep ==
    \/ Poll \/ RouteInvalid \/ RouteRaises \/ (\E c \in BotCalls : Route(c))
    \/ Resolve \/ Reply \/ ResolveRaised

\* Other processes resolve accounts, link them with codes and issue codes.
Others ==
    /\ \/ \E c \in Calls \ BotCalls :
             \/ Step(c) \/ Fail(c)
             \/ \E a \in Accounts : InvokeResolve(c, a)
             \/ \E k \in Codes, a \in Accounts : InvokeConsume(c, k, a)
       \/ \E u \in Customers, k \in Codes : Issue(u, k)
       \/ \E k \in Codes : Expire(k)
    /\ UNCHANGED botVars

BotNext == Send \/ BotStep \/ ResolveFails \/ Kill \/ Others

BotSpec == BotInit /\ [][BotNext]_allVars

\* The bot is polled over and over, and a process that runs goes on.
FairBotSpec == BotSpec /\ WF_allVars(BotStep)

-----------------------------------------------------------------------------
(* Properties. *)

\* No update is lost: what Telegram has dropped was handled to the end, however
\* often the bot was killed or a handler raised in the middle of a batch.
ConfirmedWasHandled == \A i \in Ids : i < confirmed => handled[i] > 0

\* An exception repeats nothing; an update is handled again only by a bot that
\* lost its offset, so never more often than the bot was started.
RepeatsNeedACrash == \A i \in Ids : handled[i] <= 1 + crashes

\* Every update is handled in the end, unless one that makes the handler raise
\* every time arrived before it.
EveryUpdateIsHandled == \A i \in Ids :
    (arrived >= i) ~> (handled[i] > 0 \/ \E j \in 1 .. i : ParseRaises(Updates[j]))

-----------------------------------------------------------------------------
(* What the repository says and the code does not do. *)

\* telegram_polling: "routes safely; invalid -> no crash".
BadUpdatesDoNotBlock == \A i \in Ids : (arrived >= i) ~> (handled[i] > 0)
=============================================================================
