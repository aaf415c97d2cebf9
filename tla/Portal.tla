-------------------------------- MODULE Portal --------------------------------
(* The customer portal: portal_access and portal_sessions (the two tables of  *)
(* hashed credentials), branded_link_resolver, portal_http with its route     *)
(* guards, and sidecar_boundary, behind the limiters of RateLimit.            *)
(*                                                                            *)
(* A process handles one request at a time (HTTPServer, "single request       *)
(* loop").  The tables are shared: tokens are issued and revoked by others    *)
(* while a request is between its SELECT, the UPDATE of last_verified_at and  *)
(* the INSERT of a session, three transactions that read the clock anew.      *)
(*                                                                            *)
(* Tokens and sessions have the same columns and the same checks and are      *)
(* modelled as one table of credentials.  last_verified_at and the audit      *)
(* rows, which nothing reads, the customer, which is copied along, and the    *)
(* public pages are left out.                                                 *)
EXTENDS RateLimit, Sequences

CONSTANTS
    Sessions,     \* portal_sessions.id
    TokenTTL,     \* the default of issue_token
    SessionTTL,   \* the default of create_session
    CookieHeaders,\* the Cookie headers that requests carry
    None          \* no value

COOKIE_NAME == "unseen_portal_session"

\* A segment of a Cookie header; the empty name stands for one without a name or an "=",
\* None for an empty value.
Segments == [name : {COOKIE_NAME, "other", ""}, value : Sessions \cup {None}]

ASSUME PortalAssumption ==
    /\ CookieHeaders \subseteq Seq(Segments)
    /\ IsFiniteSet(Processes)
    /\ TokenTTL \in Nat \ {0} /\ SessionTTL \in Nat \ {0}
    /\ Tokens \cap Sessions = {} /\ None \notin Tokens \cup Sessions

Credentials == Tokens \cup Sessions

VARIABLES
    expires,    \* expires_at, 0 where there is no row
    revoked,    \* rows with revoked_at and status 'revoked', always set together
    source,     \* portal_sessions.source_access_token_id
    late        \* the sessions made when their token was dead already

tables == <<expires, revoked, source, late>>

VARIABLES
    pc,         \* the next step of the request in hand
    route,      \* its route
    presented,  \* the token in its path or the session in its cookie
    stale,      \* whether that was dead on arrival
    answer      \* the status code, 0 for none

request == <<pc, route, presented, stale, answer>>
vars == <<now, limiter, tables, request>>

Labels == {"idle", "verify", "touch", "create"}
Routes == {"none", "branded", "sidecar", "private"}
Codes == {0, 200, 401, 404, 410, 429, 500}

TypeOK ==
    /\ LimiterTypeOK
    /\ expires \in [Credentials -> Nat]
    /\ revoked \in SUBSET Credentials
    /\ source \in [Sessions -> Tokens \cup {None}]
    /\ late \in SUBSET Sessions
    /\ pc \in [Processes -> Labels]
    /\ route \in [Processes -> Routes]
    /\ presented \in [Processes -> Credentials \cup {None}]
    /\ stale \in [Processes -> BOOLEAN]
    /\ answer \in [Processes -> Codes]

Init ==
    /\ LimiterInit
    /\ expires = [x \in Credentials |-> 0]
    /\ revoked = {}
    /\ source = [s \in Sessions |-> None]
    /\ late = {}
    /\ pc = [p \in Processes |-> "idle"]
    /\ route = [p \in Processes |-> "none"]
    /\ presented = [p \in Processes |-> None]
    /\ stale = [p \in Processes |-> FALSE]
    /\ answer = [p \in Processes |-> 0]

-----------------------------------------------------------------------------
Known(x) == expires[x] # 0
Expired(x) == Known(x) /\ expires[x] <= now
Dead(x) == x \in revoked \/ Expired(x)

At(p, label) == pc[p] = label
Goto(p, label) == pc' = [pc EXCEPT ![p] = label]

Reply(p, status) ==
    /\ Goto(p, "idle")
    /\ answer' = [answer EXCEPT ![p] = status]

Tick ==
    /\ now < MaxTime
    /\ now' = now + 1
    /\ UNCHANGED <<limiter, tables, request>>

-----------------------------------------------------------------------------
(* The tables, from other processes. *)

\* issue_token, with the default expiry or one that it is given.
IssueToken(t, expiry) ==
    /\ ~Known(t)
    /\ expires' = [expires EXCEPT ![t] = expiry]
    /\ UNCHANGED <<now, limiter, revoked, source, late, request>>

\* create_session without a token, as its other callers do.
CreateSession(s) ==
    /\ ~Known(s)
    /\ expires' = [expires EXCEPT ![s] = now + SessionTTL]
    /\ UNCHANGED <<now, limiter, revoked, source, late, request>>

\* revoke_token, revoke_session.
Revoke(x) ==
    /\ Known(x) /\ x \notin revoked
    /\ revoked' = revoked \cup {x}
    /\ UNCHANGED <<now, limiter, expires, source, late, request>>

-----------------------------------------------------------------------------
(* A request.  HttpRequest.build makes a dict of its Cookie header: nameless segments
   are skipped, and of two values under one name the last one wins. *)

Named(header, name) == {i \in DOMAIN header : header[i].name = name}

parse_cookie_header(header) ==
    [name \in {header[i].name : i \in DOMAIN header} \ {""} |->
        header[CHOOSE i \in Named(header, name) : \A j \in Named(header, name) : j <= i].value]

\* The session that a request is for, None without the cookie or with an empty one.
session_id == [header \in CookieHeaders |->
    LET cookies == parse_cookie_header(header) IN
    IF COOKIE_NAME \in DOMAIN cookies THEN cookies[COOKIE_NAME] ELSE None]

Receive(p, r, x) ==
    /\ At(p, "idle")
    /\ route' = [route EXCEPT ![p] = r]
    /\ presented' = [presented EXCEPT ![p] = x]
    /\ stale' = [stale EXCEPT ![p] = Dead(x)]
    /\ UNCHANGED <<now, tables>>

\* GET /s/<token>, known or not: the limiter comes first.
ReceiveBranded(p, t) ==
    /\ Receive(p, "branded", t)
    /\ \/ Check(p, t, TRUE) /\ Goto(p, "verify") /\ answer' = [answer EXCEPT ![p] = 0]
       \/ Check(p, t, FALSE) /\ Reply(p, 429)

\* The sidecar's /s/<token>; its limiter is optional and absent by default.
ReceiveSidecar(p, t) ==
    /\ Receive(p, "sidecar", t)
    /\ Goto(p, "verify")
    /\ answer' = [answer EXCEPT ![p] = 0]
    /\ UNCHANGED limiter

\* GET /dashboard or /subscription with a session cookie, known or not.  The raw id of
\* the session of a branded link is dropped, so nobody asks for that one.  A customer
\* without rows gets a 404 page; it stands under 200, as served.
ReceivePrivate(p, header) ==
    LET s == session_id[header] IN
    /\ s # None /\ source[s] = None
    /\ Receive(p, "private", s)
    /\ Goto(p, "verify")
    /\ answer' = [answer EXCEPT ![p] = 0]
    /\ UNCHANGED limiter

\* What context_from_raw_session makes of every reason alike: no context, and with
\* that the page that asks to sign in.
NoContext == 401

\* The same without a session cookie, or an empty one: no row is looked at.
ReceiveBare(p, header) ==
    /\ At(p, "idle")
    /\ session_id[header] = None
    /\ route' = [route EXCEPT ![p] = "private"]
    /\ presented' = [presented EXCEPT ![p] = None]
    /\ stale' = [stale EXCEPT ![p] = FALSE]
    /\ Reply(p, NoContext)
    /\ UNCHANGED <<now, limiter, tables>>

\* Mutant: expires_at is not looked at.
RefusalIgnoringExpiry(p) ==
    LET x == presented[p] IN
    IF Known(x) /\ x \notin revoked THEN 0
    ELSE IF route[p] = "private" THEN NoContext ELSE IF Known(x) THEN 410 ELSE 404

\* What verify_token and verify_session find in the row, as the status it is answered
\* with: 0 when it is valid.
Refusal(p) ==
    LET x == presented[p] IN
    IF Known(x) /\ ~Dead(x) THEN 0
    ELSE IF route[p] = "private" THEN NoContext ELSE IF Known(x) THEN 410 ELSE 404

\* The SELECT and the comparison with the clock.
Verify(p) ==
    /\ At(p, "verify")
    /\ \/ Refusal(p) = 0 /\ Goto(p, "touch") /\ UNCHANGED answer
       \/ Refusal(p) # 0 /\ Reply(p, Refusal(p))
    /\ UNCHANGED <<now, limiter, tables, route, presented, stale>>

\* Mutant: a verification prolongs the credential.
TouchSliding(p) ==
    /\ At(p, "touch")
    /\ expires' = [expires EXCEPT ![presented[p]] = now + SessionTTL]
    /\ IF route[p] = "branded"
       THEN Goto(p, "create") /\ UNCHANGED answer
       ELSE Reply(p, 200)
    /\ UNCHANGED <<now, limiter, revoked, source, late, route, presented, stale>>

\* UPDATE ... SET last_verified_at, and nothing else of the row.  The sidecar and the
\* private pages answer now; the portal goes on to make a session.
Touch(p) ==
    /\ At(p, "touch")
    /\ IF route[p] = "branded"
       THEN Goto(p, "create") /\ UNCHANGED answer
       ELSE Reply(p, 200)
    /\ UNCHANGED <<now, limiter, tables, route, presented, stale>>

\* The session of a branded link, whatever became of its token meanwhile.
CreateFromToken(p) ==
    /\ At(p, "create")
    /\ \E s \in Sessions :
        /\ ~Known(s)
        /\ expires' = [expires EXCEPT ![s] = now + SessionTTL]
        /\ source' = [source EXCEPT ![s] = presented[p]]
        /\ late' = IF Dead(presented[p]) THEN late \cup {s} ELSE late
    /\ Reply(p, 200)
    /\ UNCHANGED <<now, limiter, revoked, route, presented, stale>>

\* A statement raises, a locked database for one; the transaction rolls back.
Fail(p) ==
    /\ ~At(p, "idle")
    /\ Reply(p, 500)
    /\ UNCHANGED <<now, limiter, tables, route, presented, stale>>

\* The process is killed and started again.
Restart(p) ==
    /\ Forget(p)
    /\ Goto(p, "idle")
    /\ route' = [route EXCEPT ![p] = "none"]
    /\ presented' = [presented EXCEPT ![p] = None]
    /\ stale' = [stale EXCEPT ![p] = FALSE]
    /\ answer' = [answer EXCEPT ![p] = 0]
    /\ UNCHANGED <<now, tables>>

Next ==
    \/ Tick
    \/ \E t \in Tokens : \E expiry \in now .. now + TokenTTL : IssueToken(t, expiry)
    \/ \E s \in Sessions : CreateSession(s)
    \/ \E x \in Credentials : Revoke(x)
    \/ \E p \in Processes, t \in Tokens : ReceiveBranded(p, t) \/ ReceiveSidecar(p, t)
    \/ \E p \in Processes, header \in CookieHeaders :
          ReceivePrivate(p, header) \/ ReceiveBare(p, header)
    \/ \E p \in Processes :
          Verify(p) \/ Touch(p) \/ CreateFromToken(p) \/ Fail(p) \/ Restart(p)

Spec == Init /\ [][Next]_vars

-----------------------------------------------------------------------------
(* Properties. *)

\* A request that was served presented a credential that was alive when it arrived or
\* later: a revocation or an expiry that came before the request is honoured.  A token
\* that dies between its verification and the INSERT still gives a session, but only to
\* the request in hand: no process makes two sessions from a dead token.
DeathIsHonoured ==
    /\ \A p \in Processes : answer[p] = 200 => ~stale[p]
    /\ \A t \in Tokens :
          Cardinality({s \in late : source[s] = t}) <= Cardinality(Processes)

\* What was revoked or has run out never comes to life again, also when a request had
\* verified it just before and writes to its row just after.
DeadStaysDead ==
    [][\A x \in Credentials : Dead(x) => Dead(x)']_vars
=============================================================================
