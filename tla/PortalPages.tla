------------------------------ MODULE PortalPages ------------------------------
(* The portal's pages that show availability: portal_viewmodels.plans and   *)
(* subscription_detail, as portal_routes renders them.  A page calls the    *)
(* resolvers of Availability once per plan, SELECT by SELECT, and catches   *)
(* nothing: an exception in a resolver is the end of the page.              *)
(*                                                                          *)
(* What a page shows of the rows themselves (names, prices, quotas) and of  *)
(* the delivery (Delivery) is left out; so is the session (Portal).         *)
EXTENDS Availability

CONSTANTS
    PublicPlans,  \* is_public; nothing changes it
    PlanOrder     \* the place of each plan by sort_order and id

ASSUME PagesAssumption ==
    /\ PublicPlans \subseteq Plans
    /\ PlanOrder \in [Plans -> Nat]
    /\ \A p, q \in Plans : PlanOrder[p] = PlanOrder[q] => p = q

VARIABLES
    page,     \* the page in hand
    stage,    \* where it is
    listing,  \* plans still to be shown
    card,     \* the Entitlements the page resolved itself: regions, profiles
    calm      \* nothing was written since the page began

paging == <<page, stage, listing, card, calm>>
pageVars == <<vars, paging>>

Stages == {"idle", "list", "row", "regions", "profiles", "resolve", "served", "raised"}
NoCard == [regions |-> {}, profiles |-> {}]

\* The plan in hand is the first of them.
Plan == CHOOSE p \in listing : \A q \in listing : PlanOrder[p] <= PlanOrder[q]

PagesTypeOK ==
    /\ TypeOK
    /\ page \in {"none", "plans", "subscription"}
    /\ stage \in Stages
    /\ listing \subseteq Plans
    /\ card.regions \subseteq REGIONS /\ card.profiles \subseteq PROFILES
    /\ calm \in BOOLEAN
    /\ stage \in {"row", "regions", "profiles", "resolve"} => listing # {}

PagesInit ==
    /\ Init
    /\ page = "none" /\ stage = "idle" /\ listing = {} /\ card = NoCard /\ calm = TRUE

-----------------------------------------------------------------------------
(* A page. *)

Rendering == stage \notin {"idle", "served", "raised"}
At(label) == stage = label
Goto(label) == stage' = label

\* No resolver is under way; what the last one returned has been used.
Discard ==
    /\ pc' = "idle" /\ ask' = NoAsk /\ own' = Nothing /\ ent' = Nothing
    /\ pass' = "resolve" /\ left' = {} /\ ready' = [resolve |-> Nobody, plan |-> Nobody]
    /\ unasked' = {} /\ up' = {}
    /\ since' = [n \in Nodes |-> {}] /\ entitled' = {} /\ quiet' = TRUE
    /\ UNCHANGED <<tables, edits, cleared>>

\* The next plan of the page, or its end.
NextPlan(rest) ==
    /\ Discard
    /\ listing' = rest
    /\ Goto(IF rest = {} THEN "served" ELSE "row")

\* GET /plans.
OpenPlans ==
    /\ ~Rendering /\ ~CallUnderWay
    /\ page' = "plans" /\ Goto("list") /\ listing' = {} /\ card' = NoCard /\ calm' = TRUE
    /\ Discard

\* GET /subscription: the customer's newest subscription is of plan p.  It holds the
\* plan's row (subscriptions.plan_code), on sale or not.
OpenSubscription(p) ==
    /\ ~Rendering
    /\ plans[p] # "absent"
    /\ Invoke("resolve", p, "dry_run", NoNode)
    /\ page' = "subscription" /\ Goto("resolve") /\ listing' = {p} /\ card' = NoCard /\ calm' = TRUE

\* Mutant: WHERE is_public=1 alone.
ListEveryPlan ==
    /\ At("list")
    /\ NextPlan({p \in PublicPlans : plans[p] # "absent"})
    /\ UNCHANGED <<page, card, calm>>

\* SELECT * FROM plans WHERE is_public=1 AND is_enabled=1 ORDER BY sort_order, id.
ListPlans ==
    /\ At("list")
    /\ NextPlan({p \in PublicPlans : plans[p] = "on"})
    /\ UNCHANGED <<page, card, calm>>

\* entitlements.resolve for the card, which looks at the plan's row anew.
CardRow ==
    /\ At("row")
    /\ Goto(IF plans[Plan] = "on" THEN "regions" ELSE "raised")
    /\ UNCHANGED <<vars, page, listing, card, calm>>

CardRegions ==
    /\ At("regions")
    /\ card' = [card EXCEPT !.regions = RightsOf(Plan).regions]
    /\ Goto("profiles")
    /\ UNCHANGED <<vars, page, listing, calm>>

\* The last SELECT of that; then availability.resolve(mode=dry_run), which resolves the
\* entitlements once more.
CardProfiles ==
    /\ At("profiles")
    /\ card' = [card EXCEPT !.profiles = RightsOf(Plan).profiles]
    /\ Goto("resolve")
    /\ Invoke("resolve", Plan, "dry_run", NoNode)
    /\ UNCHANGED <<page, listing, calm>>

\* The card or the page is filled in, or the exception goes through.
Rendered ==
    /\ At("resolve")
    /\ \/ pc = "done" /\ NextPlan(listing \ {Plan})
       \/ pc \in {"unknown_plan", "disabled_plan"} /\ Goto("raised") /\ UNCHANGED <<vars, listing>>
    /\ UNCHANGED <<page, card, calm>>

-----------------------------------------------------------------------------
(* Everybody. *)

\* build_plan and resolve, called for themselves.
ConsultAlone ==
    /\ ~Rendering
    /\ Consult
    /\ page' = "none" /\ Goto("idle") /\ listing' = {} /\ card' = NoCard /\ calm' = TRUE

PagesNext ==
    \/ Write /\ calm' = (calm /\ tables' = tables) /\ UNCHANGED <<page, stage, listing, card>>
    \/ ConsultAlone
    \/ Read /\ UNCHANGED paging
    \/ OpenPlans \/ \E p \in Plans : OpenSubscription(p)
    \/ ListPlans \/ CardRow \/ CardRegions \/ CardProfiles \/ Rendered

PagesSpec == PagesInit /\ [][PagesNext]_pageVars

-----------------------------------------------------------------------------
(* What a page says of a region. *)

\* Mutant: a region is down when anything in it is.
LabelDownFirst(available, reasons) ==
    IF available THEN "available"
    ELSE IF "node_down" \in reasons THEN "down"
    ELSE IF "node_status_test" \in reasons THEN "testing"
    ELSE IF reasons \cap {"node_status_planned", "no_candidate_node"} # {} THEN "not_open"
    ELSE IF "node_degraded" \in reasons THEN "limited"
    ELSE "unavailable"

_availability_label(available, reasons) ==
    IF available THEN "available"
    ELSE IF "node_status_test" \in reasons THEN "testing"
    ELSE IF reasons \cap {"node_status_planned", "no_candidate_node"} # {} THEN "not_open"
    ELSE IF "node_down" \in reasons THEN "down"
    ELSE IF "node_degraded" \in reasons THEN "limited"
    ELSE "unavailable"

\* The regions of a card are those of the page's own resolve; one that the second resolve
\* does not know is not available, without a reason.
RegionsShown == IF page = "plans" THEN card.regions ELSE ent.regions

LabelOf(r) ==
    IF r \in ent.regions
    THEN _availability_label(r \in AvailableRegions, RegionReasons(r))
    ELSE _availability_label(FALSE, {})

-----------------------------------------------------------------------------
(* Properties. *)

\* The label a customer reads is true of some moment while the page was made: a region is
\* said to be in test, not open or down only over a node of its own that was (or over
\* having had none), a region in use loses its label to a node that was down, and what is
\* left when a node has the status to serve is never "limited" or "unavailable".
LabelsTellWhy ==
    At("resolve") /\ pc = "done" =>
        \A r \in RegionsShown \cap ent.regions :
            LET here == {n \in DOMAIN ready.resolve : RegionOf[n] = r}
                WasEver(n, P(_)) == \E x \in since[n] : P(x)
            IN  CASE LabelOf(r) = "testing" ->
                        \E n \in here : /\ WasEver(n, LAMBDA x : x.status = "test")
                                        /\ WasEver(n, LAMBDA x : x.health = "down")
                  [] LabelOf(r) = "not_open" ->
                        \/ here = {}
                        \/ \E n \in here : WasEver(n, LAMBDA x : x.status = "planned")
                  [] LabelOf(r) = "down" ->
                        /\ \E n \in here : WasEver(n, LAMBDA x : x.health = "down")
                        /\ \A n \in here : ~(\A x \in since[n] : x.status \in {"test", "planned"})
                  [] LabelOf(r) \in {"limited", "unavailable"} ->
                        \A n \in here : WasEver(n, LAMBDA x : x.status = "retired")
                  [] OTHER -> \E n \in here : ~(\A x \in since[n] : x.health = "down")

\* A page that fails had a reason: the list of plans because a plan was switched off
\* between the SELECT that lists it and one of the two that look at it again, the page of
\* a subscription because its plan was off.
FailedPagesHaveCause ==
    /\ stage = "raised" /\ page = "plans" => ~calm
    /\ stage = "raised" /\ page = "subscription" => \E x \in entitled : x.enabled # "on"

\* entitlements.py:12 says "An unknown or disabled plan returns a safe error object — it
\* never crashes": the page of a subscription whose plan is off is rendered all the same.
PagesNeverRaise == stage # "raised"
=============================================================================
