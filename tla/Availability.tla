----------------------------- MODULE Availability -----------------------------
(* What a plan may use and what of it works: entitlements.resolve,          *)
(* node_resilience, availability.resolve and provisioning_plan.build_plan,  *)
(* over the catalogue that seed.py, the admin and the monitor write.        *)
(*                                                                          *)
(* The readers issue one SELECT after the other outside any transaction     *)
(* (build_plan five of its own and the two of every node twice), so a       *)
(* writer may come between any two of them.  Each SELECT is a step.  One    *)
(* call is modelled: readers do not disturb each other.                     *)
EXTENDS Catalogue

CONSTANTS
    Plans,          \* plan codes in use
    Nodes,          \* proxy_nodes, numbered in the order of their node_code
    RegionOf,       \* proxy_nodes.region_code
    Topologies,     \* statuses of the nodes as the model begins, de1 a test node
    AdminStatuses,  \* statuses the admin gives
    Written,        \* sets of open alert levels the monitor leaves on a node
    Fragile,        \* profiles that may be off on a node
    Preferred,      \* nodes that callers of build_plan ask for
    MaxEdits        \* bound of the model: writes of the admin and the monitor

ASSUME CatalogueAssumption ==
    /\ Plans \subseteq PLANS
    /\ Nodes \subseteq Nat \ {0} /\ DE1_NODE.node \in Nodes
    /\ RegionOf \in [Nodes -> REGIONS] /\ RegionOf[DE1_NODE.node] = DE1_NODE.region
    /\ \A t \in Topologies : /\ t \in [Nodes -> Statuses \cup {"absent"}]
                              /\ t[DE1_NODE.node] = DE1_NODE.status
    /\ AdminStatuses \subseteq Statuses
    /\ Written \subseteq SUBSET Levels
    /\ Fragile \subseteq PROFILES
    /\ Preferred \subseteq Nodes
    /\ MaxEdits \in Nat

Blockers == {b[2] : b \in NODE_LIVE_BLOCKERS}

VARIABLES
    plans,      \* is_enabled of each plan, or "absent"
    regions,    \* plan_region_entitlements
    profiles,   \* plan_protocol_entitlements
    nodes,      \* status of each node, or "absent"
    blockers,   \* node_live_blockers, pairs of node and reason
    alerts,     \* levels of the open node_alerts of each node
    off,        \* rows of proxy_node_protocols with is_available = 0
    edits       \* how many writes the admin and the monitor have made

tables == <<plans, regions, profiles, nodes, blockers, alerts, off>>

VARIABLES
    pc,         \* the SELECT the call is about to issue
    ask,        \* its arguments: function, plan, mode, preferred node
    own,        \* what build_plan read itself: regions, profiles, candidates
    ent,        \* the Entitlements it resolved: regions, profiles
    pass,       \* for whom readiness is read: resolve, then build_plan once more
    left,       \* nodes whose readiness is still to be read
    ready,      \* NodeReadiness of the nodes read: by resolve, by build_plan
    unasked,    \* pairs of node and profile not yet looked up
    up          \* pairs of region and profile some candidate has up

call == <<pc, ask, own, ent, pass, left, ready, unasked, up>>

VARIABLES
    since,      \* what the rows of each node have been since the call began
    entitled,   \* what the plan has entitled to since the call began
    quiet,      \* nothing was written since the call began
    cleared     \* blockers the admin deleted and did not put back

history == <<since, entitled, quiet, cleared>>
vars == <<tables, edits, call, history>>

NoNode == 0
NoAsk == [op |-> "none", plan |-> "none", mode |-> "none", preferred |-> NoNode]
Nobody == [n \in {} |-> NoNode]
Nothing == [regions |-> {}, profiles |-> {}, candidates |-> Nobody]

\* node_health: a DOWN alert is down, any other open alert is degraded.
Health(levels) ==
    IF "DOWN" \in levels THEN "down"
    ELSE IF levels \cap {"CRITICAL", "WARN"} # {} THEN "degraded"
    ELSE "healthy"

BlockersOf(n) == {b \in Blockers : <<n, b>> \in blockers}

\* The rows of a node, and of a plan, as they are now.
RowsOf(n) == [status |-> nodes[n], health |-> Health(alerts[n]), blockers |-> BlockersOf(n),
              on |-> {c \in PROFILES : <<n, c>> \notin off}]
RightsOf(p) == [enabled |-> plans[p], regions |-> {r \in REGIONS : <<p, r>> \in regions},
                profiles |-> {c \in PROFILES : <<p, c>> \in profiles}]

Labels == {"idle", "plan_row", "plan_regions", "plan_profiles", "plan_nodes",
           "ent_row", "ent_regions", "ent_profiles", "list_nodes", "alerts", "blockers",
           "protocols", "done", "unknown_plan", "disabled_plan"}
Answered == {"done", "unknown_plan", "disabled_plan"}

Readiness == [status : Statuses, health : Healths, blockers : SUBSET Blockers]

TypeOK ==
    /\ plans \in [Plans -> {"absent", "on", "off"}]
    /\ regions \subseteq Plans \X REGIONS
    /\ profiles \subseteq Plans \X PROFILES
    /\ nodes \in [Nodes -> Statuses \cup {"absent"}]
    /\ blockers \subseteq Nodes \X Blockers
    /\ alerts \in [Nodes -> SUBSET Levels]
    /\ off \subseteq Nodes \X PROFILES
    /\ edits \in 0 .. MaxEdits
    /\ pc \in Labels
    /\ ask.op \in {"none", "build_plan", "resolve"} /\ ask.mode \in {"none", "dry_run", "live"}
    /\ own.regions \subseteq REGIONS /\ own.profiles \subseteq PROFILES
    /\ ent.regions \subseteq REGIONS /\ ent.profiles \subseteq PROFILES
    /\ pass \in {"resolve", "plan"} /\ left \subseteq Nodes
    /\ \A f \in {ready.resolve, ready.plan} :
           DOMAIN f \subseteq Nodes /\ \A n \in DOMAIN f : f[n] \in Readiness
    /\ unasked \subseteq Nodes \X PROFILES
    /\ up \subseteq REGIONS \X PROFILES
    /\ \A n \in DOMAIN own.candidates : RegionOf[n] \in own.regions
    /\ DOMAIN ready.plan \subseteq {n \in Nodes : RegionOf[n] \in own.regions}
    /\ DOMAIN ready.resolve \subseteq {n \in Nodes : RegionOf[n] \in ent.regions}

\* The database is empty, or seeded with some more nodes than de1 added to it.
Init ==
    /\ \/ /\ plans = [p \in Plans |-> "absent"] /\ regions = {} /\ profiles = {}
          /\ nodes = [n \in Nodes |-> "absent"] /\ blockers = {}
       \/ /\ plans = [p \in Plans |-> "on"]
          /\ regions = {r \in Plans \X REGIONS : r[2] \in PLAN_REGIONS[r[1]]}
          /\ profiles = {r \in Plans \X PROFILES : r[2] \in PLAN_PROFILES[r[1]]}
          /\ nodes \in Topologies /\ blockers = NODE_LIVE_BLOCKERS
    /\ alerts = [n \in Nodes |-> {}] /\ off = {} /\ edits = 0
    /\ pc = "idle" /\ ask = NoAsk /\ own = Nothing /\ ent = Nothing
    /\ pass = "resolve" /\ left = {} /\ ready = [resolve |-> Nobody, plan |-> Nobody]
    /\ unasked = {} /\ up = {}
    /\ since = [n \in Nodes |-> {}] /\ entitled = {} /\ quiet = TRUE /\ cleared = {}

-----------------------------------------------------------------------------
(* The writers.  Whatever they write is noted for the call under way. *)

CallUnderWay == pc \notin Answered \cup {"idle"}

Noted ==
    /\ IF CallUnderWay
       THEN /\ since' = [n \in Nodes |-> since[n] \cup {RowsOf(n)'}]
            /\ entitled' = entitled \cup {RightsOf(ask.plan)'}
       ELSE UNCHANGED <<since, entitled>>
    /\ quiet' = (quiet /\ tables' = tables)

\* seed: INSERT OR IGNORE into every table, one commit.  A row that is there
\* stays as it is; a row that was deleted comes back.
Seed ==
    /\ plans' = [p \in Plans |-> IF plans[p] = "absent" THEN "on" ELSE plans[p]]
    /\ regions' = regions \cup {r \in Plans \X REGIONS : r[2] \in PLAN_REGIONS[r[1]]}
    /\ profiles' = profiles \cup {r \in Plans \X PROFILES : r[2] \in PLAN_PROFILES[r[1]]}
    /\ nodes' = [nodes EXCEPT ![DE1_NODE.node] = IF @ = "absent" THEN DE1_NODE.status ELSE @]
    /\ blockers' = blockers \cup NODE_LIVE_BLOCKERS
    /\ UNCHANGED <<alerts, off, edits, call, cleared>>
    /\ Noted

Edit == edits < MaxEdits /\ edits' = edits + 1 /\ UNCHANGED call

\* A node is added, or its status set.
AdminSetsStatus(n, s) ==
    /\ Edit
    /\ nodes[n] # s
    /\ nodes' = [nodes EXCEPT ![n] = s]
    /\ UNCHANGED <<plans, regions, profiles, blockers, alerts, off, cleared>>
    /\ Noted

\* "Admin-editable: delete the row once cleared."
AdminClearsBlocker(b) ==
    /\ Edit
    /\ b \in blockers
    /\ blockers' = blockers \ {b}
    /\ cleared' = cleared \cup {b}
    /\ UNCHANGED <<plans, regions, profiles, nodes, alerts, off>>
    /\ Noted

AdminSetsProtocol(n, c) ==
    /\ Edit
    /\ nodes[n] # "absent"
    /\ off' = IF <<n, c>> \in off THEN off \ {<<n, c>>} ELSE off \cup {<<n, c>>}
    /\ UNCHANGED <<plans, regions, profiles, nodes, blockers, alerts, cleared>>
    /\ Noted

AdminDropsRegion(p, r) ==
    /\ Edit
    /\ <<p, r>> \in regions
    /\ regions' = regions \ {<<p, r>>}
    /\ UNCHANGED <<plans, profiles, nodes, blockers, alerts, off, cleared>>
    /\ Noted

AdminDropsProfile(p, c) ==
    /\ Edit
    /\ <<p, c>> \in profiles
    /\ profiles' = profiles \ {<<p, c>>}
    /\ UNCHANGED <<plans, regions, nodes, blockers, alerts, off, cleared>>
    /\ Noted

AdminSwitchesPlan(p) ==
    /\ Edit
    /\ plans[p] # "absent"
    /\ plans' = [plans EXCEPT ![p] = IF @ = "on" THEN "off" ELSE "on"]
    /\ UNCHANGED <<regions, profiles, nodes, blockers, alerts, off, cleared>>
    /\ Noted

\* The monitor's evaluation of a node leaves these levels open.
MonitorReconciles(n, levels) ==
    /\ Edit
    /\ nodes[n] # "absent" /\ alerts[n] # levels
    /\ alerts' = [alerts EXCEPT ![n] = levels]
    /\ UNCHANGED <<plans, regions, profiles, nodes, blockers, off, cleared>>
    /\ Noted

-----------------------------------------------------------------------------
(* The readers: one SELECT a step, nothing written. *)

Reading(label) == pc = label /\ UNCHANGED <<tables, edits, history, ask>>

\* Mutant: the WHERE clause is lost.
NodesEverywhere(rs) == {n \in Nodes : nodes[n] # "absent"}

\* nodes_in_regions, and build_plan's own list of candidates.
NodesIn(rs) == {n \in Nodes : nodes[n] # "absent" /\ RegionOf[n] \in rs}
StatusOf(ns) == [n \in ns |-> nodes[n]]

\* Rows come ORDER BY region_code, node_code.
Rank(n) == <<Position(RegionOf[n], RegionOrder), n>>
Before(a, b) == a[1] < b[1] \/ (a[1] = b[1] /\ a[2] < b[2])
InHand == CHOOSE n \in left : \A k \in left \ {n} : Before(Rank(n), Rank(k))

Invoke(op, p, mode, preferred) ==
    /\ pc \in Answered \cup {"idle"}
    /\ op = "build_plan" => mode = "dry_run"
    /\ op = "resolve" => preferred = NoNode
    /\ ask' = [op |-> op, plan |-> p, mode |-> mode, preferred |-> preferred]
    /\ pc' = IF op = "build_plan" THEN "plan_row" ELSE "ent_row"
    /\ own' = Nothing /\ ent' = Nothing /\ pass' = "resolve" /\ left' = {}
    /\ ready' = [resolve |-> Nobody, plan |-> Nobody] /\ unasked' = {} /\ up' = {}
    /\ since' = [n \in Nodes |-> {RowsOf(n)}] /\ entitled' = {RightsOf(p)} /\ quiet' = TRUE
    /\ UNCHANGED <<tables, edits, cleared>>

\* provisioning_plan._plan_row does not look at is_enabled.
ReadPlanRow ==
    /\ Reading("plan_row")
    /\ pc' = IF plans[ask.plan] = "absent" THEN "unknown_plan" ELSE "plan_regions"
    /\ UNCHANGED <<own, ent, pass, left, ready, unasked, up>>

ReadPlanRegions ==
    /\ Reading("plan_regions")
    /\ own' = [own EXCEPT !.regions = RightsOf(ask.plan).regions]
    /\ pc' = "plan_profiles"
    /\ UNCHANGED <<ent, pass, left, ready, unasked, up>>

ReadPlanProfiles ==
    /\ Reading("plan_profiles")
    /\ own' = [own EXCEPT !.profiles = RightsOf(ask.plan).profiles]
    /\ pc' = IF own.regions = {} THEN "ent_row" ELSE "plan_nodes"
    /\ UNCHANGED <<ent, pass, left, ready, unasked, up>>

ReadPlanNodes ==
    /\ Reading("plan_nodes")
    /\ own' = [own EXCEPT !.candidates = StatusOf(NodesIn(own.regions))]
    /\ pc' = "ent_row"
    /\ UNCHANGED <<ent, pass, left, ready, unasked, up>>

ReadEntRow ==
    /\ Reading("ent_row")
    /\ pc' = CASE plans[ask.plan] = "absent" -> "unknown_plan"
               [] plans[ask.plan] = "off" -> "disabled_plan"
               [] OTHER -> "ent_regions"
    /\ UNCHANGED <<own, ent, pass, left, ready, unasked, up>>

ReadEntRegions ==
    /\ Reading("ent_regions")
    /\ ent' = [ent EXCEPT !.regions = RightsOf(ask.plan).regions]
    /\ pc' = "ent_profiles"
    /\ UNCHANGED <<own, pass, left, ready, unasked, up>>

ReadEntProfiles ==
    /\ Reading("ent_profiles")
    /\ ent' = [ent EXCEPT !.profiles = RightsOf(ask.plan).profiles]
    /\ pc' = "list_nodes"
    /\ UNCHANGED <<own, pass, left, ready, unasked, up>>

-----------------------------------------------------------------------------
(* node_readiness: the reasons against live, and who is a candidate. *)

StatusReason == [test |-> "node_status_test", planned |-> "node_status_planned",
                 standby |-> "node_status_standby", retired |-> "node_status_retired"]

Reasons(r) ==
    (IF r.status = "live" THEN {} ELSE {"node_not_live", StatusReason[r.status]})
    \cup (CASE r.health = "down" -> {"node_down"}
            [] r.health = "degraded" -> {"node_degraded"}
            [] OTHER -> {})
    \cup r.blockers

\* Mutant: the health is left to the live mode.
CandidateOfStatus(r, mode) ==
    IF mode = "live" THEN r.status = "live" /\ Reasons(r) = {}
    ELSE r.status \in {"test", "standby", "live"}

\* Mutant: a standby node is no candidate.
CandidateInUse(r, mode) ==
    IF mode = "live" THEN r.status = "live" /\ r.health # "down" /\ Reasons(r) = {}
    ELSE r.status \in {"test", "live"} /\ r.health # "down"

Candidate(r, mode) ==
    IF mode = "live" THEN r.status = "live" /\ r.health # "down" /\ Reasons(r) = {}
    ELSE r.status \in {"test", "standby", "live"} /\ r.health # "down"

\* The candidates among the nodes that RESOLVE read.
Candidates(f) == {n \in DOMAIN f : Candidate(f[n], ask.mode)}

\* After the readiness of resolve come the protocols of its candidates; after
\* those the answer, or the second readiness of build_plan.
AfterResolve ==
    IF ask.op = "build_plan" THEN pc' = "list_nodes" /\ pass' = "plan"
    ELSE pc' = "done" /\ UNCHANGED pass

AfterReadiness(f) ==
    IF pass = "plan" THEN pc' = "done" /\ UNCHANGED <<pass, unasked>>
    ELSE /\ unasked' = Candidates(f) \X ent.profiles
         /\ IF unasked' # {} THEN pc' = "protocols" /\ UNCHANGED pass ELSE AfterResolve

ListNodes ==
    /\ Reading("list_nodes")
    /\ left' = NodesIn(IF pass = "plan" THEN own.regions ELSE ent.regions)
    /\ ready' = [ready EXCEPT ![pass] =
                    [n \in left' |-> [status |-> nodes[n], health |-> "healthy", blockers |-> {}]]]
    /\ IF left' # {} THEN pc' = "alerts" /\ UNCHANGED <<pass, unasked>>
                     ELSE AfterReadiness(Nobody)
    /\ UNCHANGED <<own, ent, up>>

ReadAlerts ==
    /\ Reading("alerts")
    /\ ready' = [ready EXCEPT ![pass][InHand].health = Health(alerts[InHand])]
    /\ pc' = "blockers"
    /\ UNCHANGED <<own, ent, pass, left, unasked, up>>

\* Mutant: the reasons of the node listed first serve for all.
ReadBlockersOnce ==
    /\ Reading("blockers")
    /\ ready' = ready
    /\ left' = left \ {InHand}
    /\ IF left' # {} THEN pc' = "alerts" /\ UNCHANGED <<pass, unasked>>
                     ELSE AfterReadiness((ready')[pass])
    /\ UNCHANGED <<own, ent, up>>

ReadBlockers ==
    /\ Reading("blockers")
    /\ ready' = [ready EXCEPT ![pass][InHand].blockers = BlockersOf(InHand)]
    /\ left' = left \ {InHand}
    /\ IF left' # {} THEN pc' = "alerts" /\ UNCHANGED <<pass, unasked>>
                     ELSE AfterReadiness((ready')[pass])
    /\ UNCHANGED <<own, ent, up>>

\* The look-ups of resolve: by region, by profile, by node; any() stops a
\* profile of a region at the first node that has it.
ProtocolRank(q) ==
    <<Position(RegionOf[q[1]], RegionOrder) * (Len(ProfileOrder) + 1)
          + Position(q[2], ProfileOrder), q[1]>>
NextLookup == CHOOSE q \in unasked :
                  \A k \in unasked \ {q} : Before(ProtocolRank(q), ProtocolRank(k))

ReadProtocol ==
    /\ Reading("protocols")
    /\ LET n == NextLookup[1]
           c == NextLookup[2]
           found == <<n, c>> \notin off
       IN  /\ up' = IF found THEN up \cup {<<RegionOf[n], c>>} ELSE up
           /\ unasked' = IF found
                         THEN {q \in unasked : RegionOf[q[1]] # RegionOf[n] \/ q[2] # c}
                         ELSE unasked \ {<<n, c>>}
    /\ IF unasked' # {} THEN UNCHANGED <<pc, pass>> ELSE AfterResolve
    /\ UNCHANGED <<own, ent, left, ready>>

Write ==
    \/ Seed
    \/ \E n \in Nodes, s \in AdminStatuses : AdminSetsStatus(n, s)
    \/ \E b \in blockers : AdminClearsBlocker(b)
    \/ \E n \in Nodes, c \in Fragile : AdminSetsProtocol(n, c)
    \/ \E p \in Plans, r \in REGIONS : AdminDropsRegion(p, r)
    \/ \E p \in Plans, c \in PROFILES : AdminDropsProfile(p, c)
    \/ \E p \in Plans : AdminSwitchesPlan(p)
    \/ \E n \in Nodes, levels \in Written : MonitorReconciles(n, levels)

Consult ==
    \E op \in {"build_plan", "resolve"}, p \in Plans, mode \in {"dry_run", "live"},
       preferred \in Preferred \cup {NoNode} : Invoke(op, p, mode, preferred)

Read ==
    \/ ReadPlanRow \/ ReadPlanRegions \/ ReadPlanProfiles \/ ReadPlanNodes
    \/ ReadEntRow \/ ReadEntRegions \/ ReadEntProfiles
    \/ ListNodes \/ ReadAlerts \/ ReadBlockers \/ ReadProtocol

Next == Write \/ Consult \/ Read

Spec == Init /\ [][Next]_vars

-----------------------------------------------------------------------------
(* What the call returns, at "done". *)

\* CustomerAvailability.available_regions, and per region the candidates.
CandidatesOf(r) == {n \in Candidates(ready.resolve) : RegionOf[n] = r}
AvailableRegions == {r \in ent.regions : CandidatesOf(r) # {}}

\* Why a region is not available.
RegionReasons(r) ==
    LET here == {n \in DOMAIN ready.resolve : RegionOf[n] = r}
        found == (IF \A n \in here : ready.resolve[n].health = "down" THEN {"node_down"} ELSE {})
                 \cup UNION {Reasons(ready.resolve[n]) : n \in here}
    IN  IF here = {} \/ found = {} THEN {"no_candidate_node"} ELSE found

\* The node build_plan aims at: the preferred one if it is listed, else the first.
Target ==
    IF ask.preferred \in DOMAIN own.candidates THEN ask.preferred
    ELSE IF own.candidates = Nobody THEN NoNode
    ELSE CHOOSE n \in DOMAIN own.candidates : \A k \in DOMAIN own.candidates : n <= k

\* PHASE4C_LIVE_PROVISION_DISABLED is True and LEAKED_KEY_REBUILD_PENDING False.
LiveBlockers ==
    {"phase4c_live_disabled"}
    \cup (IF Target = NoNode THEN {"no_candidate_node"}
          ELSE IF own.candidates[Target] # "live" THEN {"node_not_live"} ELSE {})

-----------------------------------------------------------------------------
(* Properties. *)

\* What the documentation calls usable, said of the rows of one moment.
UsableRows(x, mode) ==
    IF mode = "live" THEN x.status = "live" /\ x.health = "healthy" /\ x.blockers = {}
    ELSE x.status \in {"test", "standby", "live"} /\ x.health # "down"

Usable(r) == {n \in Nodes : RegionOf[n] = r /\ UsableRows(RowsOf(n), ask.mode)}

\* When nothing is written during a call its answer is that of one snapshot:
\* an entitled region is available iff one of its own nodes is usable, a
\* profile is up there iff a usable node has it, and what build_plan read
\* itself, once more at the end, says the same (availability.py:7-12).
QuietAnswersAreExact ==
    pc = "done" /\ quiet =>
        LET rights == RightsOf(ask.plan) IN
        /\ AvailableRegions = {r \in rights.regions : Usable(r) # {}}
        /\ up = {q \in rights.regions \X rights.profiles :
                    \E n \in Usable(q[1]) : <<n, q[2]>> \notin off}
        /\ ask.op = "build_plan" =>
               /\ own.regions = ent.regions /\ own.profiles = ent.profiles
               /\ ready.plan = ready.resolve
               /\ ("node_not_live" \in LiveBlockers) =
                      (Target # NoNode /\ nodes[Target] # "live")

\* However the writers interleave, what is offered was so at some moment of
\* the call: the plan entitled to the region, the node had that status, was not
\* down, had those blockers, had the profile up.  A node that was down, or had
\* not the status, all the time is never offered.
OfferedWasUsable ==
    pc = "done" =>
        /\ \A r \in AvailableRegions : \E x \in entitled : r \in x.regions
        /\ \A n \in Candidates(ready.resolve) :
               /\ \E x \in since[n] : x.status = ready.resolve[n].status
               /\ \E x \in since[n] : x.health # "down"
               /\ ask.mode = "live" => \E x \in since[n] : x.health = "healthy"
               /\ ask.mode = "live" => \E x \in since[n] : x.blockers = {}
        /\ \A q \in up : \E n \in CandidatesOf(q[1]) : \E x \in since[n] : q[2] \in x.on

\* A node that was usable all through the call, in a region the plan was
\* entitled to all through, is offered: nothing that happens to other nodes,
\* regions or plans takes it away.  A region that is not available is given a
\* reason, and each reason was true of one of its own nodes.
UsableThroughoutIsOffered ==
    pc = "done" =>
        /\ \A n \in Nodes :
               /\ \A x \in since[n] : UsableRows(x, ask.mode)
               /\ \A x \in entitled : RegionOf[n] \in x.regions
               => n \in Candidates(ready.resolve)
        /\ \A r \in ent.regions \ AvailableRegions :
               /\ RegionReasons(r) # {}
               /\ "node_down" \in RegionReasons(r) =>
                      \E n \in Nodes : RegionOf[n] = r /\ \E x \in since[n] : x.health = "down"

\* seed.py:139 says of the blockers "Admin-editable: delete the row once
\* cleared": a blocker that the admin cleared stays cleared.
ClearedStaysCleared == cleared \cap blockers = {}
=============================================================================
