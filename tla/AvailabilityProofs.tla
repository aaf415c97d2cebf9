-------------------------- MODULE AvailabilityProofs --------------------------
(* Theorems about Availability and the pages on top of it, for any plans,   *)
(* nodes, topologies and writers.                                           *)
EXTENDS PortalPages, WellFoundedInduction, TLAPS

(* The inductive invariant.  Every SELECT that a call has behind it was     *)
(* true of some moment since the call began: SINCE and ENTITLED hold those  *)
(* moments, and the current one as long as the call is under way.           *)

\* The labels at which a call has its entitlements, and those of build_plan's own reads.
Entitled == {"list_nodes", "alerts", "blockers", "protocols", "done"}
OfPlan == {"plan_row", "plan_regions", "plan_profiles", "plan_nodes"}

\* Functions on some of the nodes; what a resolver has of regions, profiles and nodes.
Partial(R) == UNION {[S -> R] : S \in SUBSET Nodes}
Resolution == [regions : SUBSET REGIONS, profiles : SUBSET PROFILES, candidates : Partial(Statuses)]

\* The types of the records, which TypeOK gives field by field.
Shapes ==
    /\ ask \in [op : {"none", "build_plan", "resolve"}, plan : Plans \cup {"none"},
                mode : {"none", "dry_run", "live"}, preferred : Nodes \cup {NoNode}]
    /\ own \in Resolution /\ ent \in Resolution
    /\ ready \in [resolve : Partial(Readiness), plan : Partial(Readiness)]

\* Where a call can be, and for whom it reads readiness there.
Control ==
    /\ pc # "idle" => ask.plan \in Plans /\ ask.op # "none" /\ ask.mode # "none"
    /\ pc \in OfPlan => ask.op = "build_plan" /\ pass = "resolve"
    /\ pass = "plan" => ask.op = "build_plan" /\ pc \in {"list_nodes", "alerts", "blockers", "done"}
    /\ pc = "done" /\ ask.op = "build_plan" => pass = "plan"
    /\ ask.op = "build_plan" => ask.mode = "dry_run"
    /\ pc \in {"alerts", "blockers"} <=> left # {}
    /\ left \subseteq DOMAIN ready[pass]
    /\ pc = "protocols" <=> unasked # {}

\* The rows as they are belong to a call under way; on a quiet database there were no others.
Current ==
    /\ CallUnderWay =>
        /\ \A n \in Nodes : RowsOf(n) \in since[n]
        /\ RightsOf(ask.plan) \in entitled
    /\ quiet /\ pc # "idle" =>
        /\ \A n \in Nodes : since[n] = {RowsOf(n)}
        /\ entitled = {RightsOf(ask.plan)}

\* The regions and the profiles of the entitlements are each of one moment (not the same).
Rights ==
    /\ pc \in Entitled \cup {"ent_profiles"} => \E x \in entitled : ent.regions = x.regions
    /\ pc \in Entitled => \E x \in entitled : ent.profiles = x.profiles

\* What was so of node n at some moment of the call.
WasStatus(n, s) == \E x \in since[n] : x.status = s
WasHealth(n, h) == \E x \in since[n] : x.health = h
WasBlocked(n, b) == \E x \in since[n] : x.blockers = b
WasOn(n, c) == \E x \in since[n] : c \in x.on
WasOff(n, c) == \E x \in since[n] : c \notin x.on

\* The same of what build_plan read itself, and of its candidates.
OwnRights ==
    ask.op = "build_plan" =>
        /\ pc \in Entitled \cup {"plan_profiles", "plan_nodes", "ent_row", "ent_regions", "ent_profiles"}
            => \E x \in entitled : own.regions = x.regions
        /\ pc \in Entitled \cup {"plan_nodes", "ent_row", "ent_regions", "ent_profiles"}
            => \E x \in entitled : own.profiles = x.profiles
        /\ pc \in Entitled \cup {"ent_row", "ent_regions", "ent_profiles"} =>
            /\ \A n \in DOMAIN own.candidates :
                RegionOf[n] \in own.regions /\ WasStatus(n, own.candidates[n])
            /\ \A n \in Nodes \ DOMAIN own.candidates :
                RegionOf[n] \in own.regions => WasStatus(n, "absent")

\* Nodes whose alerts are still to be read.
Unheard == IF pc = "blockers" THEN left \ {InHand} ELSE left

\* A readiness f of the regions rs: every field was true at some moment of the call, and
\* a node it has not was absent at one.
Witnessed(f, rs, unheard, unseen) ==
    /\ \A n \in DOMAIN f : RegionOf[n] \in rs /\ WasStatus(n, f[n].status)
    /\ \A n \in DOMAIN f \ unheard : WasHealth(n, f[n].health)
    /\ \A n \in DOMAIN f \ unseen : WasBlocked(n, f[n].blockers)
    /\ \A n \in Nodes \ DOMAIN f : RegionOf[n] \in rs => WasStatus(n, "absent")

\* The readiness of resolve is witnessed as far as it was read, then that of build_plan.
Resolved ==
    /\ pass = "resolve" /\ pc \in {"alerts", "blockers", "protocols", "done"}
        => Witnessed(ready.resolve, ent.regions, Unheard, left)
    /\ pass = "plan" => Witnessed(ready.resolve, ent.regions, {}, {})
    /\ pass = "plan" /\ pc # "list_nodes" => Witnessed(ready.plan, own.regions, Unheard, left)

\* The look-ups have begun or are over.
Looking == pass = "plan" \/ pc \in {"protocols", "done"}

\* What was found up was up at some moment; what was not was off at one.
LookedUp ==
    /\ ~Looking => up = {}
    /\ unasked \subseteq Candidates(ready.resolve) \X ent.profiles
    /\ \A q \in up : /\ q \in ent.regions \X ent.profiles
                     /\ \E n \in Candidates(ready.resolve) : RegionOf[n] = q[1] /\ WasOn(n, q[2])
    /\ Looking => \A n \in Candidates(ready.resolve), c \in ent.profiles :
          <<n, c>> \in unasked \/ <<RegionOf[n], c>> \in up \/ WasOff(n, c)

\* What is not read yet is empty, so that later regions cannot contradict it.
Fresh ==
    /\ pc \in OfPlan => DOMAIN own.candidates = {}
    /\ pc \in OfPlan \cup {"ent_row", "ent_regions"} => DOMAIN ready.resolve = {}
    /\ pass = "resolve" => DOMAIN ready.plan = {}

\* TypeOK in two halves: the tables, and the call.
TablesOK ==
    /\ plans \in [Plans -> {"absent", "on", "off"}]
    /\ regions \subseteq Plans \X REGIONS
    /\ profiles \subseteq Plans \X PROFILES
    /\ nodes \in [Nodes -> Statuses \cup {"absent"}]
    /\ blockers \subseteq Nodes \X Blockers
    /\ alerts \in [Nodes -> SUBSET Levels]
    /\ off \subseteq Nodes \X PROFILES
    /\ edits \in 0 .. MaxEdits

CallOK ==
    /\ pc \in Labels
    /\ pass \in {"resolve", "plan"} /\ left \subseteq Nodes
    /\ unasked \subseteq Nodes \X PROFILES
    /\ up \subseteq REGIONS \X PROFILES
    /\ \A n \in DOMAIN own.candidates : RegionOf[n] \in own.regions
    /\ DOMAIN ready.plan \subseteq {n \in Nodes : RegionOf[n] \in own.regions}
    /\ DOMAIN ready.resolve \subseteq {n \in Nodes : RegionOf[n] \in ent.regions}

AvInv == /\ TablesOK /\ CallOK /\ Shapes /\ Fresh /\ Control
         /\ Current /\ Rights /\ OwnRights /\ Resolved /\ LookedUp

(* What a page relies on between its SELECTs: no call is under way while it *)
(* has none, the call it made is about the plan in hand, and as long as     *)
(* nothing is written every plan of the list is on.                         *)
PagesTyped ==
    /\ page \in {"none", "plans", "subscription"}
    /\ stage \in Stages
    /\ listing \subseteq Plans
    /\ card \in [regions : SUBSET REGIONS, profiles : SUBSET PROFILES]
    /\ calm \in BOOLEAN
    /\ stage \in {"row", "regions", "profiles", "resolve"} => listing # {}

\* Stages of /plans at which no resolver has been called.
Unanswered == {"list", "row", "regions", "profiles"}

PagesControl ==
    /\ stage \in Unanswered => pc = "idle" /\ page = "plans"
    /\ stage = "resolve" => ask.op = "resolve" /\ ask.mode = "dry_run" /\ pc # "idle"
    /\ stage = "resolve" => page \in {"plans", "subscription"}
    /\ stage = "resolve" /\ page = "plans" => ask.plan = Plan
    /\ stage = "resolve" /\ page = "subscription" => listing = {ask.plan}
    /\ stage = "resolve" /\ calm => quiet
    /\ stage = "resolve" /\ pc \in {"unknown_plan", "disabled_plan"} =>
          \E x \in entitled : x.enabled # "on"
    /\ stage = "raised" => pc \in {"idle", "unknown_plan", "disabled_plan"}
    /\ page = "plans" /\ calm => \A p \in listing : plans[p] = "on"

PagesInv == PagesTyped /\ PagesControl /\ FailedPagesHaveCause

-----------------------------------------------------------------------------
(* Orders.  A set of naturals has a least element, and so has a set of      *)
(* pairs of naturals, or of whatever has a pair of its own.                 *)
LEMMA Least ==
  ASSUME NEW B, B \subseteq Nat, B # {}
  PROVE  \E m \in B : \A k \in B : m <= k
  <1> DEFINE R == OpToRel(<, Nat)
  <1>1. IsWellFoundedOn(R, Nat)
    BY NatLessThanWellFounded
  <1>2. PICK m \in B : \A k \in B : ~ (<<k, m>> \in R)
    <2> HIDE DEF R
    <2> QED BY <1>1, WFMin
  <1>3. \A k \in B : <<k, m>> \in R <=> k < m
    BY DEF OpToRel
  <1> HIDE DEF R
  <1>4. \A k \in B : ~(k < m)
    BY <1>2, <1>3
  <1>5. \A k \in B : m <= k
    BY <1>4
  <1> QED
    BY <1>5

\* The one whose pair is least, lexicographically.
LEMMA First ==
  ASSUME NEW S, S # {}, NEW f \in [S -> Nat \X Nat],
         \A a, b \in S : f[a] = f[b] => a = b
  PROVE  \E a \in S : \A b \in S \ {a} : Before(f[a], f[b])
  <1> DEFINE Major == {f[a][1] : a \in S}
  <1>1. \A a \in S : f[a][1] \in Nat /\ f[a][2] \in Nat /\ f[a] = <<f[a][1], f[a][2]>>
    OBVIOUS
  <1>2. Major \subseteq Nat /\ Major # {}
    BY <1>1
  <1>3. PICK i \in Major : \A j \in Major : i <= j
    BY <1>2, Least
  <1> DEFINE Ties == {a \in S : f[a][1] = i}
  <1> DEFINE Minor == {f[a][2] : a \in Ties}
  <1>4. Minor \subseteq Nat /\ Minor # {}
    BY <1>1, <1>3
  <1>5. PICK k \in Minor : \A l \in Minor : k <= l
    BY <1>4, Least
  <1>6. PICK a \in Ties : f[a][2] = k
    BY <1>5
  <1>7. ASSUME NEW b \in S \ {a} PROVE Before(f[a], f[b])
    <2>1. f[a][1] = i /\ f[a][1] \in Nat /\ f[b][1] \in Nat /\ i <= f[b][1]
      BY <1>1, <1>3, <1>6, <1>7
    <2>2. CASE f[b][1] = i
      <3>1. b \in Ties /\ f[a][2] <= f[b][2]
        BY <1>5, <1>6, <1>7, <2>2
      <3>2. f[a][2] # f[b][2]
        BY <1>1, <1>6, <1>7, <2>1, <2>2
      <3>3. f[a][2] < f[b][2]
        BY <1>1, <1>6, <1>7, <3>1, <3>2
      <3> QED BY <2>1, <2>2, <3>3 DEF Before
    <2> QED BY <2>1, <2>2 DEF Before
  <1> QED BY <1>6, <1>7

(* The places of the regions and of the profiles in their orders.           *)
LEMMA Places ==
  /\ \A r \in REGIONS : Position(r, RegionOrder) \in 1 .. 3
  /\ \A r, s \in REGIONS : Position(r, RegionOrder) = Position(s, RegionOrder) => r = s
  /\ \A c \in PROFILES : Position(c, ProfileOrder) \in 1 .. 3
  /\ \A c, d \in PROFILES : Position(c, ProfileOrder) = Position(d, ProfileOrder) => c = d
  <1>1. /\ DOMAIN RegionOrder = 1 .. 3
        /\ RegionOrder[1] = "de" /\ RegionOrder[2] = "sg" /\ RegionOrder[3] = "us"
    BY DEF RegionOrder
  <1>2. /\ DOMAIN ProfileOrder = 1 .. 3
        /\ ProfileOrder[1] = "FAST1" /\ ProfileOrder[2] = "FAST2" /\ ProfileOrder[3] = "SECURE"
    BY DEF ProfileOrder
  <1>3. ASSUME NEW order, NEW x, \E i \in DOMAIN order : order[i] = x
        PROVE  Position(x, order) \in DOMAIN order /\ order[Position(x, order)] = x
    BY <1>3 DEF Position
  <1>4. \A r \in REGIONS : \E i \in DOMAIN RegionOrder : RegionOrder[i] = r
    BY <1>1 DEF REGIONS
  <1>5. \A c \in PROFILES : \E i \in DOMAIN ProfileOrder : ProfileOrder[i] = c
    BY <1>2 DEF PROFILES
  <1>6. \A r \in REGIONS : /\ Position(r, RegionOrder) \in DOMAIN RegionOrder
                           /\ RegionOrder[Position(r, RegionOrder)] = r
    BY <1>3, <1>4
  <1>7. \A c \in PROFILES : /\ Position(c, ProfileOrder) \in DOMAIN ProfileOrder
                            /\ ProfileOrder[Position(c, ProfileOrder)] = c
    BY <1>3, <1>5
  <1>8. \A r, s \in REGIONS : Position(r, RegionOrder) = Position(s, RegionOrder) => r = s
    BY <1>6
  <1>9. \A c, d \in PROFILES : Position(c, ProfileOrder) = Position(d, ProfileOrder) => c = d
    BY <1>7
  <1> QED BY <1>1, <1>2, <1>6, <1>7, <1>8, <1>9

\* Nodes are numbered from one, and each is in a region.
LEMMA Numbered ==
  \A n \in Nodes : n \in Nat /\ n # NoNode /\ RegionOf[n] \in REGIONS
  BY CatalogueAssumption DEF NoNode

\* The node in hand is one of those left: ORDER BY puts one of them first.
LEMMA InHandLeft ==
  ASSUME left \subseteq Nodes, left # {}
  PROVE  InHand \in left
  <1> DEFINE rank == [n \in left |-> Rank(n)]
  <1>1. \A n \in left : RegionOf[n] \in REGIONS /\ n \in Nat
    BY Numbered
  <1>2. \A n \in left : Rank(n) \in Nat \X Nat
    BY <1>1, Places DEF Rank
  <1>3. \A a, b \in left : rank[a] = rank[b] => a = b
    BY <1>2 DEF Rank
  <1> HIDE DEF rank
  <1>4. rank \in [left -> Nat \X Nat]
    BY <1>2 DEF rank
  <1>5. \E a \in left : \A b \in left \ {a} : Before(rank[a], rank[b])
    BY <1>3, <1>4, First
  <1>6. \E a \in left : \A b \in left \ {a} : Before(Rank(a), Rank(b))
    BY <1>5 DEF rank
  <1> QED BY <1>6 DEF InHand

\* The next look-up is one of those not made yet.
LEMMA LookupUnasked ==
  ASSUME unasked \subseteq Nodes \X PROFILES, unasked # {}
  PROVE  NextLookup \in unasked
  <1> DEFINE rank == [q \in unasked |-> ProtocolRank(q)]
  <1>0. Len(ProfileOrder) = 3
    BY DEF ProfileOrder
  <1>1. \A q \in unasked : /\ q[1] \in Nat /\ RegionOf[q[1]] \in REGIONS /\ q[2] \in PROFILES
                           /\ q = <<q[1], q[2]>>
    <2>1. \A q \in unasked : q[1] \in Nodes /\ q[2] \in PROFILES /\ q = <<q[1], q[2]>>
      OBVIOUS
    <2> QED BY <2>1, Numbered
  <1>2. \A q \in unasked :
           /\ Position(RegionOf[q[1]], RegionOrder) \in 1 .. 3
           /\ Position(q[2], ProfileOrder) \in 1 .. 3
    BY <1>1, Places
  <1>3. \A q \in unasked : ProtocolRank(q) \in Nat \X Nat
    BY <1>0, <1>1, <1>2 DEF ProtocolRank
  <1>4. ASSUME NEW a \in unasked, NEW b \in unasked, ProtocolRank(a) = ProtocolRank(b)
        PROVE  a = b
    <2>0. \A i, j, k, l \in 1 .. 3 : i * 4 + k = j * 4 + l => k = l
      OBVIOUS
    <2>1. /\ Position(RegionOf[a[1]], RegionOrder) * 4 + Position(a[2], ProfileOrder)
              = Position(RegionOf[b[1]], RegionOrder) * 4 + Position(b[2], ProfileOrder)
          /\ a[1] = b[1]
      <3>1. /\ ProtocolRank(a)[1] = Position(RegionOf[a[1]], RegionOrder) * 4
                                         + Position(a[2], ProfileOrder)
            /\ ProtocolRank(a)[2] = a[1]
        BY <1>0 DEF ProtocolRank
      <3>2. /\ ProtocolRank(b)[1] = Position(RegionOf[b[1]], RegionOrder) * 4
                                         + Position(b[2], ProfileOrder)
            /\ ProtocolRank(b)[2] = b[1]
        BY <1>0 DEF ProtocolRank
      <3>3. ProtocolRank(a)[1] = ProtocolRank(b)[1] /\ ProtocolRank(a)[2] = ProtocolRank(b)[2]
        BY <1>4
      <3> QED BY <3>1, <3>2, <3>3
    <2>2. /\ Position(RegionOf[a[1]], RegionOrder) \in 1 .. 3
          /\ Position(RegionOf[b[1]], RegionOrder) \in 1 .. 3
          /\ Position(a[2], ProfileOrder) \in 1 .. 3 /\ Position(b[2], ProfileOrder) \in 1 .. 3
      BY <1>2
    <2>3. Position(a[2], ProfileOrder) = Position(b[2], ProfileOrder)
      BY ONLY <2>0, <2>1, <2>2
    <2>4. a[2] = b[2]
      BY <1>1, <2>3, Places
    <2> QED BY <1>1, <2>1, <2>4
  <1>5. \A a, b \in unasked : rank[a] = rank[b] => a = b
    BY <1>4
  <1> HIDE DEF rank
  <1>6. rank \in [unasked -> Nat \X Nat]
    BY <1>3 DEF rank
  <1>7. \E a \in unasked : \A b \in unasked \ {a} : Before(rank[a], rank[b])
    BY <1>5, <1>6, First
  <1>8. \E a \in unasked : \A b \in unasked \ {a} : Before(ProtocolRank(a), ProtocolRank(b))
    BY <1>7 DEF rank
  <1> QED BY <1>8 DEF NextLookup

-----------------------------------------------------------------------------
(* Data.  Functions on some of the nodes, and the two readinesses.          *)
LEMMA PartialHas ==
  ASSUME NEW R, NEW f \in Partial(R)
  PROVE  /\ DOMAIN f \subseteq Nodes /\ f \in [DOMAIN f -> R]
         /\ \A n \in DOMAIN f : f[n] \in R
  BY DEF Partial

\* A function on some of the nodes is one of them.
LEMMA PartialOf ==
  ASSUME NEW R, NEW S, S \subseteq Nodes, NEW f \in [S -> R]
  PROVE  f \in Partial(R)
  BY DEF Partial

\* So is the empty one.
LEMMA NobodyTyped ==
  ASSUME NEW R
  PROVE  Nobody \in Partial(R) /\ DOMAIN Nobody = {}
  <1>1. Nobody \in [{} -> R] /\ DOMAIN Nobody = {}
    BY DEF Nobody
  <1> QED BY <1>1, PartialOf

Readinesses == [resolve : Partial(Readiness), plan : Partial(Readiness)]

\* Writing the health of a node changes nothing else of it, nor any other node.
LEMMA Heard ==
  ASSUME NEW f \in Partial(Readiness), NEW h \in DOMAIN f, NEW v \in Healths,
         NEW g, g = [f EXCEPT ![h].health = v]
  PROVE  /\ g \in Partial(Readiness) /\ DOMAIN g = DOMAIN f
         /\ \A n \in DOMAIN f : /\ g[n].status = f[n].status
                                /\ g[n].blockers = f[n].blockers
                                /\ n # h => g[n].health = f[n].health
         /\ g[h].health = v
  <1>1. DOMAIN f \subseteq Nodes /\ f \in [DOMAIN f -> Readiness]
    BY PartialHas
  <1>2. g \in [DOMAIN f -> Readiness]
    BY <1>1 DEF Readiness
  <1>3. g \in Partial(Readiness)
    BY <1>1, <1>2, PartialOf
  <1> QED BY <1>1, <1>2, <1>3 DEF Readiness

\* The same of its blockers.
LEMMA Seen ==
  ASSUME NEW f \in Partial(Readiness), NEW h \in DOMAIN f, NEW v \in SUBSET Blockers,
         NEW g, g = [f EXCEPT ![h].blockers = v]
  PROVE  /\ g \in Partial(Readiness) /\ DOMAIN g = DOMAIN f
         /\ \A n \in DOMAIN f : /\ g[n].status = f[n].status
                                /\ g[n].health = f[n].health
                                /\ n # h => g[n].blockers = f[n].blockers
         /\ g[h].blockers = v
  <1>1. DOMAIN f \subseteq Nodes /\ f \in [DOMAIN f -> Readiness]
    BY PartialHas
  <1>2. g \in [DOMAIN f -> Readiness]
    BY <1>1 DEF Readiness
  <1>3. g \in Partial(Readiness)
    BY <1>1, <1>2, PartialOf
  <1> QED BY <1>1, <1>2, <1>3 DEF Readiness

\* The invariant has the types in it.
LEMMA Typing ==
  AvInv => TypeOK
  <1> SUFFICES ASSUME AvInv PROVE TypeOK
    OBVIOUS
  <1> USE DEF AvInv
  <1>1. ask.op \in {"none", "build_plan", "resolve"} /\ ask.mode \in {"none", "dry_run", "live"}
    BY DEF Shapes
  <1>2. /\ own.regions \in SUBSET REGIONS /\ own.profiles \in SUBSET PROFILES
        /\ ent.regions \in SUBSET REGIONS /\ ent.profiles \in SUBSET PROFILES
    BY DEF Shapes, Resolution
  <1>3. ready.resolve \in Partial(Readiness) /\ ready.plan \in Partial(Readiness)
    BY DEF Shapes
  <1>4. \A f \in {ready.resolve, ready.plan} :
           DOMAIN f \subseteq Nodes /\ \A n \in DOMAIN f : f[n] \in Readiness
    BY <1>3, PartialHas
  <1> QED BY <1>1, <1>2, <1>4 DEF TypeOK, TablesOK, CallOK

-----------------------------------------------------------------------------
(* The initial states, and the steps that begin a call anew.                *)
LEMMA Clean ==
  /\ Nothing \in Resolution
  /\ Nothing.regions = {} /\ DOMAIN Nothing.candidates = {}
  /\ [resolve |-> Nobody, plan |-> Nobody] \in Readinesses
  <1>1. Nobody \in Partial(Statuses) /\ Nobody \in Partial(Readiness) /\ DOMAIN Nobody = {}
    BY NobodyTyped
  <1> QED BY <1>1 DEF Nothing, Resolution, Readinesses

Blank ==
    /\ own = Nothing /\ ent = Nothing /\ pass = "resolve" /\ left = {}
    /\ ready = [resolve |-> Nobody, plan |-> Nobody] /\ unasked = {} /\ up = {}

\* A blank call that is idle or at its first SELECT.
BlankStart ==
    /\ Blank /\ TablesOK
    /\ ask \in [op : {"none", "build_plan", "resolve"}, plan : Plans \cup {"none"},
                mode : {"none", "dry_run", "live"}, preferred : Nodes \cup {NoNode}]
    /\ \/ pc = "idle"
       \/ pc = "plan_row" /\ ask.op = "build_plan" /\ ask.plan \in Plans /\ ask.mode # "none"
       \/ pc = "ent_row" /\ ask.op = "resolve" /\ ask.plan \in Plans /\ ask.mode # "none"
    /\ ask.op = "build_plan" => ask.mode = "dry_run"
    /\ pc # "idle" => (\A n \in Nodes : since[n] = {RowsOf(n)}) /\ entitled = {RightsOf(ask.plan)}

\* Such a call satisfies the invariant.
LEMMA BlankInv ==
  BlankStart => AvInv
  <1> SUFFICES ASSUME BlankStart PROVE AvInv
    OBVIOUS
  <1> USE DEF BlankStart
  <1>1. /\ Nobody \in Partial(Readiness) /\ DOMAIN Nobody = {}
        /\ ready.resolve = Nobody /\ ready.plan = Nobody
    BY NobodyTyped DEF Blank
  <1>2. /\ own.regions = {} /\ DOMAIN own.candidates = {} /\ own \in Resolution /\ ent \in Resolution
        /\ ready \in Readinesses
    BY Clean DEF Blank
  <1>3. CallOK
    BY <1>1, <1>2 DEF CallOK, Blank, Labels
  <1>4. Shapes
    BY <1>2 DEF Shapes, Readinesses
  <1>5. Fresh
    BY <1>1, <1>2 DEF Fresh
  <1>6. Control
    BY DEF Control, Blank, OfPlan
  <1>7. Current
    BY DEF Current, CallUnderWay, Answered
  <1>8. Rights
    BY DEF Rights, Entitled
  <1>9. OwnRights
    <2>1. CASE ask.op = "build_plan"
      BY <2>1 DEF OwnRights, Entitled
    <2> QED BY <2>1 DEF OwnRights
  <1>10. Resolved
    BY DEF Resolved, Blank
  <1>11. LookedUp
    BY DEF LookedUp, Looking, Blank
  <1> QED BY <1>3, <1>4, <1>5, <1>6, <1>7, <1>8, <1>9, <1>10, <1>11 DEF AvInv

\* de1 and its blocker are a node and a blocker of the model.
LEMMA Seeded ==
  /\ DE1_NODE.node \in Nodes /\ DE1_NODE.status \in Statuses
  /\ NODE_LIVE_BLOCKERS \subseteq Nodes \X Blockers
  <1>1. DE1_NODE.node \in Nodes /\ DE1_NODE.node = 1
    BY CatalogueAssumption DEF DE1_NODE
  <1>2. DE1_NODE.status \in Statuses
    BY DEF DE1_NODE, Statuses
  <1>3. NODE_LIVE_BLOCKERS = {<<1, "realdevice_protocol_test_pending">>}
    BY DEF NODE_LIVE_BLOCKERS
  <1>4. "realdevice_protocol_test_pending" \in Blockers
    BY <1>3 DEF Blockers
  <1> QED BY <1>1, <1>2, <1>3, <1>4

\* The initial states satisfy the invariant.
LEMMA Initially ==
  Init => AvInv
  <1> SUFFICES ASSUME Init PROVE AvInv
    OBVIOUS
  <1>1. TablesOK
    <2>1. alerts \in [Nodes -> SUBSET Levels] /\ off \subseteq Nodes \X PROFILES
      BY DEF Init
    <2>2. edits \in 0 .. MaxEdits
      BY CatalogueAssumption DEF Init
    <2>3. CASE /\ plans = [p \in Plans |-> "absent"] /\ regions = {} /\ profiles = {}
               /\ nodes = [n \in Nodes |-> "absent"] /\ blockers = {}
      BY <2>1, <2>2, <2>3 DEF TablesOK
    <2>4. CASE /\ plans = [p \in Plans |-> "on"]
               /\ regions = {r \in Plans \X REGIONS : r[2] \in PLAN_REGIONS[r[1]]}
               /\ profiles = {r \in Plans \X PROFILES : r[2] \in PLAN_PROFILES[r[1]]}
               /\ nodes \in Topologies /\ blockers = NODE_LIVE_BLOCKERS
      <3>1. nodes \in [Nodes -> Statuses \cup {"absent"}]
        BY <2>4, CatalogueAssumption
      <3>2. blockers \subseteq Nodes \X Blockers
        BY <2>4, Seeded
      <3>3. regions \subseteq Plans \X REGIONS /\ profiles \subseteq Plans \X PROFILES
        BY <2>4
      <3>4. plans \in [Plans -> {"absent", "on", "off"}]
        BY <2>4
      <3> QED BY <2>1, <2>2, <3>1, <3>2, <3>3, <3>4 DEF TablesOK
    <2> QED BY <2>3, <2>4 DEF Init
  <1>2. Blank /\ pc = "idle"
    BY DEF Init, Blank
  <1>3. /\ ask.op = "none"
        /\ ask \in [op : {"none", "build_plan", "resolve"}, plan : Plans \cup {"none"},
                    mode : {"none", "dry_run", "live"}, preferred : Nodes \cup {NoNode}]
    BY DEF Init, NoAsk
  <1> QED BY <1>1, <1>2, <1>3, BlankInv DEF BlankStart

\* A step that writes nothing.
LEMMA TablesKept ==
  ASSUME TablesOK, UNCHANGED <<tables, edits>>
  PROVE  TablesOK'
  BY DEF TablesOK, tables

\* A page that drops a call leaves the invariant.
LEMMA Discarded ==
  ASSUME AvInv, Discard
  PROVE  AvInv'
  <1>1. TablesOK'
    BY TablesKept DEF AvInv, Discard
  <1>2. Blank' /\ pc' = "idle"
    BY DEF Discard, Blank
  <1>3. /\ ask'.op = "none"
        /\ ask' \in [op : {"none", "build_plan", "resolve"}, plan : Plans \cup {"none"},
                     mode : {"none", "dry_run", "live"}, preferred : Nodes \cup {NoNode}]
    BY DEF Discard, NoAsk
  <1>4. BlankStart'
    BY <1>1, <1>2, <1>3 DEF BlankStart
  <1> QED BY <1>4, BlankInv, PTL

\* So does a call that begins.
LEMMA Invoked ==
  ASSUME AvInv, NEW op \in {"build_plan", "resolve"}, NEW p \in Plans,
         NEW mode \in {"dry_run", "live"}, NEW preferred \in Nodes \cup {NoNode},
         Invoke(op, p, mode, preferred)
  PROVE  AvInv'
  <1>1. TablesOK'
    BY TablesKept DEF AvInv, Invoke
  <1>2. /\ own' = Nothing /\ ent' = Nothing /\ pass' = "resolve" /\ left' = {}
        /\ ready' = [resolve |-> Nobody, plan |-> Nobody] /\ unasked' = {} /\ up' = {}
    BY DEF Invoke
  <1>3. Blank'
    BY <1>2 DEF Blank
  <1>4. /\ ask' = [op |-> op, plan |-> p, mode |-> mode, preferred |-> preferred]
        /\ op = "build_plan" => mode = "dry_run"
        /\ pc' = IF op = "build_plan" THEN "plan_row" ELSE "ent_row"
    BY DEF Invoke
  <1>5. /\ ask' \in [op : {"none", "build_plan", "resolve"}, plan : Plans \cup {"none"},
                     mode : {"none", "dry_run", "live"}, preferred : Nodes \cup {NoNode}]
        /\ ask'.op = op /\ ask'.plan = p /\ ask'.mode = mode
    BY <1>4
  <1>6. UNCHANGED tables /\ since' = [n \in Nodes |-> {RowsOf(n)}] /\ entitled' = {RightsOf(p)}
    BY DEF Invoke
  <1>7. /\ \A n \in Nodes : since'[n] = {RowsOf(n)'}
        /\ entitled' = {RightsOf(ask.plan)'}
    BY <1>5, <1>6 DEF tables, RowsOf, RightsOf, BlockersOf
  <1>8. \/ pc' = "plan_row" /\ ask'.op = "build_plan" /\ ask'.plan \in Plans /\ ask'.mode # "none"
        \/ pc' = "ent_row" /\ ask'.op = "resolve" /\ ask'.plan \in Plans /\ ask'.mode # "none"
    BY <1>4, <1>5
  <1>9. ask'.op = "build_plan" => ask'.mode = "dry_run"
    BY <1>4, <1>5
  <1>10. BlankStart'
    BY <1>1, <1>3, <1>5, <1>7, <1>8, <1>9 DEF BlankStart
  <1> QED BY <1>10, BlankInv, PTL

-----------------------------------------------------------------------------
(* The writers.  None touches the call; what they write is noted for it.    *)
LEMMA Noting ==
  ASSUME TablesOK, Write
  PROVE  TablesOK' /\ UNCHANGED call /\ Noted
  <1>1. ASSUME Edit PROVE edits' \in 0 .. MaxEdits /\ UNCHANGED call
    BY <1>1, CatalogueAssumption DEF Edit, TablesOK
  <1>2. CASE Seed
    <2>1. plans' \in [Plans -> {"absent", "on", "off"}]
      BY <1>2 DEF Seed, TablesOK
    <2>2. regions' \subseteq Plans \X REGIONS /\ profiles' \subseteq Plans \X PROFILES
      BY <1>2 DEF Seed, TablesOK
    <2>3. nodes' \in [Nodes -> Statuses \cup {"absent"}]
      BY <1>2, Seeded DEF Seed, TablesOK
    <2>4. blockers' \subseteq Nodes \X Blockers
      BY <1>2, Seeded DEF Seed, TablesOK
    <2> QED BY <1>2, <2>1, <2>2, <2>3, <2>4 DEF Seed, TablesOK
  <1>3. ASSUME NEW n \in Nodes, NEW s \in AdminStatuses, AdminSetsStatus(n, s)
        PROVE  TablesOK' /\ UNCHANGED call /\ Noted
    <2>1. s \in Statuses
      BY CatalogueAssumption
    <2>2. nodes' \in [Nodes -> Statuses \cup {"absent"}]
      BY <1>3, <2>1 DEF AdminSetsStatus, TablesOK
    <2> QED BY <1>1, <1>3, <2>2 DEF AdminSetsStatus, TablesOK
  <1>4. ASSUME NEW b \in blockers, AdminClearsBlocker(b)
        PROVE  TablesOK' /\ UNCHANGED call /\ Noted
    BY <1>1, <1>4 DEF AdminClearsBlocker, TablesOK
  <1>5. ASSUME NEW n \in Nodes, NEW c \in Fragile, AdminSetsProtocol(n, c)
        PROVE  TablesOK' /\ UNCHANGED call /\ Noted
    <2>1. c \in PROFILES
      BY CatalogueAssumption
    <2>2. off' \subseteq Nodes \X PROFILES
      BY <1>5, <2>1 DEF AdminSetsProtocol, TablesOK
    <2> QED BY <1>1, <1>5, <2>2 DEF AdminSetsProtocol, TablesOK
  <1>6. ASSUME NEW p \in Plans, NEW r \in REGIONS, AdminDropsRegion(p, r)
        PROVE  TablesOK' /\ UNCHANGED call /\ Noted
    BY <1>1, <1>6 DEF AdminDropsRegion, TablesOK
  <1>7. ASSUME NEW p \in Plans, NEW c \in PROFILES, AdminDropsProfile(p, c)
        PROVE  TablesOK' /\ UNCHANGED call /\ Noted
    BY <1>1, <1>7 DEF AdminDropsProfile, TablesOK
  <1>8. ASSUME NEW p \in Plans, AdminSwitchesPlan(p)
        PROVE  TablesOK' /\ UNCHANGED call /\ Noted
    BY <1>1, <1>8 DEF AdminSwitchesPlan, TablesOK
  <1>9. ASSUME NEW n \in Nodes, NEW levels \in Written, MonitorReconciles(n, levels)
        PROVE  TablesOK' /\ UNCHANGED call /\ Noted
    <2>1. levels \in SUBSET Levels
      BY CatalogueAssumption
    <2>2. alerts' \in [Nodes -> SUBSET Levels]
      BY <1>9, <2>1 DEF MonitorReconciles, TablesOK
    <2> QED BY <1>1, <1>9, <2>2 DEF MonitorReconciles, TablesOK
  <1> QED BY <1>2, <1>3, <1>4, <1>5, <1>6, <1>7, <1>8, <1>9 DEF Write

\* SINCE and ENTITLED only grow while a call goes on.
LEMMA Growing ==
  ASSUME UNCHANGED call, Noted
  PROVE  (\A n \in Nodes : since[n] \subseteq since'[n]) /\ entitled \subseteq entitled'
  BY DEF Noted

\* A write in the middle of a call leaves the invariant: what was true of a moment of
\* the call stays so.
LEMMA WrittenOver ==
  ASSUME AvInv, Write
  PROVE  AvInv'
  <1>1. TablesOK' /\ UNCHANGED call /\ Noted
    BY Noting DEF AvInv
  <1>2. UNCHANGED <<pc, ask, own, ent, pass, left, ready, unasked, up>>
    BY <1>1 DEF call
  <1>3. (\A n \in Nodes : since[n] \subseteq since'[n]) /\ entitled \subseteq entitled'
    BY <1>1, Growing
  <1>4. CallOK' /\ Shapes' /\ Fresh' /\ Control'
    BY <1>2 DEF AvInv, CallOK, Shapes, Fresh, Control
  <1>5. Current'
    <2>1. CASE CallUnderWay
      <3>1. /\ \A n \in Nodes : since'[n] = since[n] \cup {RowsOf(n)'}
            /\ entitled' = entitled \cup {RightsOf(ask.plan)'}
            /\ quiet' => quiet /\ UNCHANGED tables
        BY <1>1, <2>1 DEF Noted
      <3>2. (\A n \in Nodes : RowsOf(n)' \in since'[n]) /\ RightsOf(ask.plan)' \in entitled'
        BY <1>2, <3>1
      <3>3. ASSUME quiet'
            PROVE  /\ \A n \in Nodes : since'[n] = {RowsOf(n)'}
                   /\ entitled' = {RightsOf(ask.plan)'}
        <4>1. /\ \A n \in Nodes : since[n] = {RowsOf(n)}
              /\ entitled = {RightsOf(ask.plan)}
          BY <2>1, <3>1, <3>3 DEF AvInv, Current, CallUnderWay
        <4> QED BY <1>2, <3>1, <3>3, <4>1 DEF tables, RowsOf, RightsOf, BlockersOf
      <3> QED BY <3>2, <3>3 DEF Current
    <2>2. CASE ~CallUnderWay
      <3>1. /\ UNCHANGED <<since, entitled>> /\ ~CallUnderWay'
            /\ quiet' => quiet /\ UNCHANGED tables
        BY <1>1, <1>2, <2>2 DEF Noted, CallUnderWay
      <3>2. ASSUME quiet', pc' # "idle"
            PROVE  /\ \A n \in Nodes : since'[n] = {RowsOf(n)'}
                   /\ entitled' = {RightsOf(ask.plan)'}
        <4>1. /\ \A n \in Nodes : since[n] = {RowsOf(n)}
              /\ entitled = {RightsOf(ask.plan)}
          BY <1>2, <3>1, <3>2 DEF AvInv, Current
        <4> QED BY <1>2, <3>1, <3>2, <4>1 DEF tables, RowsOf, RightsOf, BlockersOf
      <3> QED BY <3>1, <3>2 DEF Current
    <2> QED BY <2>1, <2>2
  <1>6. Rights'
    BY <1>2, <1>3 DEF AvInv, Rights
  <1>7. /\ \A n \in Nodes : \A s : WasStatus(n, s) => WasStatus(n, s)'
        /\ \A n \in Nodes : \A s : WasHealth(n, s) => WasHealth(n, s)'
        /\ \A n \in Nodes : \A s : WasBlocked(n, s) => WasBlocked(n, s)'
        /\ \A n \in Nodes : \A s : WasOn(n, s) => WasOn(n, s)'
        /\ \A n \in Nodes : \A s : WasOff(n, s) => WasOff(n, s)'
    BY <1>3 DEF WasStatus, WasHealth, WasBlocked, WasOn, WasOff
  <1>8. OwnRights'
    <2>1. DOMAIN own.candidates \subseteq Nodes
      BY PartialHas DEF AvInv, Shapes, Resolution
    <2> QED BY <1>2, <1>3, <1>7, <2>1 DEF AvInv, OwnRights
  <1>9. Resolved'
    <2>1. DOMAIN ready.resolve \subseteq Nodes /\ DOMAIN ready.plan \subseteq Nodes
      BY DEF AvInv, CallOK
    <2>2. Unheard' = Unheard
      BY <1>2 DEF Unheard, InHand
    <2>3. ASSUME NEW f, NEW rs, NEW unheard, NEW unseen, DOMAIN f \subseteq Nodes,
                 Witnessed(f, rs, unheard, unseen)
          PROVE  Witnessed(f, rs, unheard, unseen)'
      BY <1>7, <2>3 DEF Witnessed
    <2> QED BY <1>2, <2>1, <2>2, <2>3 DEF AvInv, Resolved
  <1>10. LookedUp'
    <2>1. Candidates(ready.resolve)' = Candidates(ready.resolve)
      BY <1>2 DEF Candidates
    <2>2. Candidates(ready.resolve) \subseteq Nodes
      BY DEF AvInv, CallOK, Candidates
    <2>3. Looking' = Looking
      BY <1>2 DEF Looking
    <2> QED BY <1>2, <1>7, <2>1, <2>2, <2>3 DEF AvInv, LookedUp
  <1> QED BY <1>1, <1>4, <1>5, <1>6, <1>8, <1>9, <1>10 DEF AvInv

-----------------------------------------------------------------------------
(* The readers.  A SELECT writes nothing and sees a moment of the call.     *)
UnderWay == Labels \ (Answered \cup {"idle"})

\* What every SELECT leaves alone, and that the rows it sees are of the call.
LEMMA Reads ==
  ASSUME AvInv, NEW label \in UnderWay, Reading(label)
  PROVE  /\ TablesOK' /\ Current'
         /\ UNCHANGED <<ask, since, entitled>>
         /\ \A n \in Nodes : RowsOf(n) \in since[n]
         /\ RightsOf(ask.plan) \in entitled
         /\ ask.plan \in Plans /\ ask.op \in {"build_plan", "resolve"} /\ ask.mode # "none"
         /\ ask.op = "build_plan" => ask.mode = "dry_run"
  <1>1. /\ pc = label /\ UNCHANGED <<tables, edits, since, entitled, quiet, ask>>
        /\ CallUnderWay /\ pc # "idle"
    BY DEF Reading, history, CallUnderWay, UnderWay
  <1>2. TablesOK'
    BY <1>1, TablesKept DEF AvInv
  <1>3. (\A n \in Nodes : RowsOf(n) \in since[n]) /\ RightsOf(ask.plan) \in entitled
    BY <1>1 DEF AvInv, Current
  <1>4. Current'
    BY <1>1, <1>3 DEF AvInv, Current, tables, RowsOf, RightsOf, BlockersOf
  <1>5. /\ ask.plan \in Plans /\ ask.op # "none" /\ ask.mode # "none"
        /\ ask.op = "build_plan" => ask.mode = "dry_run"
    BY <1>1 DEF AvInv, Control
  <1>6. ask.op \in {"build_plan", "resolve"}
    BY <1>5 DEF AvInv, Shapes
  <1> QED BY <1>1, <1>2, <1>3, <1>4, <1>5, <1>6

\* The rights of a plan are regions and profiles.
LEMMA RightsTyped ==
  ASSUME NEW p
  PROVE  RightsOf(p).regions \in SUBSET REGIONS /\ RightsOf(p).profiles \in SUBSET PROFILES
  BY DEF RightsOf

Early == OfPlan \cup {"ent_row", "ent_regions", "ent_profiles"}

\* Before the nodes are listed there is nothing of them.
LEMMA BeforeNodes ==
  ASSUME AvInv, NEW label \in Early, Reading(label), UNCHANGED <<pass, left, ready, unasked, up>>,
         pc' \in Early \cup {"list_nodes", "unknown_plan", "disabled_plan"}
  PROVE  /\ pass = "resolve" /\ left = {} /\ unasked = {} /\ up = {}
         /\ DOMAIN ready.plan = {}
         /\ Resolved' /\ LookedUp'
  <1>1. pc = label /\ ask' = ask
    BY DEF Reading
  <1>2. pass = "resolve"
    BY <1>1 DEF AvInv, Control, CallOK, Early, OfPlan
  <1>3. left = {} /\ unasked = {}
    BY <1>1 DEF AvInv, Control, Early, OfPlan
  <1>4. up = {}
    BY <1>1, <1>2 DEF AvInv, LookedUp, Looking, Early, OfPlan
  <1>5. Resolved'
    BY <1>2 DEF Resolved, Early, OfPlan
  <1>6. ~Looking' /\ unasked' = {} /\ up' = {}
    BY <1>2, <1>3, <1>4 DEF Looking, Early, OfPlan
  <1>7. LookedUp'
    BY <1>6 DEF LookedUp
  <1> QED BY <1>2, <1>3, <1>4, <1>5, <1>7 DEF AvInv, Fresh

\* The SELECTs one by one, in the order of the code: build_plan's own first.
LEMMA PlanRowRead ==
  ASSUME AvInv, ReadPlanRow
  PROVE  AvInv'
  <1>1. /\ Reading("plan_row") /\ "plan_row" \in UnderWay /\ "plan_row" \in Early
        /\ pc = "plan_row" /\ pc' \in {"unknown_plan", "plan_regions"}
        /\ UNCHANGED <<own, ent, pass, left, ready, unasked, up>>
    BY DEF ReadPlanRow, Reading, UnderWay, Early, OfPlan, Labels, Answered
  <1>2. TablesOK' /\ Current' /\ UNCHANGED <<ask, since, entitled>> /\ ask.plan \in Plans
    BY <1>1, Reads
  <1>3. Resolved' /\ LookedUp' /\ pass = "resolve" /\ left = {} /\ unasked = {}
    BY <1>1, BeforeNodes DEF Early, OfPlan
  <1>4. CallOK' /\ Shapes'
    BY <1>1, <1>2 DEF AvInv, CallOK, Shapes, Labels
  <1>5. Fresh'
    BY <1>1 DEF AvInv, Fresh, OfPlan
  <1>6. Control'
    BY <1>1, <1>2, <1>3 DEF AvInv, Control, OfPlan
  <1>7. Rights' /\ OwnRights'
    BY <1>1 DEF Rights, OwnRights, Entitled
  <1> QED BY <1>2, <1>3, <1>4, <1>5, <1>6, <1>7 DEF AvInv

\* The plan's regions, as build_plan reads them.
LEMMA PlanRegionsRead ==
  ASSUME AvInv, ReadPlanRegions
  PROVE  AvInv'
  <1>1. /\ Reading("plan_regions") /\ "plan_regions" \in UnderWay /\ "plan_regions" \in Early
        /\ pc = "plan_regions" /\ pc' = "plan_profiles"
        /\ own' = [own EXCEPT !.regions = RightsOf(ask.plan).regions]
        /\ UNCHANGED <<ent, pass, left, ready, unasked, up>>
    BY DEF ReadPlanRegions, Reading, UnderWay, Early, OfPlan, Labels, Answered
  <1>2. /\ TablesOK' /\ Current' /\ UNCHANGED <<ask, since, entitled>> /\ ask.plan \in Plans
        /\ RightsOf(ask.plan) \in entitled
    BY <1>1, Reads
  <1>3. Resolved' /\ LookedUp' /\ pass = "resolve" /\ left = {} /\ unasked = {} /\ DOMAIN ready.plan = {}
    BY <1>1, BeforeNodes DEF Early, OfPlan
  <1>4. own \in Resolution
    BY DEF AvInv, Shapes
  <1>5. /\ own' \in Resolution /\ own'.regions = RightsOf(ask.plan).regions
        /\ own'.profiles = own.profiles /\ own'.candidates = own.candidates
    BY <1>1, <1>4, RightsTyped DEF Resolution
  <1>6. DOMAIN own.candidates = {}
    BY <1>1 DEF AvInv, Fresh, OfPlan
  <1>7. CallOK' /\ Shapes'
    BY <1>1, <1>2, <1>3, <1>5, <1>6 DEF AvInv, CallOK, Shapes, Labels
  <1>8. Fresh'
    BY <1>1, <1>5, <1>6 DEF AvInv, Fresh, OfPlan
  <1>9. Control'
    BY <1>1, <1>2, <1>3 DEF AvInv, Control, OfPlan
  <1>10. Rights'
    BY <1>1 DEF Rights, Entitled
  <1>11. OwnRights'
    BY <1>1, <1>2, <1>5 DEF OwnRights, Entitled
  <1> QED BY <1>2, <1>3, <1>7, <1>8, <1>9, <1>10, <1>11 DEF AvInv

\* The plan's profiles, as build_plan reads them.
LEMMA PlanProfilesRead ==
  ASSUME AvInv, ReadPlanProfiles
  PROVE  AvInv'
  <1>1. /\ Reading("plan_profiles") /\ "plan_profiles" \in UnderWay /\ "plan_profiles" \in Early
        /\ pc = "plan_profiles" /\ pc' = IF own.regions = {} THEN "ent_row" ELSE "plan_nodes"
        /\ pc' \in {"ent_row", "plan_nodes"}
        /\ own' = [own EXCEPT !.profiles = RightsOf(ask.plan).profiles]
        /\ UNCHANGED <<ent, pass, left, ready, unasked, up>>
    BY DEF ReadPlanProfiles, Reading, UnderWay, Early, OfPlan, Labels, Answered
  <1>2. /\ TablesOK' /\ Current' /\ UNCHANGED <<ask, since, entitled>> /\ ask.plan \in Plans
        /\ RightsOf(ask.plan) \in entitled
    BY <1>1, Reads
  <1>3. Resolved' /\ LookedUp' /\ pass = "resolve" /\ left = {} /\ unasked = {} /\ DOMAIN ready.plan = {}
    BY <1>1, BeforeNodes DEF Early, OfPlan
  <1>4. own \in Resolution
    BY DEF AvInv, Shapes
  <1>5. /\ own' \in Resolution /\ own'.regions = own.regions
        /\ own'.profiles = RightsOf(ask.plan).profiles /\ own'.candidates = own.candidates
    BY <1>1, <1>4, RightsTyped DEF Resolution
  <1>6. DOMAIN own.candidates = {}
    BY <1>1 DEF AvInv, Fresh, OfPlan
  <1>7. CallOK' /\ Shapes'
    BY <1>1, <1>2, <1>3, <1>5, <1>6 DEF AvInv, CallOK, Shapes, Labels
  <1>8. Fresh'
    BY <1>1, <1>5, <1>6 DEF AvInv, Fresh, OfPlan
  <1>9. Control'
    BY <1>1, <1>2, <1>3 DEF AvInv, Control, OfPlan
  <1>10. Rights'
    BY <1>1 DEF Rights, Entitled
  <1>11. OwnRights'
    <2>1. ask.op = "build_plan" => \E x \in entitled : own.regions = x.regions
      BY <1>1 DEF AvInv, OwnRights
    <2>2. pc' = "ent_row" => own'.regions = {}
      BY <1>1, <1>5
    <2>3. /\ \A n \in DOMAIN own'.candidates : FALSE
      BY <1>5, <1>6
    <2> QED BY <1>1, <1>2, <1>5, <2>1, <2>2, <2>3 DEF OwnRights, Entitled
  <1> QED BY <1>2, <1>3, <1>7, <1>8, <1>9, <1>10, <1>11 DEF AvInv

\* What a list of nodes says of those it has and of those it has not.
LEMMA Listed ==
  ASSUME TablesOK, \A n \in Nodes : RowsOf(n) \in since[n], NEW rs
  PROVE  /\ NodesIn(rs) \subseteq {n \in Nodes : RegionOf[n] \in rs}
         /\ \A n \in NodesIn(rs) : nodes[n] \in Statuses /\ WasStatus(n, nodes[n])
         /\ \A n \in Nodes \ NodesIn(rs) : RegionOf[n] \in rs => WasStatus(n, "absent")
  <1>1. \A n \in Nodes : WasStatus(n, nodes[n])
    <2>1. \A n \in Nodes : RowsOf(n).status = nodes[n]
      BY DEF RowsOf
    <2> QED BY <2>1 DEF WasStatus
  <1>2. \A n \in Nodes : nodes[n] \in Statuses \cup {"absent"}
    BY DEF TablesOK
  <1> QED BY <1>1, <1>2 DEF NodesIn

\* The candidates of build_plan.
LEMMA PlanNodesRead ==
  ASSUME AvInv, ReadPlanNodes
  PROVE  AvInv'
  <1>1. /\ Reading("plan_nodes") /\ "plan_nodes" \in UnderWay /\ "plan_nodes" \in Early
        /\ pc = "plan_nodes" /\ pc' = "ent_row"
        /\ own' = [own EXCEPT !.candidates = StatusOf(NodesIn(own.regions))]
        /\ UNCHANGED <<ent, pass, left, ready, unasked, up>>
    BY DEF ReadPlanNodes, Reading, UnderWay, Early, OfPlan, Labels, Answered
  <1>2. /\ TablesOK' /\ Current' /\ UNCHANGED <<ask, since, entitled>> /\ ask.plan \in Plans
        /\ \A n \in Nodes : RowsOf(n) \in since[n]
    BY <1>1, Reads
  <1>3. Resolved' /\ LookedUp' /\ pass = "resolve" /\ left = {} /\ unasked = {} /\ DOMAIN ready.plan = {}
    BY <1>1, BeforeNodes DEF Early, OfPlan
  <1>4. own \in Resolution
    BY DEF AvInv, Shapes
  <1> DEFINE here == NodesIn(own.regions)
  <1>5. /\ here \subseteq {n \in Nodes : RegionOf[n] \in own.regions}
        /\ \A n \in here : nodes[n] \in Statuses /\ WasStatus(n, nodes[n])
        /\ \A n \in Nodes \ here : RegionOf[n] \in own.regions => WasStatus(n, "absent")
    BY <1>2, Listed DEF AvInv
  <1>6. /\ StatusOf(here) \in Partial(Statuses) /\ DOMAIN StatusOf(here) = here
        /\ \A n \in here : StatusOf(here)[n] = nodes[n]
    <2> HIDE DEF here
    <2>1. /\ StatusOf(here) \in [here -> Statuses] /\ DOMAIN StatusOf(here) = here
          /\ \A n \in here : StatusOf(here)[n] = nodes[n]
      BY <1>5 DEF StatusOf
    <2>2. here \subseteq Nodes
      BY <1>5
    <2> QED BY <2>1, <2>2, PartialOf
  <1>7. /\ own' \in Resolution /\ own'.regions = own.regions /\ own'.profiles = own.profiles
        /\ own'.candidates = StatusOf(here)
    BY <1>1, <1>4, <1>6 DEF Resolution
  <1> HIDE DEF here
  <1>8. CallOK' /\ Shapes'
    BY <1>1, <1>2, <1>3, <1>5, <1>6, <1>7 DEF AvInv, CallOK, Shapes, Labels
  <1>9. Fresh'
    BY <1>1 DEF AvInv, Fresh, OfPlan
  <1>10. Control'
    BY <1>1, <1>2, <1>3 DEF AvInv, Control, OfPlan
  <1>11. Rights'
    BY <1>1 DEF Rights, Entitled
  <1>12. OwnRights'
    <2>1. ask.op = "build_plan" => /\ \E x \in entitled : own.regions = x.regions
                                   /\ \E x \in entitled : own.profiles = x.profiles
      BY <1>1 DEF AvInv, OwnRights
    <2>2. /\ \A n \in DOMAIN own'.candidates :
                RegionOf[n] \in own'.regions /\ WasStatus(n, own.candidates[n])'
          /\ \A n \in Nodes \ DOMAIN own'.candidates :
                RegionOf[n] \in own'.regions => WasStatus(n, "absent")'
      BY <1>2, <1>5, <1>6, <1>7 DEF WasStatus
    <2> QED BY <1>1, <1>2, <1>7, <2>1, <2>2 DEF OwnRights, Entitled
  <1> QED BY <1>2, <1>3, <1>8, <1>9, <1>10, <1>11, <1>12 DEF AvInv

\* The plan's row, as entitlements.resolve reads it.
LEMMA EntRowRead ==
  ASSUME AvInv, ReadEntRow
  PROVE  AvInv'
  <1>1. /\ Reading("ent_row") /\ "ent_row" \in UnderWay /\ "ent_row" \in Early
        /\ pc = "ent_row"
        /\ UNCHANGED <<own, ent, pass, left, ready, unasked, up>>
    BY DEF ReadEntRow, Reading, UnderWay, Early, OfPlan, Labels, Answered
  <1>2. TablesOK' /\ Current' /\ UNCHANGED <<ask, since, entitled>> /\ ask.plan \in Plans
    BY <1>1, Reads
  <1>3. pc' \in {"unknown_plan", "disabled_plan", "ent_regions"}
    BY DEF ReadEntRow
  <1>4. Resolved' /\ LookedUp' /\ pass = "resolve" /\ left = {} /\ unasked = {}
    BY <1>1, <1>3, BeforeNodes DEF Early, OfPlan
  <1>5. CallOK' /\ Shapes'
    BY <1>1, <1>2, <1>3 DEF AvInv, CallOK, Shapes, Labels
  <1>6. Fresh'
    BY <1>1, <1>3 DEF AvInv, Fresh, OfPlan
  <1>7. Control'
    BY <1>1, <1>2, <1>3, <1>4 DEF AvInv, Control, OfPlan
  <1>8. Rights'
    BY <1>3 DEF Rights, Entitled
  <1>9. OwnRights'
    BY <1>1, <1>2, <1>3 DEF AvInv, OwnRights, Entitled, WasStatus
  <1> QED BY <1>2, <1>4, <1>5, <1>6, <1>7, <1>8, <1>9 DEF AvInv

\* The regions of the entitlements.
LEMMA EntRegionsRead ==
  ASSUME AvInv, ReadEntRegions
  PROVE  AvInv'
  <1>1. /\ Reading("ent_regions") /\ "ent_regions" \in UnderWay /\ "ent_regions" \in Early
        /\ pc = "ent_regions" /\ pc' = "ent_profiles"
        /\ ent' = [ent EXCEPT !.regions = RightsOf(ask.plan).regions]
        /\ UNCHANGED <<own, pass, left, ready, unasked, up>>
    BY DEF ReadEntRegions, Reading, UnderWay, Early, OfPlan, Labels, Answered
  <1>2. /\ TablesOK' /\ Current' /\ UNCHANGED <<ask, since, entitled>> /\ ask.plan \in Plans
        /\ RightsOf(ask.plan) \in entitled
    BY <1>1, Reads
  <1>3. Resolved' /\ LookedUp' /\ pass = "resolve" /\ left = {} /\ unasked = {}
    BY <1>1, BeforeNodes DEF Early, OfPlan
  <1>4. ent \in Resolution
    BY DEF AvInv, Shapes
  <1>5. /\ ent' \in Resolution /\ ent'.regions = RightsOf(ask.plan).regions
    BY <1>1, <1>4, RightsTyped DEF Resolution
  <1>6. DOMAIN ready.resolve = {}
    BY <1>1 DEF AvInv, Fresh
  <1>7. CallOK' /\ Shapes'
    BY <1>1, <1>2, <1>5, <1>6 DEF AvInv, CallOK, Shapes, Labels
  <1>8. Fresh'
    BY <1>1 DEF AvInv, Fresh, OfPlan
  <1>9. Control'
    BY <1>1, <1>2, <1>3 DEF AvInv, Control, OfPlan
  <1>10. Rights'
    BY <1>1, <1>2, <1>5 DEF Rights, Entitled
  <1>11. OwnRights'
    BY <1>1, <1>2 DEF AvInv, OwnRights, Entitled, WasStatus
  <1> QED BY <1>2, <1>3, <1>7, <1>8, <1>9, <1>10, <1>11 DEF AvInv

\* The profiles of the entitlements.
LEMMA EntProfilesRead ==
  ASSUME AvInv, ReadEntProfiles
  PROVE  AvInv'
  <1>1. /\ Reading("ent_profiles") /\ "ent_profiles" \in UnderWay /\ "ent_profiles" \in Early
        /\ pc = "ent_profiles" /\ pc' = "list_nodes"
        /\ ent' = [ent EXCEPT !.profiles = RightsOf(ask.plan).profiles]
        /\ UNCHANGED <<own, pass, left, ready, unasked, up>>
    BY DEF ReadEntProfiles, Reading, UnderWay, Early, OfPlan, Labels, Answered
  <1>2. /\ TablesOK' /\ Current' /\ UNCHANGED <<ask, since, entitled>> /\ ask.plan \in Plans
        /\ RightsOf(ask.plan) \in entitled
    BY <1>1, Reads
  <1>3. Resolved' /\ LookedUp' /\ pass = "resolve" /\ left = {} /\ unasked = {}
    BY <1>1, BeforeNodes DEF Early, OfPlan
  <1>4. ent \in Resolution
    BY DEF AvInv, Shapes
  <1>5. /\ ent' \in Resolution /\ ent'.profiles = RightsOf(ask.plan).profiles
        /\ ent'.regions = ent.regions
    BY <1>1, <1>4, RightsTyped DEF Resolution
  <1>6. CallOK' /\ Shapes'
    BY <1>1, <1>2, <1>5 DEF AvInv, CallOK, Shapes, Labels
  <1>7. Fresh'
    BY <1>1 DEF AvInv, Fresh, OfPlan
  <1>8. Control'
    BY <1>1, <1>2, <1>3 DEF AvInv, Control, OfPlan
  <1>9. Rights'
    BY <1>1, <1>2, <1>5 DEF AvInv, Rights, Entitled
  <1>10. OwnRights'
    BY <1>1, <1>2 DEF AvInv, OwnRights, Entitled, WasStatus
  <1> QED BY <1>2, <1>3, <1>6, <1>7, <1>8, <1>9, <1>10 DEF AvInv

\* What is listed is listed with its status only.
LEMMA NodesListed ==
  ASSUME AvInv, ListNodes
  PROVE  AvInv'
  <1>1. /\ Reading("list_nodes") /\ "list_nodes" \in UnderWay /\ pc = "list_nodes"
        /\ UNCHANGED <<own, ent, up>>
    BY DEF ListNodes, Reading, UnderWay, Labels, Answered
  <1>2. /\ TablesOK' /\ Current' /\ UNCHANGED <<ask, since, entitled>>
        /\ ask.plan \in Plans /\ ask.op \in {"build_plan", "resolve"} /\ ask.mode # "none"
        /\ ask.op = "build_plan" => ask.mode = "dry_run"
        /\ \A n \in Nodes : RowsOf(n) \in since[n]
    BY <1>1, Reads
  <1>3. left = {} /\ unasked = {} /\ pass \in {"resolve", "plan"}
        /\ (pass = "plan" => ask.op = "build_plan")
    BY <1>1 DEF AvInv, Control, CallOK
  <1>4. PICK rs : rs = IF pass = "plan" THEN own.regions ELSE ent.regions
    OBVIOUS
  <1>5. PICK here : here = NodesIn(rs)
    OBVIOUS
  <1>6. /\ here \subseteq {n \in Nodes : RegionOf[n] \in rs}
        /\ \A n \in here : nodes[n] \in Statuses /\ WasStatus(n, nodes[n])
        /\ \A n \in Nodes \ here : RegionOf[n] \in rs => WasStatus(n, "absent")
    BY <1>2, <1>5, Listed DEF AvInv
  <1>7. PICK f : f = [n \in here |-> [status |-> nodes[n], health |-> "healthy", blockers |-> {}]]
    OBVIOUS
  <1>8. /\ f \in Partial(Readiness) /\ DOMAIN f = here /\ \A n \in here : f[n].status = nodes[n]
    <2>1. f \in [here -> Readiness]
      BY <1>6, <1>7 DEF Readiness, Healths
    <2>2. here \subseteq Nodes
      BY <1>6
    <2> QED BY <1>7, <2>1, <2>2, PartialOf
  <1>9. left' = here /\ ready' = [ready EXCEPT ![pass] = f]
    BY <1>4, <1>5, <1>7 DEF ListNodes
  <1>10. ready \in Readinesses
    BY DEF AvInv, Shapes, Readinesses
  <1>11. /\ ready' \in Readinesses
         /\ pass = "resolve" => ready'.resolve = f /\ ready'.plan = ready.plan
         /\ pass = "plan" => ready'.plan = f /\ ready'.resolve = ready.resolve
         /\ ready'[pass] = f
    BY <1>3, <1>8, <1>9, <1>10 DEF Readinesses
  <1>12. Candidates(Nobody) = {}
    BY NobodyTyped DEF Candidates
  <1>13. /\ unasked' = {}
         /\ \/ here # {} /\ pc' = "alerts" /\ pass' = pass
            \/ /\ here = {} /\ pc' = "done" /\ pass' = pass
               /\ pass = "plan" \/ ask.op # "build_plan"
            \/ /\ here = {} /\ pc' = "list_nodes" /\ pass = "resolve" /\ pass' = "plan"
               /\ ask.op = "build_plan"
    <2>1. CASE here # {}
      BY <1>3, <1>9, <2>1 DEF ListNodes
    <2>2. CASE here = {} /\ pass = "plan"
      BY <1>3, <1>9, <2>2 DEF ListNodes, AfterReadiness
    <2>3. CASE here = {} /\ pass = "resolve"
      <3>1. AfterReadiness(Nobody)
        BY <1>9, <2>3 DEF ListNodes
      <3>2. unasked' = {} /\ AfterResolve
        BY <1>12, <2>3, <3>1 DEF AfterReadiness
      <3> QED BY <2>3, <3>2 DEF AfterResolve
    <2> QED BY <1>3, <2>1, <2>2, <2>3
  <1>14. CallOK'
    BY <1>1, <1>2, <1>3, <1>4, <1>6, <1>8, <1>9, <1>11, <1>13 DEF AvInv, CallOK, Labels
  <1>15. Shapes'
    BY <1>1, <1>2, <1>11 DEF AvInv, Shapes, Readinesses
  <1>16. Fresh'
    BY <1>1, <1>3, <1>11, <1>13 DEF AvInv, Fresh, OfPlan
  <1>17. Control'
    BY <1>1, <1>2, <1>3, <1>8, <1>9, <1>11, <1>13 DEF Control, OfPlan
  <1>18. Rights' /\ OwnRights'
    BY <1>1, <1>2, <1>13 DEF AvInv, Rights, OwnRights, Entitled, WasStatus
  <1>19. Resolved'
    <2>1. Witnessed(f, rs, here, here)
      BY <1>6, <1>8 DEF Witnessed
    <2>2. Unheard' = here
      BY <1>9, <1>13 DEF Unheard
    <2>3. pass = "plan" => Witnessed(ready.resolve, ent.regions, {}, {})
      BY DEF AvInv, Resolved
    <2>4. ASSUME NEW g, NEW q, NEW u, NEW v
          PROVE  Witnessed(g, q, u, v)' <=> Witnessed(g, q, u, v)
      BY <1>2 DEF Witnessed, WasStatus, WasHealth, WasBlocked
    <2>5. CASE pass = "resolve"
      BY <1>1, <1>4, <1>9, <1>11, <1>13, <2>1, <2>2, <2>4, <2>5 DEF Resolved
    <2>6. CASE pass = "plan"
      BY <1>1, <1>4, <1>9, <1>11, <1>13, <2>1, <2>2, <2>3, <2>4, <2>6 DEF Resolved
    <2> QED BY <1>3, <2>5, <2>6
  <1>20. LookedUp'
    <2>1. CASE pass = "resolve"
      <3>1. up' = {} /\ (Looking' => here = {})
        BY <1>1, <1>13, <2>1 DEF AvInv, LookedUp, Looking
      <3>2. Looking' => Candidates(ready.resolve)' = {}
        BY <1>8, <1>11, <2>1, <3>1 DEF Candidates
      <3> QED BY <1>13, <3>1, <3>2 DEF LookedUp
    <2>2. CASE pass = "plan"
      <3>1. Candidates(ready.resolve)' = Candidates(ready.resolve) /\ Looking /\ Looking'
        BY <1>2, <1>11, <1>13, <2>2 DEF Candidates, Looking
      <3> QED BY <1>1, <1>2, <1>3, <1>13, <3>1 DEF AvInv, LookedUp, WasOn, WasOff
    <2> QED BY <1>3, <2>1, <2>2
  <1> QED BY <1>2, <1>14, <1>15, <1>16, <1>17, <1>18, <1>19, <1>20 DEF AvInv

\* While readiness is read there is a node in hand, and it is one of those listed.
LEMMA InHandRead ==
  ASSUME AvInv, pc \in {"alerts", "blockers"}
  PROVE  InHand \in left /\ InHand \in Nodes /\ InHand \in DOMAIN ready[pass]
  <1>1. left # {} /\ left \subseteq DOMAIN ready[pass] /\ left \subseteq Nodes
    BY DEF AvInv, Control, CallOK
  <1> QED BY <1>1, InHandLeft

\* The alerts of the node in hand give it the health of this moment.
LEMMA AlertsRead ==
  ASSUME AvInv, ReadAlerts
  PROVE  AvInv'
  <1>1. /\ Reading("alerts") /\ "alerts" \in UnderWay /\ pc = "alerts" /\ pc' = "blockers"
        /\ UNCHANGED <<own, ent, pass, left, unasked, up>>
    BY DEF ReadAlerts, Reading, UnderWay, Labels, Answered
  <1>2. /\ TablesOK' /\ Current' /\ UNCHANGED <<ask, since, entitled>>
        /\ ask.plan \in Plans /\ ask.op \in {"build_plan", "resolve"} /\ ask.mode # "none"
        /\ ask.op = "build_plan" => ask.mode = "dry_run"
        /\ \A n \in Nodes : RowsOf(n) \in since[n]
    BY <1>1, Reads
  <1>3. left # {} /\ unasked = {} /\ pass \in {"resolve", "plan"}
        /\ (pass = "plan" => ask.op = "build_plan") /\ left \subseteq DOMAIN ready[pass]
    BY <1>1 DEF AvInv, Control, CallOK
  <1>4. PICK h : h = InHand
    OBVIOUS
  <1>5. h \in left /\ h \in Nodes /\ h \in DOMAIN ready[pass] /\ InHand' = h
    BY <1>1, <1>4, InHandRead DEF InHand
  <1>6. PICK v : v = Health(alerts[h])
    OBVIOUS
  <1>7. v \in Healths /\ WasHealth(h, v)
    <2>1. v \in Healths
      BY <1>6 DEF Health, Healths
    <2>2. RowsOf(h).health = v
      BY <1>6 DEF RowsOf
    <2> QED BY <1>2, <1>5, <2>1, <2>2 DEF WasHealth
  <1>8. PICK f : f = ready[pass]
    OBVIOUS
  <1>9. ready \in Readinesses /\ f \in Partial(Readiness)
    BY <1>3, <1>8 DEF AvInv, Shapes, Readinesses
  <1>10. PICK g : g = [f EXCEPT ![h].health = v]
    OBVIOUS
  <1>11. /\ g \in Partial(Readiness) /\ DOMAIN g = DOMAIN f
         /\ \A n \in DOMAIN f : /\ g[n].status = f[n].status
                                /\ g[n].blockers = f[n].blockers
                                /\ n # h => g[n].health = f[n].health
         /\ g[h].health = v
    BY <1>5, <1>7, <1>8, <1>9, <1>10, Heard
  <1>12. ready' = [ready EXCEPT ![pass] = g]
    <2>1. ready' = [ready EXCEPT ![pass][h].health = v]
      BY <1>4, <1>6 DEF ReadAlerts
    <2> QED BY <1>3, <1>8, <1>9, <1>10, <2>1 DEF Readinesses
  <1>13. /\ ready' \in Readinesses
         /\ pass = "resolve" => ready'.resolve = g /\ ready'.plan = ready.plan
         /\ pass = "plan" => ready'.plan = g /\ ready'.resolve = ready.resolve
         /\ ready'[pass] = g
    BY <1>3, <1>9, <1>11, <1>12 DEF Readinesses
  <1>14. /\ pass = "resolve" => f = ready.resolve
         /\ pass = "plan" => f = ready.plan
    BY <1>8
  <1>15. CallOK'
    BY <1>1, <1>2, <1>3, <1>11, <1>13, <1>14 DEF AvInv, CallOK, Labels
  <1>16. Shapes'
    BY <1>1, <1>2, <1>13 DEF AvInv, Shapes, Readinesses
  <1>17. Fresh'
    BY <1>1, <1>3, <1>13 DEF AvInv, Fresh, OfPlan
  <1>18. Control'
    BY <1>1, <1>2, <1>3, <1>8, <1>11, <1>13 DEF Control, OfPlan
  <1>19. Rights' /\ OwnRights'
    BY <1>1, <1>2 DEF AvInv, Rights, OwnRights, Entitled, WasStatus
  <1>20. Resolved'
    <2>1. PICK rs : rs = IF pass = "plan" THEN own.regions ELSE ent.regions
      OBVIOUS
    <2>2. Witnessed(f, rs, left, left)
      BY <1>1, <1>3, <1>14, <2>1 DEF AvInv, Resolved, Unheard
    <2>3. Witnessed(g, rs, left \ {h}, left)
      BY <1>7, <1>11, <2>2 DEF Witnessed
    <2>4. Unheard' = left \ {h}
      BY <1>1, <1>5 DEF Unheard
    <2>5. pass = "plan" => Witnessed(ready.resolve, ent.regions, {}, {})
      BY DEF AvInv, Resolved
    <2>6. ASSUME NEW e, NEW q, NEW u, NEW w
          PROVE  Witnessed(e, q, u, w)' <=> Witnessed(e, q, u, w)
      BY <1>2 DEF Witnessed, WasStatus, WasHealth, WasBlocked
    <2>7. CASE pass = "resolve"
      BY <1>1, <1>13, <2>1, <2>3, <2>4, <2>6, <2>7 DEF Resolved
    <2>8. CASE pass = "plan"
      BY <1>1, <1>13, <2>1, <2>3, <2>4, <2>5, <2>6, <2>8 DEF Resolved
    <2> QED BY <1>3, <2>7, <2>8
  <1>21. LookedUp'
    <2>1. CASE pass = "resolve"
      <3>1. up' = {} /\ ~Looking'
        BY <1>1, <2>1 DEF AvInv, LookedUp, Looking
      <3> QED BY <1>1, <1>3, <3>1 DEF LookedUp
    <2>2. CASE pass = "plan"
      <3>1. Candidates(ready.resolve)' = Candidates(ready.resolve) /\ Looking /\ Looking'
        BY <1>1, <1>2, <1>13, <2>2 DEF Candidates, Looking
      <3> QED BY <1>1, <1>2, <1>3, <3>1 DEF AvInv, LookedUp, WasOn, WasOff
    <2> QED BY <1>3, <2>1, <2>2
  <1> QED BY <1>2, <1>15, <1>16, <1>17, <1>18, <1>19, <1>20, <1>21 DEF AvInv

\* The last SELECT of a node; after that of the last node the look-ups begin, or the
\* answer is complete.
LEMMA BlockersRead ==
  ASSUME AvInv, ReadBlockers
  PROVE  AvInv'
  <1>1. /\ Reading("blockers") /\ "blockers" \in UnderWay /\ pc = "blockers"
        /\ UNCHANGED <<own, ent, up>>
    BY DEF ReadBlockers, Reading, UnderWay, Labels, Answered
  <1>2. /\ TablesOK' /\ Current' /\ UNCHANGED <<ask, since, entitled>>
        /\ ask.plan \in Plans /\ ask.op \in {"build_plan", "resolve"} /\ ask.mode # "none"
        /\ ask.op = "build_plan" => ask.mode = "dry_run"
        /\ \A n \in Nodes : RowsOf(n) \in since[n]
    BY <1>1, Reads
  <1>3. left # {} /\ unasked = {} /\ pass \in {"resolve", "plan"}
        /\ (pass = "plan" => ask.op = "build_plan") /\ left \subseteq DOMAIN ready[pass]
    BY <1>1 DEF AvInv, Control, CallOK
  <1>4. PICK h : h = InHand
    OBVIOUS
  <1>5. h \in left /\ h \in Nodes /\ h \in DOMAIN ready[pass]
    BY <1>1, <1>4, InHandRead
  <1>6. PICK v : v = BlockersOf(h)
    OBVIOUS
  <1>7. v \in SUBSET Blockers /\ WasBlocked(h, v)
    <2>1. RowsOf(h).blockers = v
      BY <1>6 DEF RowsOf
    <2>2. v \in SUBSET Blockers
      BY <1>6 DEF BlockersOf
    <2> QED BY <1>2, <1>5, <2>1, <2>2 DEF WasBlocked
  <1>8. PICK f : f = ready[pass]
    OBVIOUS
  <1>9. ready \in Readinesses /\ f \in Partial(Readiness)
    BY <1>3, <1>8 DEF AvInv, Shapes, Readinesses
  <1>10. PICK g : g = [f EXCEPT ![h].blockers = v]
    OBVIOUS
  <1>11. /\ g \in Partial(Readiness) /\ DOMAIN g = DOMAIN f
         /\ \A n \in DOMAIN f : /\ g[n].status = f[n].status
                                /\ g[n].health = f[n].health
                                /\ n # h => g[n].blockers = f[n].blockers
         /\ g[h].blockers = v
    BY <1>5, <1>7, <1>8, <1>9, <1>10, Seen
  <1>12. ready' = [ready EXCEPT ![pass] = g]
    <2>1. ready' = [ready EXCEPT ![pass][h].blockers = v]
      BY <1>4, <1>6 DEF ReadBlockers
    <2> QED BY <1>3, <1>8, <1>9, <1>10, <2>1 DEF Readinesses
  <1>13. /\ ready' \in Readinesses
         /\ pass = "resolve" => ready'.resolve = g /\ ready'.plan = ready.plan
         /\ pass = "plan" => ready'.plan = g /\ ready'.resolve = ready.resolve
         /\ ready'[pass] = g
    BY <1>3, <1>9, <1>11, <1>12 DEF Readinesses
  <1>14. /\ pass = "resolve" => f = ready.resolve
         /\ pass = "plan" => f = ready.plan
    BY <1>8
  <1>15. PICK rest : rest = left \ {h}
    OBVIOUS
  <1>16. left' = rest
    BY <1>4, <1>15 DEF ReadBlockers
  <1>17. PICK todo : todo = Candidates(g) \X ent.profiles
    OBVIOUS
  <1>18. \/ rest # {} /\ pc' = "alerts" /\ pass' = pass /\ unasked' = {}
         \/ /\ rest = {} /\ pass = "plan" /\ pc' = "done" /\ pass' = pass /\ unasked' = {}
         \/ /\ rest = {} /\ pass = "resolve" /\ unasked' = todo /\ todo # {}
            /\ pc' = "protocols" /\ pass' = pass
         \/ /\ rest = {} /\ pass = "resolve" /\ unasked' = todo /\ todo = {}
            /\ pc' = "list_nodes" /\ pass' = "plan" /\ ask.op = "build_plan"
         \/ /\ rest = {} /\ pass = "resolve" /\ unasked' = todo /\ todo = {}
            /\ pc' = "done" /\ pass' = pass /\ ask.op # "build_plan"
    <2>1. CASE rest # {}
      BY <1>3, <1>16, <2>1 DEF ReadBlockers
    <2>2. CASE rest = {}
      <3>1. AfterReadiness(g)
        BY <1>13, <1>16, <2>2 DEF ReadBlockers
      <3>2. CASE pass = "plan"
        BY <1>3, <2>2, <3>1, <3>2 DEF AfterReadiness
      <3>3. CASE pass = "resolve"
        <4>1. /\ unasked' = todo
              /\ IF unasked' # {} THEN pc' = "protocols" /\ UNCHANGED pass ELSE AfterResolve
          BY <1>17, <3>1, <3>3 DEF AfterReadiness
        <4> QED BY <2>2, <3>3, <4>1 DEF AfterResolve
      <3> QED BY <1>3, <3>2, <3>3
    <2> QED BY <2>1, <2>2
  <1>19. /\ Candidates(g) \subseteq DOMAIN g
         /\ ent.profiles \subseteq PROFILES
    BY DEF Candidates, AvInv, Shapes, Resolution
  <1>20. CallOK'
    <2>1. unasked' \subseteq Nodes \X PROFILES
      <3>1. DOMAIN g \subseteq Nodes
        BY <1>11, PartialHas
      <3> QED BY <1>17, <1>18, <1>19, <3>1
    <2>2. left' \subseteq Nodes /\ pc' \in Labels /\ pass' \in {"resolve", "plan"}
      BY <1>15, <1>16, <1>18, <1>3 DEF AvInv, CallOK, Labels
    <2> QED BY <1>1, <1>11, <1>13, <1>14, <1>3, <2>1, <2>2 DEF AvInv, CallOK
  <1>21. Shapes'
    BY <1>1, <1>2, <1>13 DEF AvInv, Shapes, Readinesses
  <1>22. Fresh'
    BY <1>1, <1>3, <1>13, <1>18 DEF AvInv, Fresh, OfPlan
  <1>23. Control'
    <2>1. pc' \in {"alerts", "blockers"} <=> left' # {}
      BY <1>16, <1>18
    <2>2. left' \subseteq DOMAIN ready'[pass']
      BY <1>3, <1>8, <1>11, <1>13, <1>15, <1>16, <1>18
    <2>3. pc' = "protocols" <=> unasked' # {}
      BY <1>18
    <2> QED BY <1>2, <1>3, <1>18, <2>1, <2>2, <2>3 DEF Control, OfPlan
  <1>24. Rights' /\ OwnRights'
    BY <1>1, <1>2, <1>18 DEF AvInv, Rights, OwnRights, Entitled, WasStatus
  <1>25. Resolved'
    <2>1. PICK rs : rs = IF pass = "plan" THEN own.regions ELSE ent.regions
      OBVIOUS
    <2>2. Witnessed(f, rs, rest, left)
      BY <1>1, <1>3, <1>4, <1>14, <1>15, <2>1 DEF AvInv, Resolved, Unheard
    <2>3. Witnessed(g, rs, rest, rest)
      BY <1>7, <1>11, <1>15, <2>2 DEF Witnessed
    <2>4. Unheard' = rest
      BY <1>16, <1>18 DEF Unheard
    <2>5. pass = "plan" => Witnessed(ready.resolve, ent.regions, {}, {})
      BY DEF AvInv, Resolved
    <2>6. ASSUME NEW e, NEW q, NEW u, NEW w
          PROVE  Witnessed(e, q, u, w)' <=> Witnessed(e, q, u, w)
      BY <1>2 DEF Witnessed, WasStatus, WasHealth, WasBlocked
    <2>7. CASE pass = "resolve"
      BY <1>1, <1>13, <1>16, <1>18, <2>1, <2>3, <2>4, <2>6, <2>7 DEF Resolved
    <2>8. CASE pass = "plan"
      BY <1>1, <1>13, <1>16, <1>18, <2>1, <2>3, <2>4, <2>5, <2>6, <2>8 DEF Resolved
    <2> QED BY <1>3, <2>7, <2>8
  <1>26. LookedUp'
    <2>1. CASE pass = "resolve"
      <3>1. up' = {}
        BY <1>1, <2>1 DEF AvInv, LookedUp, Looking
      <3>2. Candidates(ready.resolve)' = Candidates(g)
        BY <1>2, <1>13, <2>1 DEF Candidates
      <3>3. ~Looking' => unasked' = {}
        BY <1>18, <2>1 DEF Looking
      <3>4. Looking' => unasked' = todo
        BY <1>18, <2>1 DEF Looking
      <3>5. todo = Candidates(ready.resolve)' \X ent'.profiles
        BY <1>1, <1>17, <3>2
      <3> QED BY <3>1, <3>3, <3>4, <3>5 DEF LookedUp
    <2>2. CASE pass = "plan"
      <3>1. Candidates(ready.resolve)' = Candidates(ready.resolve) /\ Looking /\ Looking'
        BY <1>2, <1>13, <1>18, <2>2 DEF Candidates, Looking
      <3>2. unasked' = {}
        BY <1>18, <2>2
      <3> QED BY <1>1, <1>2, <1>3, <3>1, <3>2 DEF AvInv, LookedUp, WasOn, WasOff
    <2> QED BY <1>3, <2>1, <2>2
  <1> QED BY <1>2, <1>20, <1>21, <1>22, <1>23, <1>24, <1>25, <1>26 DEF AvInv

\* A look-up settles its pair, and when the profile is found there the other nodes of
\* the region with it.
LEMMA ProtocolRead ==
  ASSUME AvInv, ReadProtocol
  PROVE  AvInv'
  <1>1. /\ Reading("protocols") /\ "protocols" \in UnderWay /\ pc = "protocols"
        /\ UNCHANGED <<own, ent, left, ready>>
    BY DEF ReadProtocol, Reading, UnderWay, Labels, Answered
  <1>2. /\ TablesOK' /\ Current' /\ UNCHANGED <<ask, since, entitled>>
        /\ ask.plan \in Plans /\ ask.op \in {"build_plan", "resolve"} /\ ask.mode # "none"
        /\ ask.op = "build_plan" => ask.mode = "dry_run"
        /\ \A n \in Nodes : RowsOf(n) \in since[n]
    BY <1>1, Reads
  <1>3. left = {} /\ unasked # {} /\ pass = "resolve" /\ unasked \subseteq Nodes \X PROFILES
    BY <1>1 DEF AvInv, Control, CallOK
  <1>4. PICK cand : cand = Candidates(ready.resolve)
    OBVIOUS
  <1>5. /\ cand \subseteq Nodes /\ \A n \in cand : RegionOf[n] \in ent.regions
        /\ Candidates(ready.resolve)' = cand
        /\ ent.regions \subseteq REGIONS /\ ent.profiles \subseteq PROFILES
    BY <1>1, <1>2, <1>4 DEF Candidates, AvInv, CallOK, Shapes, Resolution
  <1>6. /\ unasked \subseteq cand \X ent.profiles
        /\ \A q \in up : /\ q \in ent.regions \X ent.profiles
                         /\ \E n \in cand : RegionOf[n] = q[1] /\ WasOn(n, q[2])
        /\ \A n \in cand, c \in ent.profiles :
              <<n, c>> \in unasked \/ <<RegionOf[n], c>> \in up \/ WasOff(n, c)
    BY <1>1, <1>4 DEF AvInv, LookedUp, Looking
  <1>7. NextLookup \in unasked
    BY <1>3, LookupUnasked
  <1>8. PICK m, d : m = NextLookup[1] /\ d = NextLookup[2]
    OBVIOUS
  <1>9. m \in cand /\ d \in ent.profiles /\ <<m, d>> \in unasked
    BY <1>6, <1>7, <1>8
  <1>10. /\ <<m, d>> \notin off => WasOn(m, d)
         /\ <<m, d>> \in off => WasOff(m, d)
    <2>1. RowsOf(m).on = {c \in PROFILES : <<m, c>> \notin off}
      BY DEF RowsOf
    <2>2. RowsOf(m) \in since[m] /\ d \in PROFILES
      BY <1>2, <1>5, <1>9
    <2> QED BY <2>1, <2>2 DEF WasOn, WasOff
  <1>11. /\ up' = IF <<m, d>> \notin off THEN up \cup {<<RegionOf[m], d>>} ELSE up
         /\ unasked' = IF <<m, d>> \notin off
                       THEN {q \in unasked : RegionOf[q[1]] # RegionOf[m] \/ q[2] # d}
                       ELSE unasked \ {<<m, d>>}
    BY <1>8 DEF ReadProtocol
  <1>12. unasked' \subseteq unasked
    BY <1>11
  <1>13. \/ unasked' # {} /\ pc' = "protocols" /\ pass' = "resolve"
         \/ unasked' = {} /\ pc' = "list_nodes" /\ pass' = "plan" /\ ask.op = "build_plan"
         \/ unasked' = {} /\ pc' = "done" /\ pass' = "resolve" /\ ask.op # "build_plan"
    BY <1>1, <1>3 DEF ReadProtocol, AfterResolve
  <1>14. CallOK'
    <2>1. up' \subseteq REGIONS \X PROFILES
      BY <1>5, <1>9, <1>11 DEF AvInv, CallOK
    <2> QED BY <1>1, <1>3, <1>12, <1>13, <2>1 DEF AvInv, CallOK, Labels
  <1>15. Shapes'
    BY <1>1, <1>2 DEF AvInv, Shapes
  <1>16. Fresh'
    BY <1>1, <1>3, <1>13 DEF AvInv, Fresh, OfPlan
  <1>17. Control'
    BY <1>1, <1>2, <1>3, <1>13 DEF Control, OfPlan
  <1>18. Rights' /\ OwnRights'
    BY <1>1, <1>2, <1>13 DEF AvInv, Rights, OwnRights, Entitled, WasStatus
  <1>19. Resolved'
    <2>1. Witnessed(ready.resolve, ent.regions, {}, {})
      BY <1>1, <1>3 DEF AvInv, Resolved, Unheard
    <2>2. ASSUME NEW e, NEW q, NEW u, NEW w
          PROVE  Witnessed(e, q, u, w)' <=> Witnessed(e, q, u, w)
      BY <1>2 DEF Witnessed, WasStatus, WasHealth, WasBlocked
    <2>3. Unheard' = {} /\ left' = {}
      BY <1>1, <1>3, <1>13 DEF Unheard
    <2> QED BY <1>1, <1>13, <2>1, <2>2, <2>3 DEF Resolved
  <1>20. LookedUp'
    <2>1. Looking'
      BY <1>13 DEF Looking
    <2>2. unasked' \subseteq cand \X ent.profiles
      BY <1>6, <1>12
    <2>3. ASSUME NEW q \in up'
          PROVE  /\ q \in ent.regions \X ent.profiles
                 /\ \E n \in cand : RegionOf[n] = q[1] /\ WasOn(n, q[2])
      <3>1. CASE q \in up
        BY <1>6, <3>1
      <3>2. CASE q = <<RegionOf[m], d>> /\ <<m, d>> \notin off
        BY <1>5, <1>9, <1>10, <3>2
      <3> QED BY <1>11, <2>3, <3>1, <3>2
    <2>4. ASSUME NEW n \in cand, NEW c \in ent.profiles
          PROVE  <<n, c>> \in unasked' \/ <<RegionOf[n], c>> \in up' \/ WasOff(n, c)
      <3>1. <<n, c>> \in unasked \/ <<RegionOf[n], c>> \in up \/ WasOff(n, c)
        BY <1>6
      <3>2. up \subseteq up'
        BY <1>11
      <3>3. CASE <<n, c>> \in unasked /\ <<m, d>> \notin off
        BY <1>11, <3>3
      <3>4. CASE <<n, c>> \in unasked /\ <<m, d>> \in off
        BY <1>10, <1>11, <3>4
      <3> QED BY <3>1, <3>2, <3>3, <3>4
    <2>5. /\ \A n, c : WasOn(n, c)' <=> WasOn(n, c)
          /\ \A n, c : WasOff(n, c)' <=> WasOff(n, c)
      BY <1>2 DEF WasOn, WasOff
    <2> QED BY <1>1, <1>5, <2>1, <2>2, <2>3, <2>4, <2>5 DEF LookedUp
  <1> QED BY <1>2, <1>14, <1>15, <1>16, <1>17, <1>18, <1>19, <1>20 DEF AvInv

-----------------------------------------------------------------------------
(* The invariant, of the calls alone and under the pages.                   *)
LEMMA ReadOn ==
  ASSUME AvInv, Read
  PROVE  AvInv'
  BY PlanRowRead, PlanRegionsRead, PlanProfilesRead, PlanNodesRead, EntRowRead, EntRegionsRead,
     EntProfilesRead, NodesListed, AlertsRead, BlockersRead, ProtocolRead DEF Read

\* Every step does.
LEMMA StepInv ==
  ASSUME AvInv, Next \/ Discard \/ UNCHANGED vars
  PROVE  AvInv'
  <1>1. CASE Write
    BY <1>1, WrittenOver
  <1>2. CASE Consult
    <2>1. PICK op \in {"build_plan", "resolve"}, p \in Plans, mode \in {"dry_run", "live"},
               preferred \in Preferred \cup {NoNode} : Invoke(op, p, mode, preferred)
      BY <1>2 DEF Consult
    <2>2. preferred \in Nodes \cup {NoNode}
      BY CatalogueAssumption
    <2> QED BY <2>1, <2>2, Invoked
  <1>3. CASE Read
    BY <1>3, ReadOn
  <1>4. CASE Discard
    BY <1>4, Discarded
  <1>5. CASE UNCHANGED vars
    <2>1. UNCHANGED <<plans, regions, profiles, nodes, blockers, alerts, off, edits>>
          /\ UNCHANGED <<pc, ask, own, ent, pass, left, ready, unasked, up>>
          /\ UNCHANGED <<since, entitled, quiet>>
      BY <1>5 DEF vars, tables, call, history
    <2>2. TablesOK' /\ CallOK' /\ Shapes' /\ Fresh' /\ Control'
      BY <2>1 DEF AvInv, TablesOK, CallOK, Shapes, Fresh, Control
    <2>3. Current'
      BY <2>1 DEF AvInv, Current, CallUnderWay, RowsOf, RightsOf, BlockersOf
    <2>4. Rights' /\ OwnRights'
      BY <2>1 DEF AvInv, Rights, OwnRights, WasStatus
    <2>5. Resolved'
      BY <2>1 DEF AvInv, Resolved, Witnessed, WasStatus, WasHealth, WasBlocked, Unheard, InHand
    <2>6. LookedUp'
      BY <2>1 DEF AvInv, LookedUp, Looking, Candidates, WasOn, WasOff
    <2> QED BY <2>2, <2>3, <2>4, <2>5, <2>6 DEF AvInv
  <1> QED BY <1>1, <1>2, <1>3, <1>4, <1>5 DEF Next

\* The plan in hand is one of the list.
LEMMA PlanInHand ==
  ASSUME PagesTyped, listing # {}
  PROVE  Plan \in listing /\ Plan \in Plans
  <1> DEFINE places == {PlanOrder[p] : p \in listing}
  <1>1. listing \subseteq Plans
    BY DEF PagesTyped
  <1>2. \A p \in listing : PlanOrder[p] \in Nat
    BY <1>1, PagesAssumption
  <1>3. places \subseteq Nat /\ places # {}
    BY <1>2
  <1>4. PICK m \in places : \A k \in places : m <= k
    BY <1>3, Least
  <1>5. PICK p \in listing : PlanOrder[p] = m
    OBVIOUS
  <1>6. \A q \in listing : PlanOrder[p] <= PlanOrder[q]
    BY <1>4, <1>5
  <1> QED BY <1>1, <1>6 DEF Plan

\* Of a page a call sees a step of its own, its beginning or its end, or nothing.
LEMMA PagesAreCalls ==
  ASSUME PagesTyped, [PagesNext]_pageVars
  PROVE  Next \/ Discard \/ UNCHANGED vars
  <1>1. ASSUME NEW p \in Plans, Invoke("resolve", p, "dry_run", NoNode)
        PROVE  Consult
    BY <1>1 DEF Consult
  <1>2. CASE Write \/ Consult \/ Read
    BY <1>2 DEF Next
  <1>3. CASE ConsultAlone
    BY <1>3 DEF ConsultAlone, Next
  <1>4. CASE OpenPlans
    BY <1>4 DEF OpenPlans
  <1>5. ASSUME NEW p \in Plans, OpenSubscription(p) PROVE Consult
    BY <1>1, <1>5 DEF OpenSubscription
  <1>6. CASE ListPlans
    BY <1>6 DEF ListPlans, NextPlan
  <1>7. CASE CardRow \/ CardRegions
    BY <1>7 DEF CardRow, CardRegions
  <1>8. CASE CardProfiles
    <2>1. Plan \in Plans
      BY <1>8, PlanInHand DEF CardProfiles, At, PagesTyped
    <2> QED BY <1>1, <1>8, <2>1 DEF CardProfiles, Next
  <1>9. CASE Rendered
    BY <1>9 DEF Rendered, NextPlan
  <1>10. CASE UNCHANGED pageVars
    BY <1>10 DEF pageVars
  <1> QED BY <1>2, <1>3, <1>4, <1>5, <1>6, <1>7, <1>8, <1>9, <1>10 DEF PagesNext, Next

\* A read keeps the question, and ends in an error only over a plan that is not on.
LEMMA ReadKeeps ==
  ASSUME AvInv, Read
  PROVE  /\ pc \in UnderWay /\ pc' # "idle"
         /\ UNCHANGED <<tables, ask, since, entitled, quiet>>
         /\ ask.op = "resolve" /\ pc' \in {"unknown_plan", "disabled_plan"}
              => \E x \in entitled : x.enabled # "on"
  <1>1. PICK label \in UnderWay : Reading(label)
    BY DEF Read, ReadPlanRow, ReadPlanRegions, ReadPlanProfiles, ReadPlanNodes, ReadEntRow,
       ReadEntRegions, ReadEntProfiles, ListNodes, ReadAlerts, ReadBlockers, ReadProtocol,
       UnderWay, Labels, Answered
  <1>2. pc \in UnderWay /\ UNCHANGED <<tables, ask, since, entitled, quiet>>
    BY <1>1 DEF Reading, history
  <1>3. AvInv'
    BY ReadOn
  <1>4. ask.op # "none" /\ ask.mode # "none" /\ RightsOf(ask.plan) \in entitled
    BY <1>1, Reads DEF AvInv
  <1>5. /\ pc' # "idle"
        /\ pc' \in {"unknown_plan", "disabled_plan"} => pc = "plan_row" \/ ReadEntRow
    <2>1. CASE ReadPlanRow \/ ReadPlanRegions \/ ReadPlanProfiles \/ ReadPlanNodes
      BY <2>1 DEF ReadPlanRow, ReadPlanRegions, ReadPlanProfiles, ReadPlanNodes, Reading
    <2>2. CASE ReadEntRow
      BY <2>2 DEF ReadEntRow
    <2>3. CASE ReadEntRegions \/ ReadEntProfiles \/ ReadAlerts
      BY <2>3 DEF ReadEntRegions, ReadEntProfiles, ReadAlerts
    <2>4. CASE ListNodes \/ ReadBlockers
      BY <2>4 DEF ListNodes, ReadBlockers, AfterReadiness, AfterResolve
    <2>5. CASE ReadProtocol
      BY <2>5 DEF ReadProtocol, Reading, AfterResolve
    <2> QED BY <2>1, <2>2, <2>3, <2>4, <2>5 DEF Read
  <1>6. ASSUME ask.op = "resolve", pc' \in {"unknown_plan", "disabled_plan"}
        PROVE  \E x \in entitled : x.enabled # "on"
    <2>1. pc # "plan_row"
      BY <1>6 DEF AvInv, Control, OfPlan
    <2>2. ReadEntRow
      BY <1>5, <1>6, <2>1
    <2>3. plans[ask.plan] \in {"absent", "off"}
      BY <1>6, <2>2 DEF ReadEntRow
    <2>4. RightsOf(ask.plan).enabled # "on"
      BY <2>3 DEF RightsOf
    <2> QED BY <1>4, <2>4
  <1> QED BY <1>2, <1>5, <1>6

\* Every step of a page leaves the invariant of the pages.
LEMMA PagesStep ==
  ASSUME AvInv, PagesInv, [PagesNext]_pageVars
  PROVE  PagesInv'
  <1> USE DEF PagesInv
  <1>1. ASSUME NEW op, NEW p, NEW mode, Invoke(op, p, mode, NoNode), p \in Plans
        PROVE  /\ ask'.op = op /\ ask'.plan = p /\ ask'.mode = mode /\ quiet'
               /\ pc' \in {"plan_row", "ent_row"} /\ UNCHANGED tables
    BY <1>1 DEF Invoke
  <1>2. ASSUME Write, calm' = (calm /\ tables' = tables), UNCHANGED <<page, stage, listing, card>>
        PROVE  PagesInv'
    <2>1. UNCHANGED call /\ Noted
      BY <1>2, Noting DEF AvInv
    <2>2. UNCHANGED <<pc, ask>>
      BY <2>1 DEF call
    <2>3. entitled \subseteq entitled'
      BY <2>1, Growing
    <2>4. calm' => calm /\ UNCHANGED tables
      BY <1>2
    <2>5. quiet' = (quiet /\ tables' = tables)
      BY <2>1 DEF Noted
    <2>6. PagesTyped'
      BY <1>2 DEF PagesTyped
    <2>7. PagesControl'
      <3>1. calm' => UNCHANGED plans
        BY <2>4 DEF tables
      <3>2. Plan' = Plan
        BY <1>2 DEF Plan
      <3> QED BY <1>2, <2>2, <2>3, <2>4, <2>5, <3>1, <3>2 DEF PagesControl
    <2>8. FailedPagesHaveCause'
      BY <1>2, <2>3, <2>4 DEF FailedPagesHaveCause
    <2> QED BY <2>6, <2>7, <2>8
  <1>3. CASE ConsultAlone
    BY <1>3 DEF ConsultAlone, PagesTyped, PagesControl, Unanswered, FailedPagesHaveCause, Stages, NoCard, Goto
  <1>4. ASSUME Read, UNCHANGED paging
        PROVE  PagesInv'
    <2>1. /\ pc \in UnderWay /\ pc' # "idle"
          /\ UNCHANGED <<tables, ask, since, entitled, quiet>>
          /\ ask.op = "resolve" /\ pc' \in {"unknown_plan", "disabled_plan"}
              => \E x \in entitled : x.enabled # "on"
      BY <1>4, ReadKeeps
    <2>2. UNCHANGED <<page, stage, listing, card, calm>> /\ UNCHANGED plans
      BY <1>4, <2>1 DEF paging, tables
    <2>3. PagesTyped'
      BY <2>2 DEF PagesTyped
    <2>4. FailedPagesHaveCause'
      BY <2>1, <2>2 DEF FailedPagesHaveCause
    <2>5. stage \notin Unanswered /\ stage # "raised"
      BY <2>1 DEF PagesControl, UnderWay, Answered
    <2>6. Plan' = Plan
      BY <2>2 DEF Plan
    <2>7. PagesControl'
      BY <2>1, <2>2, <2>5, <2>6 DEF PagesControl
    <2> QED BY <2>3, <2>4, <2>7
  <1>5. CASE OpenPlans
    BY <1>5 DEF OpenPlans, Discard, PagesTyped, PagesControl, Unanswered, FailedPagesHaveCause, Stages,
                NoCard, Goto
  <1>6. ASSUME NEW p \in Plans, OpenSubscription(p)
        PROVE  PagesInv'
    <2>1. /\ page' = "subscription" /\ stage' = "resolve" /\ listing' = {p} /\ card' = NoCard
          /\ calm' = TRUE
          /\ ask'.op = "resolve" /\ ask'.plan = p /\ ask'.mode = "dry_run"
          /\ quiet' /\ pc' = "ent_row"
      BY <1>6 DEF OpenSubscription, Goto, Invoke
    <2> QED BY <2>1 DEF PagesTyped, PagesControl, Unanswered, FailedPagesHaveCause, Stages, NoCard
  <1>7. CASE ListPlans
    <2>1. PICK rest : rest = {p \in PublicPlans : plans[p] = "on"}
      OBVIOUS
    <2>2. /\ stage = "list" /\ page = "plans"
          /\ listing' = rest /\ stage' = IF rest = {} THEN "served" ELSE "row"
          /\ UNCHANGED <<page, card, calm, tables>> /\ pc' = "idle"
      BY <1>7, <2>1 DEF ListPlans, At, NextPlan, Goto, Discard, PagesControl, Unanswered
    <2>3. rest \subseteq Plans /\ (\A p \in rest : plans[p] = "on") /\ UNCHANGED plans
      BY <2>1, <2>2, PagesAssumption DEF tables
    <2>4. PagesTyped'
      BY <2>2, <2>3 DEF PagesTyped, Stages
    <2>5. PagesControl' /\ FailedPagesHaveCause'
      BY <2>2, <2>3 DEF PagesControl, Unanswered, FailedPagesHaveCause
    <2> QED BY <2>4, <2>5
  <1>8. CASE CardRow
    <2>1. /\ stage = "row" /\ page = "plans" /\ pc = "idle" /\ listing # {}
          /\ stage' = IF plans[Plan] = "on" THEN "regions" ELSE "raised"
          /\ UNCHANGED <<vars, page, listing, card, calm>>
      BY <1>8 DEF CardRow, At, Goto, PagesTyped, PagesControl, Unanswered
    <2>2. UNCHANGED <<pc, plans>>
      BY <2>1 DEF vars, call, tables
    <2>3. Plan \in listing
      BY <2>1, PlanInHand
    <2>4. calm => plans[Plan] = "on"
      BY <2>1, <2>3 DEF PagesControl
    <2>5. PagesTyped'
      BY <2>1 DEF PagesTyped, Stages
    <2>6. PagesControl'
      BY <2>1, <2>2 DEF PagesControl, Unanswered
    <2>7. FailedPagesHaveCause'
      BY <2>1, <2>4 DEF FailedPagesHaveCause
    <2> QED BY <2>5, <2>6, <2>7
  <1>9. CASE CardRegions
    <2>1. /\ stage = "regions" /\ page = "plans" /\ pc = "idle" /\ stage' = "profiles"
          /\ card' = [card EXCEPT !.regions = RightsOf(Plan).regions]
          /\ UNCHANGED <<vars, page, listing, calm>>
      BY <1>9 DEF CardRegions, At, Goto, PagesControl, Unanswered
    <2>2. UNCHANGED <<pc, plans>>
      BY <2>1 DEF vars, call, tables
    <2>3. PagesTyped'
      BY <2>1, RightsTyped DEF PagesTyped, Stages
    <2>4. PagesControl' /\ FailedPagesHaveCause'
      BY <2>1, <2>2 DEF PagesControl, Unanswered, FailedPagesHaveCause
    <2> QED BY <2>3, <2>4
  <1>10. CASE CardProfiles
    <2>1. /\ stage = "profiles" /\ page = "plans" /\ pc = "idle" /\ stage' = "resolve" /\ listing # {}
          /\ card' = [card EXCEPT !.profiles = RightsOf(Plan).profiles]
          /\ Invoke("resolve", Plan, "dry_run", NoNode)
          /\ UNCHANGED <<page, listing, calm>>
      BY <1>10 DEF CardProfiles, At, Goto, PagesTyped, PagesControl, Unanswered
    <2>2. PICK p \in Plans : p = Plan
      BY <2>1, PlanInHand
    <2>3. /\ ask'.op = "resolve" /\ ask'.plan = p /\ ask'.mode = "dry_run" /\ quiet'
          /\ pc' = "ent_row" /\ UNCHANGED plans
      BY <2>1, <2>2 DEF Invoke, tables
    <2>4. Plan' = p
      BY <2>1, <2>2 DEF Plan
    <2>5. PagesTyped'
      BY <2>1, RightsTyped DEF PagesTyped, Stages
    <2>6. PagesControl' /\ FailedPagesHaveCause'
      BY <2>1, <2>3, <2>4 DEF PagesControl, Unanswered, FailedPagesHaveCause
    <2> QED BY <2>5, <2>6
  <1>11. CASE Rendered
    <2>1. stage = "resolve" /\ listing # {} /\ UNCHANGED <<page, card, calm>>
      BY <1>11 DEF Rendered, At, PagesTyped
    <2>2. CASE pc = "done" /\ NextPlan(listing \ {Plan})
      <3>1. /\ listing' = listing \ {Plan}
            /\ stage' = IF listing' = {} THEN "served" ELSE "row"
            /\ pc' = "idle" /\ UNCHANGED plans
        BY <2>2 DEF NextPlan, Goto, Discard, tables
      <3>2. listing' \subseteq listing
        BY <3>1
      <3>3. page = "subscription" => listing' = {}
        BY <2>1, <3>1, PlanInHand DEF PagesControl
      <3>4. page \in {"plans", "subscription"}
        BY <2>1 DEF PagesControl
      <3>5. PagesTyped'
        BY <2>1, <3>1, <3>2 DEF PagesTyped, Stages
      <3>6. PagesControl' /\ FailedPagesHaveCause'
        BY <2>1, <3>1, <3>2, <3>3, <3>4 DEF PagesControl, Unanswered, FailedPagesHaveCause
      <3> QED BY <3>5, <3>6
    <2>3. CASE /\ pc \in {"unknown_plan", "disabled_plan"} /\ stage' = "raised"
               /\ UNCHANGED <<vars, listing>>
      <3>1. UNCHANGED <<pc, plans, entitled>>
        BY <2>3 DEF vars, call, tables, history
      <3>2. \E x \in entitled : x.enabled # "on"
        BY <2>1, <2>3 DEF PagesControl
      <3>3. ASSUME page = "plans", calm PROVE FALSE
        <4>1. quiet /\ ask.plan = Plan /\ (\A p \in listing : plans[p] = "on")
          BY <2>1, <3>3 DEF PagesControl
        <4>2. entitled = {RightsOf(ask.plan)}
          BY <2>3, <4>1 DEF AvInv, Current
        <4>3. plans[ask.plan] = "on"
          BY <2>1, <4>1, PlanInHand
        <4>4. RightsOf(ask.plan).enabled = "on"
          BY <4>3 DEF RightsOf
        <4> QED BY <3>2, <4>2, <4>4
      <3>4. PagesTyped'
        BY <2>1, <2>3 DEF PagesTyped, Stages
      <3>5. PagesControl'
        BY <2>1, <2>3, <3>1 DEF PagesControl, Unanswered
      <3>6. FailedPagesHaveCause'
        BY <2>1, <2>3, <3>1, <3>2, <3>3 DEF FailedPagesHaveCause, PagesTyped
      <3> QED BY <3>4, <3>5, <3>6
    <2> QED BY <1>11, <2>2, <2>3 DEF Rendered, Goto
  <1>12. CASE UNCHANGED pageVars
    <2>1. UNCHANGED <<page, stage, listing, card, calm, pc, ask, entitled, quiet, plans>>
      BY <1>12 DEF pageVars, paging, vars, call, history, tables
    <2> QED BY <2>1 DEF PagesTyped, PagesControl, FailedPagesHaveCause, Plan
  <1> QED BY <1>2, <1>3, <1>4, <1>5, <1>6, <1>7, <1>8, <1>9, <1>10, <1>11, <1>12 DEF PagesNext

\* Both invariants hold: of the calls, alone or under a page, and of the pages.
THEOREM Invariance == PagesSpec => [](AvInv /\ PagesInv)
  <1>1. PagesInit => AvInv /\ PagesInv
    <2> SUFFICES ASSUME PagesInit PROVE AvInv /\ PagesInv
      OBVIOUS
    <2>1. AvInv
      BY Initially DEF PagesInit
    <2>2. page = "none" /\ stage = "idle" /\ listing = {} /\ card = NoCard /\ calm = TRUE
      BY DEF PagesInit
    <2>3. PagesInv
      BY <2>2 DEF PagesInv, PagesTyped, PagesControl, Unanswered, FailedPagesHaveCause, Stages, NoCard
    <2> QED BY <2>1, <2>3
  <1>2. AvInv /\ PagesInv /\ [PagesNext]_pageVars => (AvInv /\ PagesInv)'
    BY PagesAreCalls, StepInv, PagesStep DEF PagesInv
  <1> QED BY <1>1, <1>2, PTL DEF PagesSpec

\* PagesTypeOK: the variables of the writers, the calls and the pages have their types.
THEOREM PagesTypeCorrect == PagesSpec => []PagesTypeOK
  <1>1. AvInv /\ PagesInv => PagesTypeOK
    <2> SUFFICES ASSUME AvInv, PagesInv PROVE PagesTypeOK
      OBVIOUS
    <2>1. TypeOK
      BY Typing
    <2> QED BY <2>1 DEF PagesInv, PagesTyped, PagesTypeOK
  <1> QED BY <1>1, Invariance, PTL

\* FailedPagesHaveCause: a page that fails had a plan that was switched off under it.
THEOREM FailuresHaveCause == PagesSpec => []FailedPagesHaveCause
  <1>1. PagesInv => FailedPagesHaveCause
    BY DEF PagesInv
  <1> QED BY <1>1, Invariance, PTL

-----------------------------------------------------------------------------
(* The answers.                                                             *)
LEMMA ReasonsAre ==
  ASSUME NEW r \in Readiness
  PROVE  /\ "node_status_test" \in Reasons(r) <=> r.status = "test"
         /\ "node_status_planned" \in Reasons(r) <=> r.status = "planned"
         /\ "node_down" \in Reasons(r) <=> r.health = "down"
         /\ "no_candidate_node" \notin Reasons(r)
         /\ Reasons(r) = {} <=> r.status = "live" /\ r.health = "healthy" /\ r.blockers = {}
  <1>1. r.status \in Statuses /\ r.health \in Healths /\ r.blockers \subseteq Blockers
    BY DEF Readiness
  <1>2. Blockers = {"realdevice_protocol_test_pending"}
    BY DEF Blockers, NODE_LIVE_BLOCKERS
  <1> DEFINE byStatus == IF r.status = "live" THEN {} ELSE {"node_not_live", StatusReason[r.status]}
             byHealth == CASE r.health = "down" -> {"node_down"}
                           [] r.health = "degraded" -> {"node_degraded"}
                           [] OTHER -> {}
  <1>3. \/ r.status = "live" /\ byStatus = {}
        \/ r.status = "test" /\ byStatus = {"node_not_live", "node_status_test"}
        \/ r.status = "planned" /\ byStatus = {"node_not_live", "node_status_planned"}
        \/ r.status = "standby" /\ byStatus = {"node_not_live", "node_status_standby"}
        \/ r.status = "retired" /\ byStatus = {"node_not_live", "node_status_retired"}
    BY <1>1 DEF Statuses, StatusReason
  <1>4. \/ r.health = "down" /\ byHealth = {"node_down"}
        \/ r.health = "degraded" /\ byHealth = {"node_degraded"}
        \/ r.health = "healthy" /\ byHealth = {}
    BY <1>1 DEF Healths
  <1>5. Reasons(r) = byStatus \cup byHealth \cup r.blockers
    BY DEF Reasons
  <1> HIDE DEF byStatus, byHealth
  <1> QED BY <1>1, <1>2, <1>3, <1>4, <1>5

\* A candidate is what the documentation calls usable.
LEMMA CandidateMeans ==
  ASSUME NEW r \in Readiness, NEW mode \in {"dry_run", "live"}
  PROVE  Candidate(r, mode) <=> UsableRows(r, mode)
  BY ReasonsAre DEF Candidate, UsableRows

\* What holds of an answer.
LEMMA Answer ==
  ASSUME AvInv, pc = "done"
  PROVE  /\ Witnessed(ready.resolve, ent.regions, {}, {})
         /\ ask.op = "build_plan" => Witnessed(ready.plan, own.regions, {}, {})
         /\ \E x \in entitled : ent.regions = x.regions
         /\ \E x \in entitled : ent.profiles = x.profiles
         /\ ask.mode \in {"dry_run", "live"} /\ ask.plan \in Plans
         /\ ready.resolve \in Partial(Readiness) /\ ready.plan \in Partial(Readiness)
         /\ \A q \in up : /\ q \in ent.regions \X ent.profiles
                          /\ \E n \in Candidates(ready.resolve) : RegionOf[n] = q[1] /\ WasOn(n, q[2])
         /\ \A n \in Candidates(ready.resolve), c \in ent.profiles :
               <<RegionOf[n], c>> \in up \/ WasOff(n, c)
  <1>1. left = {} /\ unasked = {} /\ pass \in {"resolve", "plan"}
    BY DEF AvInv, Control, CallOK
  <1>2. Unheard = {}
    BY <1>1 DEF Unheard
  <1>3. Witnessed(ready.resolve, ent.regions, {}, {})
    BY <1>1, <1>2 DEF AvInv, Resolved
  <1>4. ask.op = "build_plan" => Witnessed(ready.plan, own.regions, {}, {})
    BY <1>1, <1>2 DEF AvInv, Resolved, Control
  <1>5. /\ \E x \in entitled : ent.regions = x.regions
        /\ \E x \in entitled : ent.profiles = x.profiles
    BY DEF AvInv, Rights, Entitled
  <1>6. ask.mode \in {"dry_run", "live"} /\ ask.plan \in Plans
    BY DEF AvInv, Control, Shapes
  <1>7. ready.resolve \in Partial(Readiness) /\ ready.plan \in Partial(Readiness)
    BY DEF AvInv, Shapes
  <1>8. Looking
    BY DEF Looking
  <1> QED BY <1>1, <1>3, <1>4, <1>5, <1>6, <1>7, <1>8 DEF AvInv, LookedUp

\* OfferedWasUsable: however the writers interleave, the region, the node and the
\* profile that an answer offers were each in use at some moment of the call.
THEOREM OffersWereTrue == PagesSpec => []OfferedWasUsable
  <1>1. AvInv => OfferedWasUsable
    <2> SUFFICES ASSUME AvInv, pc = "done" PROVE OfferedWasUsable
      BY DEF OfferedWasUsable
    <2>1. PICK f : f = ready.resolve
      OBVIOUS
    <2>2. /\ Witnessed(f, ent.regions, {}, {}) /\ ask.mode \in {"dry_run", "live"}
          /\ f \in Partial(Readiness)
          /\ \E x \in entitled : ent.regions = x.regions
          /\ \A q \in up : /\ q \in ent.regions \X ent.profiles
                           /\ \E n \in Candidates(f) : RegionOf[n] = q[1] /\ WasOn(n, q[2])
      BY <2>1, Answer
    <2>3. \A r \in AvailableRegions : \E x \in entitled : r \in x.regions
      BY <2>2 DEF AvailableRegions
    <2>4. ASSUME NEW n \in Candidates(f)
          PROVE  /\ \E x \in since[n] : x.status = f[n].status
                 /\ \E x \in since[n] : x.health # "down"
                 /\ ask.mode = "live" => \E x \in since[n] : x.health = "healthy"
                 /\ ask.mode = "live" => \E x \in since[n] : x.blockers = {}
      <3>1. n \in DOMAIN f /\ f[n] \in Readiness /\ UsableRows(f[n], ask.mode)
        BY <2>2, CandidateMeans, PartialHas DEF Candidates
      <3>2. WasStatus(n, f[n].status) /\ WasHealth(n, f[n].health) /\ WasBlocked(n, f[n].blockers)
        BY <2>2, <3>1 DEF Witnessed
      <3>3. /\ f[n].health # "down"
            /\ ask.mode = "live" => f[n].health = "healthy" /\ f[n].blockers = {}
        BY <3>1 DEF UsableRows
      <3> QED BY <3>2, <3>3 DEF WasStatus, WasHealth, WasBlocked
    <2>5. \A q \in up : \E n \in CandidatesOf(q[1]) : \E x \in since[n] : q[2] \in x.on
      BY <2>1, <2>2 DEF CandidatesOf, WasOn
    <2> QED BY <2>1, <2>3, <2>4, <2>5 DEF OfferedWasUsable
  <1> QED BY <1>1, Invariance, PTL

\* UsableThroughoutIsOffered: what was usable all through the call is offered, and what
\* is not is given a reason that was true of a node of its own.
THEOREM UsableIsOffered == PagesSpec => []UsableThroughoutIsOffered
  <1>1. AvInv => UsableThroughoutIsOffered
    <2> SUFFICES ASSUME AvInv, pc = "done" PROVE UsableThroughoutIsOffered
      BY DEF UsableThroughoutIsOffered
    <2>1. PICK f : f = ready.resolve
      OBVIOUS
    <2>2. /\ Witnessed(f, ent.regions, {}, {}) /\ ask.mode \in {"dry_run", "live"}
          /\ f \in Partial(Readiness)
          /\ \E x \in entitled : ent.regions = x.regions
      BY <2>1, Answer
    <2>3. \A n \in DOMAIN f : n \in Nodes /\ f[n] \in Readiness
      BY <2>2, PartialHas
    <2>4. ASSUME NEW n \in Nodes,
                 \A x \in since[n] : UsableRows(x, ask.mode),
                 \A x \in entitled : RegionOf[n] \in x.regions
          PROVE  n \in Candidates(f)
      <3>1. RegionOf[n] \in ent.regions
        BY <2>2, <2>4
      <3>2. ~ WasStatus(n, "absent")
        BY <2>4 DEF WasStatus, UsableRows
      <3>3. n \in DOMAIN f
        BY <2>2, <3>1, <3>2 DEF Witnessed
      <3>4. WasStatus(n, f[n].status) /\ WasHealth(n, f[n].health) /\ WasBlocked(n, f[n].blockers)
        BY <2>2, <3>3 DEF Witnessed
      <3>5. UsableRows(f[n], ask.mode)
        BY <2>4, <3>4 DEF WasStatus, WasHealth, WasBlocked, UsableRows
      <3> QED BY <2>2, <2>3, <3>3, <3>5, CandidateMeans DEF Candidates
    <2>5. ASSUME NEW r \in ent.regions \ AvailableRegions
          PROVE  /\ RegionReasons(r) # {}
                 /\ "node_down" \in RegionReasons(r) =>
                       \E n \in Nodes : RegionOf[n] = r /\ \E x \in since[n] : x.health = "down"
      <3> DEFINE here == {n \in DOMAIN f : RegionOf[n] = r}
                 found == (IF \A n \in here : f[n].health = "down" THEN {"node_down"} ELSE {})
                          \cup UNION {Reasons(f[n]) : n \in here}
      <3>1. RegionReasons(r) = IF here = {} \/ found = {} THEN {"no_candidate_node"} ELSE found
        BY <2>1 DEF RegionReasons
      <3>2. ASSUME "node_down" \in found, here # {}
            PROVE  \E n \in here : f[n].health = "down"
        BY <2>3, <3>2, ReasonsAre
      <3>3. \A n \in here : n \in Nodes /\ RegionOf[n] = r /\ WasHealth(n, f[n].health)
        BY <2>2, <2>3 DEF Witnessed
      <3> HIDE DEF here, found
      <3> QED BY <3>1, <3>2, <3>3 DEF WasHealth
    <2> QED BY <2>1, <2>4, <2>5 DEF UsableThroughoutIsOffered
  <1> QED BY <1>1, Invariance, PTL

\* On a quiet database what was read of a node is what its rows are.
LEMMA QuietReadiness ==
  ASSUME AvInv, pc = "done", quiet, NEW f \in Partial(Readiness), NEW rs,
         Witnessed(f, rs, {}, {})
  PROVE  /\ DOMAIN f = {n \in Nodes : RegionOf[n] \in rs /\ nodes[n] # "absent"}
         /\ \A n \in DOMAIN f : f[n] = [status |-> nodes[n], health |-> Health(alerts[n]),
                                        blockers |-> BlockersOf(n)]
         /\ \A n \in DOMAIN f : /\ f[n].status = nodes[n] /\ f[n].health = Health(alerts[n])
                                /\ f[n].blockers = BlockersOf(n)
  <1>1. \A n \in Nodes : since[n] = {RowsOf(n)}
    BY DEF AvInv, Current
  <1>2. DOMAIN f \subseteq Nodes /\ \A n \in DOMAIN f : f[n] \in Readiness
    BY PartialHas
  <1>3. \A n \in DOMAIN f : /\ RegionOf[n] \in rs /\ f[n].status = nodes[n]
                            /\ f[n].health = Health(alerts[n]) /\ f[n].blockers = BlockersOf(n)
    BY <1>1, <1>2 DEF Witnessed, WasStatus, WasHealth, WasBlocked, RowsOf
  <1>4. \A n \in Nodes \ DOMAIN f : RegionOf[n] \in rs => nodes[n] = "absent"
    BY <1>1 DEF Witnessed, WasStatus, RowsOf
  <1>5. \A n \in DOMAIN f : nodes[n] # "absent"
    BY <1>2, <1>3 DEF Readiness, Statuses
  <1> QED BY <1>2, <1>3, <1>4, <1>5 DEF Readiness

\* build_plan aims at one of its candidates, if it has any.
LEMMA TargetIs ==
  ASSUME NEW c \in Partial(Statuses), own.candidates = c
  PROVE  Target = NoNode \/ Target \in DOMAIN c
  <1>1. DOMAIN c \subseteq Nat
    BY PartialHas, Numbered
  <1>2. CASE ask.preferred \in DOMAIN c
    BY <1>2 DEF Target
  <1>3. CASE ask.preferred \notin DOMAIN c /\ DOMAIN c = {}
    <2>1. c = Nobody
      BY <1>3, PartialHas DEF Nobody
    <2> QED BY <1>3, <2>1 DEF Target
  <1>4. CASE ask.preferred \notin DOMAIN c /\ DOMAIN c # {}
    <2>1. c # Nobody
      BY <1>4, NobodyTyped
    <2>2. \E n \in DOMAIN c : \A k \in DOMAIN c : n <= k
      BY <1>1, <1>4, Least
    <2> QED BY <1>4, <2>1, <2>2 DEF Target
  <1> QED BY <1>2, <1>3, <1>4

\* QuietAnswersAreExact: when nothing is written during a call, its answer is that of
\* one snapshot, and what build_plan read itself says the same.
THEOREM QuietIsExact == PagesSpec => []QuietAnswersAreExact
  <1>1. AvInv => QuietAnswersAreExact
    <2> SUFFICES ASSUME AvInv, pc = "done", quiet PROVE QuietAnswersAreExact
      BY DEF QuietAnswersAreExact
    <2>1. PICK f, g : f = ready.resolve /\ g = ready.plan
      OBVIOUS
    <2>2. /\ Witnessed(f, ent.regions, {}, {}) /\ ask.mode \in {"dry_run", "live"}
          /\ f \in Partial(Readiness) /\ g \in Partial(Readiness)
          /\ ask.op = "build_plan" => Witnessed(g, own.regions, {}, {})
      BY <2>1, Answer
    <2>3. PICK rights : rights = RightsOf(ask.plan)
      OBVIOUS
    <2>4. /\ \A n \in Nodes : since[n] = {RowsOf(n)}
          /\ entitled = {rights}
      BY <2>3 DEF AvInv, Current
    <2>5. ent.regions = rights.regions /\ ent.profiles = rights.profiles
      BY <2>4, Answer
    <2>6. /\ DOMAIN f = {n \in Nodes : RegionOf[n] \in ent.regions /\ nodes[n] # "absent"}
          /\ \A n \in DOMAIN f : f[n] = [status |-> nodes[n], health |-> Health(alerts[n]),
                                         blockers |-> BlockersOf(n)]
      BY <2>2, QuietReadiness
    <2>7. \A n \in DOMAIN f : f[n] \in Readiness
      BY <2>2, PartialHas
    <2>8. \A n \in Nodes : UsableRows(RowsOf(n), ask.mode) => nodes[n] # "absent"
      BY DEF UsableRows, RowsOf
    <2>9. \A n \in DOMAIN f : UsableRows(RowsOf(n), ask.mode) <=> UsableRows(f[n], ask.mode)
      <3>1. \A n \in DOMAIN f : /\ RowsOf(n).status = f[n].status /\ RowsOf(n).health = f[n].health
                                /\ RowsOf(n).blockers = f[n].blockers
        <4>1. ASSUME NEW n PROVE /\ RowsOf(n).status = nodes[n] /\ RowsOf(n).health = Health(alerts[n])
                                 /\ RowsOf(n).blockers = BlockersOf(n)
          BY DEF RowsOf
        <4>2. \A n \in DOMAIN f : /\ f[n].status = nodes[n] /\ f[n].health = Health(alerts[n])
                                  /\ f[n].blockers = BlockersOf(n)
          BY <2>2, QuietReadiness
        <4> QED BY <4>1, <4>2
      <3> QED BY <3>1 DEF UsableRows
    <2>10. Candidates(f) = {n \in Nodes : RegionOf[n] \in ent.regions /\ UsableRows(RowsOf(n), ask.mode)}
      BY <2>2, <2>6, <2>7, <2>8, <2>9, CandidateMeans DEF Candidates
    <2>11. \A r \in ent.regions : CandidatesOf(r) = Usable(r)
      BY <2>1, <2>10 DEF CandidatesOf, Usable
    <2>12. AvailableRegions = {r \in rights.regions : Usable(r) # {}}
      BY <2>5, <2>11 DEF AvailableRegions
    <2>13. up = {q \in rights.regions \X rights.profiles :
                   \E n \in Usable(q[1]) : <<n, q[2]>> \notin off}
      <3>1. \A n \in Nodes, c \in PROFILES : /\ WasOn(n, c) <=> <<n, c>> \notin off
                                             /\ WasOff(n, c) <=> <<n, c>> \in off
        <4>1. ASSUME NEW n PROVE RowsOf(n).on = {c \in PROFILES : <<n, c>> \notin off}
          BY DEF RowsOf
        <4> QED BY <2>4, <4>1 DEF WasOn, WasOff
      <3>2. /\ \A q \in up : /\ q \in ent.regions \X ent.profiles
                             /\ \E n \in Candidates(f) : RegionOf[n] = q[1] /\ WasOn(n, q[2])
            /\ \A n \in Candidates(f), c \in ent.profiles :
                  <<RegionOf[n], c>> \in up \/ WasOff(n, c)
        BY <2>1, Answer
      <3>3. Candidates(f) \subseteq Nodes /\ ent.profiles \subseteq PROFILES
        BY <2>10 DEF AvInv, Shapes, Resolution
      <3>4. \A q \in ent.regions \X ent.profiles :
               /\ q[1] \in ent.regions /\ q[2] \in ent.profiles /\ q = <<q[1], q[2]>>
        OBVIOUS
      <3>5. \A r \in ent.regions : Usable(r) = {n \in Candidates(f) : RegionOf[n] = r}
        BY <2>1, <2>11 DEF CandidatesOf
      <3>6. ASSUME NEW q \in ent.regions \X ent.profiles
            PROVE  q \in up <=> \E n \in Usable(q[1]) : <<n, q[2]>> \notin off
        <4>1. q[1] \in ent.regions /\ q[2] \in ent.profiles /\ q[2] \in PROFILES /\ q = <<q[1], q[2]>>
          BY <3>3, <3>4
        <4>2. Usable(q[1]) = {n \in Candidates(f) : RegionOf[n] = q[1]}
          BY <3>5, <4>1
        <4>3. ASSUME q \in up PROVE \E n \in Usable(q[1]) : <<n, q[2]>> \notin off
          <5>1. PICK n \in Candidates(f) : RegionOf[n] = q[1] /\ WasOn(n, q[2])
            BY <3>2, <4>3
          <5> QED BY <3>1, <3>3, <4>1, <4>2, <5>1
        <4>4. ASSUME NEW n \in Usable(q[1]), <<n, q[2]>> \notin off PROVE q \in up
          <5>1. n \in Candidates(f) /\ RegionOf[n] = q[1] /\ ~ WasOff(n, q[2])
            BY <3>1, <3>3, <4>1, <4>2, <4>4
          <5> QED BY <3>2, <4>1, <5>1
        <4> QED BY <4>3, <4>4
      <3>7. \A q \in up : q \in ent.regions \X ent.profiles
        BY <3>2
      <3> QED BY <2>5, <3>6, <3>7
    <2>14. ASSUME ask.op = "build_plan"
           PROVE  /\ own.regions = ent.regions /\ own.profiles = ent.profiles
                  /\ ready.plan = ready.resolve
                  /\ ("node_not_live" \in LiveBlockers) = (Target # NoNode /\ nodes[Target] # "live")
      <3>1. /\ \E x \in entitled : own.regions = x.regions
            /\ \E x \in entitled : own.profiles = x.profiles
            /\ \A n \in DOMAIN own.candidates : WasStatus(n, own.candidates[n])
        BY <2>14 DEF AvInv, OwnRights, Entitled
      <3>2. own.regions = ent.regions /\ own.profiles = ent.profiles
        BY <2>4, <2>5, <3>1
      <3>3. g = f
        <4>1. /\ DOMAIN g = {n \in Nodes : RegionOf[n] \in own.regions /\ nodes[n] # "absent"}
              /\ \A n \in DOMAIN g : g[n] = [status |-> nodes[n], health |-> Health(alerts[n]),
                                             blockers |-> BlockersOf(n)]
          BY <2>2, <2>14, QuietReadiness
        <4>2. f \in [DOMAIN f -> Readiness] /\ g \in [DOMAIN g -> Readiness]
          BY <2>2, PartialHas
        <4>3. DOMAIN f = DOMAIN g /\ \A n \in DOMAIN f : f[n] = g[n]
          BY <2>6, <3>2, <4>1
        <4> QED BY <4>2, <4>3
      <3>4. PICK c : c = own.candidates
        OBVIOUS
      <3>5. c \in Partial(Statuses)
        BY <3>4 DEF AvInv, Shapes, Resolution
      <3>6. \A n \in DOMAIN c : c[n] = nodes[n]
        BY <2>4, <3>1, <3>4, <3>5, PartialHas DEF WasStatus, RowsOf
      <3>7. PICK t : t = Target
        OBVIOUS
      <3>8. t = NoNode \/ t \in DOMAIN c
        BY <3>4, <3>5, <3>7, TargetIs
      <3>9. LiveBlockers = {"phase4c_live_disabled"}
                           \cup (IF t = NoNode THEN {"no_candidate_node"}
                                 ELSE IF c[t] # "live" THEN {"node_not_live"} ELSE {})
        BY <3>4, <3>7 DEF LiveBlockers
      <3>10. "node_not_live" \in LiveBlockers <=> t # NoNode /\ nodes[t] # "live"
        BY <3>6, <3>8, <3>9
      <3>11. ("node_not_live" \in LiveBlockers) = (t # NoNode /\ nodes[t] # "live")
        BY <3>10
      <3> QED BY <2>1, <3>2, <3>3, <3>7, <3>11
    <2> QED BY <2>3, <2>12, <2>13, <2>14 DEF QuietAnswersAreExact
  <1> QED BY <1>1, Invariance, PTL

\* LabelsTellWhy: the label of a region was true of a node of its own at some moment.
THEOREM LabelsAreTrue == PagesSpec => []LabelsTellWhy
  <1>1. AvInv /\ PagesInv => LabelsTellWhy
    <2> SUFFICES ASSUME AvInv, PagesInv, stage = "resolve", pc = "done",
                        NEW r \in RegionsShown \cap ent.regions
                 PROVE
            LET here == {n \in DOMAIN ready.resolve : RegionOf[n] = r}
                WasEver(n, P(_)) == \E x \in since[n] : P(x)
            IN  CASE LabelOf(r) = "testing" ->
                        \E n \in here : /\ WasEver(n, LAMBDA x : x.status = "test")
                                        /\ WasEver(n, LAMBDA x : x.health = "down")
                  [] LabelOf(r) = "not_open" ->
                        \/ here = {}
                        \/ \E n \in here : WasEver(n, LAMBDA x : x.status = "planned")
                  [] LabelOf(r) = "down" ->
                        /\ \E n \in here : WasEver(n, LAMBDA x : x.health = "down")
                        /\ \A n \in here : ~(\A x \in since[n] : x.status \in {"test", "planned"})
                  [] LabelOf(r) \in {"limited", "unavailable"} ->
                        \A n \in here : WasEver(n, LAMBDA x : x.status = "retired")
                  [] OTHER -> \E n \in here : ~(\A x \in since[n] : x.health = "down")
      BY DEF LabelsTellWhy, At
    <2>1. PICK f : f = ready.resolve
      OBVIOUS
    <2>2. /\ Witnessed(f, ent.regions, {}, {}) /\ f \in Partial(Readiness) /\ ask.mode = "dry_run"
      BY <2>1, Answer DEF PagesInv, PagesControl
    <2>3. \A n \in DOMAIN f : n \in Nodes /\ f[n] \in Readiness
      BY <2>2, PartialHas
    <2>4. PICK near : near = {n \in DOMAIN f : RegionOf[n] = r}
      OBVIOUS
    <2>5. \A n \in near : WasStatus(n, f[n].status) /\ WasHealth(n, f[n].health)
      BY <2>2, <2>4 DEF Witnessed
    <2>6. PICK available, reasons : available = (r \in AvailableRegions) /\ reasons = RegionReasons(r)
      OBVIOUS
    <2>7. LabelOf(r) = _availability_label(available, reasons)
      BY <2>6 DEF LabelOf
    <2>8. available <=> \E n \in near : f[n].status \in {"test", "standby", "live"} /\ f[n].health # "down"
      BY <2>1, <2>2, <2>4, <2>6 DEF AvailableRegions, CandidatesOf, Candidates, Candidate
    <2> DEFINE found == (IF \A n \in near : f[n].health = "down" THEN {"node_down"} ELSE {})
                        \cup UNION {Reasons(f[n]) : n \in near}
    <2>9. reasons = IF near = {} \/ found = {} THEN {"no_candidate_node"} ELSE found
      BY <2>1, <2>4, <2>6 DEF RegionReasons
    <2>10. \A n \in near : f[n] \in Readiness
      BY <2>3, <2>4
    <2>11. \A n \in near : /\ f[n].status \in Statuses
                           /\ "node_status_test" \in Reasons(f[n]) <=> f[n].status = "test"
                           /\ "node_status_planned" \in Reasons(f[n]) <=> f[n].status = "planned"
                           /\ "node_down" \in Reasons(f[n]) <=> f[n].health = "down"
                           /\ "no_candidate_node" \notin Reasons(f[n])
                           /\ Reasons(f[n]) = {} => f[n].status = "live" /\ f[n].health = "healthy"
      BY <2>10, ReasonsAre DEF Readiness
    <2>12. /\ "node_status_test" \in found <=> \E n \in near : f[n].status = "test"
           /\ "node_status_planned" \in found <=> \E n \in near : f[n].status = "planned"
           /\ near # {} => ("node_down" \in found <=> \E n \in near : f[n].health = "down")
           /\ "no_candidate_node" \notin found
           /\ found = {} => \A n \in near : f[n].status = "live" /\ f[n].health = "healthy"
      BY <2>11
    <2> HIDE DEF found
    <2>13. near # {} /\ ~available => found # {}
      BY <2>8, <2>12
    <2>14. CASE available
      BY <2>1, <2>4, <2>5, <2>7, <2>8, <2>14 DEF _availability_label, WasStatus, WasHealth
    <2>15. CASE ~available
      BY <2>1, <2>4, <2>5, <2>7, <2>8, <2>9, <2>11, <2>12, <2>13, <2>15
         DEF _availability_label, WasStatus, WasHealth, Statuses
    <2> QED BY <2>14, <2>15
  <1> QED BY <1>1, Invariance, PTL
=============================================================================
