------------------------------ MODULE Catalogue ------------------------------
(* The starting catalogue of seed.py, and what display.py makes of the      *)
(* profiles a plan entitles to.  The tables only; Availability holds the    *)
(* rows and seeds them.                                                     *)
EXTENDS Naturals, Sequences, FiniteSets

\* Orders of the codes: ORDER BY region_code, and the tuple in resolve.
RegionOrder == <<"de", "sg", "us">>
ProfileOrder == <<"FAST1", "FAST2", "SECURE">>

REGIONS == {"de", "us", "sg"}
PROFILES == {"FAST1", "FAST2", "SECURE"}
PLANS == {"TRIAL", "BASIC_1M", "CORE_1M", "PLUS_3M", "PRO_3M", "MAX_6M"}

PremiumOnly == {"sg"}
DefaultRegions == {"de"}

PLAN_REGIONS == [p \in PLANS |->
    {"de"} \cup (IF p \in {"TRIAL", "BASIC_1M"} THEN {} ELSE {"us"})
           \cup (IF p \in {"PRO_3M", "MAX_6M"} THEN {"sg"} ELSE {})]

PLAN_PROFILES == [p \in PLANS |->
    {"FAST1", "SECURE"} \cup (IF p \in {"PLUS_3M", "PRO_3M", "MAX_6M"} THEN {"FAST2"} ELSE {})]

\* de1 is seeded as a test node with one blocker; code 1 stands for de1.
DE1_NODE == [node |-> 1, region |-> "de", status |-> "test"]
NODE_LIVE_BLOCKERS == {<<1, "realdevice_protocol_test_pending">>}

Statuses == {"planned", "test", "standby", "live", "retired"}
Levels == {"WARN", "CRITICAL", "DOWN"}
Healths == {"healthy", "degraded", "down"}

Position(x, order) == CHOOSE i \in DOMAIN order : order[i] = x

-----------------------------------------------------------------------------
(* display.fast_labels: one fast tier is "Fast", two are told apart. *)

FastTiers(profiles) == profiles \cap {"FAST1", "FAST2"}

fast_labels(profiles) ==
    [c \in profiles |->
        IF c = "SECURE" THEN "Secure"
        ELSE IF Cardinality(FastTiers(profiles)) = 1 THEN "Fast"
        ELSE IF c = "FAST1" THEN "Fast1" ELSE "Fast2"]
=============================================================================
