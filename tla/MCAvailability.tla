---------------------------- MODULE MCAvailability ----------------------------
(* Small instances of Availability and PortalPages for TLC. *)
EXTENDS PortalPages, TLC

\* de1, a second German node and an American one.
TwoRegions == <<"de", "de", "us">>

\* As seeded; with both other nodes live; with one on standby and none in the US.
SmallTopologies == {<<"test", "absent", "absent">>, <<"test", "live", "live">>,
                    <<"test", "standby", "planned">>}

TwoPlans == "BASIC_1M" :> 1 @@ "CORE_1M" :> 2
=============================================================================
