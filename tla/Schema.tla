-------------------------------- MODULE Schema --------------------------------
(* The scripts of backend/migrations, statement by statement.  A statement     *)
(* makes one object.  CREATE ... IF NOT EXISTS passes when the object is there,*)
(* ALTER TABLE ... ADD COLUMN raises; either raises when a table or column     *)
(* that it is about is missing.                                                *)
EXTENDS Sequences

Table(name) == [kind |-> "create", makes |-> name, needs |-> {}]
Index(name, needs) == [kind |-> "create", makes |-> name, needs |-> needs]
Column(table, name) == [kind |-> "add", makes |-> name, needs |-> {table}]

Tables(names) == [i \in DOMAIN names |-> Table(names[i])]
Columns(table, names) == [i \in DOMAIN names |-> Column(table, names[i])]

-----------------------------------------------------------------------------
Initial ==
    Tables(<<"settings", "customers", "platform_accounts", "account_link_tokens",
             "customer_merges", "plans", "proxy_regions", "protocol_profiles", "proxy_nodes",
             "plan_region_entitlements", "plan_protocol_entitlements", "subscriptions",
             "access_profiles", "payment_methods", "payment_orders", "invoices",
             "idempotency_keys", "outbound_messages", "referral_credits", "node_metrics",
             "node_alerts", "audit_logs">>)
    \o <<Index("idx_subscriptions_customer", {"subscriptions"}),
         Index("idx_platform_accounts_customer", {"platform_accounts"}),
         Index("idx_node_metrics_node_ts", {"node_metrics"})>>

Phase4B ==
    Columns("idempotency_keys", <<"idempotency_keys.status", "idempotency_keys.updated_at">>)
    \o Columns("outbound_messages",
               <<"outbound_messages.payload_ref", "outbound_messages.last_error",
                 "outbound_messages.next_attempt_at", "outbound_messages.max_attempts">>)
    \o <<Index("idx_outbound_status", {"outbound_messages"}),
         Index("idx_idempotency_scope_status", {"idempotency_keys.status"})>>

Phase4C ==
    Columns("subscriptions", <<"subscriptions.provision_status">>)
    \o Columns("payment_orders", <<"payment_orders.approved_at">>)
    \o Tables(<<"provisioning_attempts">>)
    \o <<Index("idx_provisioning_attempts_sub", {"provisioning_attempts"}),
         Index("idx_subscriptions_provision_status", {"subscriptions.provision_status"})>>

Phase6 ==
    Tables(<<"subscription_deliveries">>)
    \o <<Index("idx_subscription_deliveries_customer", {"subscription_deliveries"}),
         Index("idx_subscription_deliveries_sub", {"subscription_deliveries"})>>

Phase7 ==
    Tables(<<"proxy_node_protocols", "node_live_blockers">>)
    \o <<Index("idx_proxy_node_protocols_node", {"proxy_node_protocols"}),
         Index("idx_node_live_blockers_node", {"node_live_blockers"})>>

Phase8B ==
    Tables(<<"portal_access_tokens", "portal_sessions">>)
    \o <<Index("idx_portal_access_tokens_customer", {"portal_access_tokens"}),
         Index("idx_portal_access_tokens_sub", {"portal_access_tokens"}),
         Index("idx_portal_access_tokens_status_expiry", {"portal_access_tokens"}),
         Index("idx_portal_sessions_customer", {"portal_sessions"}),
         Index("idx_portal_sessions_status_expiry", {"portal_sessions"})>>

-----------------------------------------------------------------------------
\* The files in the order of their names.
Directory == <<Initial, Phase4B, Phase4C, Phase6, Phase7, Phase8B>>
=============================================================================
