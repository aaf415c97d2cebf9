------------------------------ MODULE NodeAlerts ------------------------------
(* Node health: health_monitor.monitor_once with write=True (a pass over    *)
(* all nodes: probe, metric_writer.write_metric, alerting.evaluate), and    *)
(* what node_resilience derives from the open alerts.                       *)
(*                                                                          *)
(* evaluate SELECTs the open alerts ahead of its transaction's first write, *)
(* so two passes that overlap on a node both work from what they read.      *)
(* RACED records the nodes to which that happened.  Cleared rows are never  *)
(* read again and are left out; so are the samples' numbers.                *)
EXTENDS Naturals, FiniteSets

CONSTANTS
    Nodes,           \* proxy_nodes, in the order of their node_code
    Reachability,    \* checks whose failure is DOWN: tcp_443, tcp_80, panel
    Management,      \* checks whose failure is WARN: ssh_22
    Resources,       \* cpu, ram, disk
    Percents,        \* readings of a resource
    Warn, Critical,  \* settings node_alert_warn_pct, node_alert_critical_pct
    Up, Down,        \* readings of a reachability or management check
    Unknown,         \* a reading the prober does not have
    Monitors,        \* processes that run passes
    MaxDuplicates,   \* bound of the model: rows of one node and metric in use at once
    MaxChanges       \* bound of the model: changes of the nodes' condition, passes killed

ASSUME AlertAssumption ==
    /\ Nodes \subseteq Nat
    /\ Percents \subseteq Nat /\ Warn \in Nat /\ Critical \in Nat
    /\ Cardinality({Up, Down, Unknown}) = 3 /\ {Up, Down, Unknown} \cap Nat = {}
    /\ MaxDuplicates \in Nat /\ MaxChanges \in Nat

Metrics == Reachability \cup Management \cup Resources

Readings(m) == (IF m \in Resources THEN Percents ELSE {Up, Down}) \cup {Unknown}

Levels == {"WARN", "CRITICAL", "DOWN"}

VARIABLES
    condition,   \* what a probe of the node would find
    changes,     \* how often it changed
    open,        \* node_alerts with cleared_at IS NULL
    sampled,     \* nodes with a row in node_metrics
    raced        \* nodes on which two evaluations overlapped

VARIABLES
    pc,          \* where each monitor is
    todo,        \* the nodes its pass has still to do
    reading,     \* the ProbeResult in hand
    existing     \* the open alerts it read, one per metric

world == <<condition, changes>>
vars == <<condition, changes, open, sampled, raced, pc, todo, reading, existing>>

Row == [node : Nodes, metric : Metrics, level : Levels, id : 1 .. MaxDuplicates]
Labels == {"idle", "probe", "write_metric", "read_open", "reconcile"}

Probes == {r \in [Metrics -> Percents \cup {Up, Down, Unknown}] :
               \A m \in Metrics : r[m] \in Readings(m)}

TypeOK ==
    /\ condition \in [Nodes -> Probes]
    /\ changes \in 0 .. MaxChanges
    /\ open \subseteq Row
    /\ sampled \subseteq Nodes
    /\ raced \subseteq Nodes
    /\ pc \in [Monitors -> Labels]
    /\ todo \in [Monitors -> SUBSET Nodes]
    /\ reading \in [Monitors -> Probes]
    /\ existing \in [Monitors -> SUBSET Row]

Nothing == [m \in Metrics |-> Unknown]

Init ==
    /\ condition = [n \in Nodes |-> Nothing]
    /\ changes = 0
    /\ open = {}
    /\ sampled = {}
    /\ raced = {}
    /\ pc = [w \in Monitors |-> "idle"]
    /\ todo = [w \in Monitors |-> {}]
    /\ reading = [w \in Monitors |-> Nothing]
    /\ existing = [w \in Monitors |-> {}]

-----------------------------------------------------------------------------
(* desired_alerts: at most one level per metric. *)

\* Mutant: the probe's status word instead of the level.
DesiredLevelsOfStatus(m, x) == IF x = Down THEN {"down"} ELSE {}

DesiredLevels(m, x) ==
    IF x = Unknown THEN {}
    ELSE IF m \in Resources
         THEN IF x >= Critical THEN {"CRITICAL"} ELSE IF x >= Warn THEN {"WARN"} ELSE {}
         ELSE IF x = Down
              THEN IF m \in Reachability THEN {"DOWN"} ELSE {"WARN"}
              ELSE {}

\* The <<metric, level>> pairs a ProbeResult calls for.
Desired(r) == UNION {{<<m, l>> : l \in DesiredLevels(m, r[m])} : m \in Metrics}

-----------------------------------------------------------------------------
At(w, label) == pc[w] = label
Goto(w, label) == pc' = [pc EXCEPT ![w] = label]

\* ORDER BY node_code.
InHand(w) == CHOOSE n \in todo[w] : \A k \in todo[w] : n <= k

OpenOn(n) == {r \in open : r.node = n}

\* A node changes for better or worse, or out of the prober's sight.
Change(n, m) ==
    /\ changes < MaxChanges
    /\ changes' = changes + 1
    /\ \E x \in Readings(m) \ {condition[n][m]} :
           condition' = [condition EXCEPT ![n][m] = x]
    /\ UNCHANGED <<open, sampled, raced, pc, todo, reading, existing>>

\* The SELECT of all nodes; a pass over none is over at once.
StartPass(w) ==
    /\ At(w, "idle")
    /\ todo' = [todo EXCEPT ![w] = Nodes]
    /\ Goto(w, IF Nodes = {} THEN "idle" ELSE "probe")
    /\ UNCHANGED <<world, open, sampled, raced, reading, existing>>

Probe(w) ==
    /\ At(w, "probe")
    /\ reading' = [reading EXCEPT ![w] = condition[InHand(w)]]
    /\ Goto(w, "write_metric")
    /\ UNCHANGED <<world, open, sampled, raced, todo, existing>>

WriteMetric(w) ==
    /\ At(w, "write_metric")
    /\ sampled' = sampled \cup {InHand(w)}
    /\ Goto(w, "read_open")
    /\ UNCHANGED <<world, open, raced, todo, reading, existing>>

Reconciling(n) == {w \in Monitors : At(w, "reconcile") /\ InHand(w) = n}

\* _open_alerts: a dictionary by metric keeps one row of each, which of several the
\* unordered SELECT leaves open.
ReadOpen(w) ==
    LET n == InHand(w) IN
    /\ At(w, "read_open")
    /\ \E rows \in SUBSET OpenOn(n) :
        /\ \A m \in {r.metric : r \in OpenOn(n)} : \E r \in rows : r.metric = m
        /\ \A r, q \in rows : r.metric = q.metric => r = q
        /\ existing' = [existing EXCEPT ![w] = rows]
    /\ raced' = IF Reconciling(n) = {} THEN raced ELSE raced \cup {n}
    /\ Goto(w, "reconcile")
    /\ UNCHANGED <<world, open, sampled, todo, reading>>

\* A primary key nobody uses or remembers.
FreeIds(n, m) ==
    {i \in 1 .. MaxDuplicates :
        \A r \in open \cup UNION {existing[w] : w \in Monitors} :
            r.node = n /\ r.metric = m => r.id # i}

FreshRow(n, m, level) ==
    [node |-> n, metric |-> m, level |-> level,
     id |-> CHOOSE i \in FreeIds(n, m) : TRUE]

Done(w) ==
    LET rest == todo[w] \ {InHand(w)} IN
    /\ todo' = [todo EXCEPT ![w] = rest]
    /\ Goto(w, IF rest = {} THEN "idle" ELSE "probe")
    /\ reading' = [reading EXCEPT ![w] = Nothing]
    /\ existing' = [existing EXCEPT ![w] = {}]

\* Mutant: what is open is never cleared.
ReconcileRaisesOnly(w) ==
    LET n == InHand(w)
        desired == Desired(reading[w])
        raised == {d \in desired : \A r \in existing[w] : <<r.metric, r.level>> # d}
    IN  /\ At(w, "reconcile")
        /\ \A d \in raised : FreeIds(n, d[1]) # {}
        /\ open' = open \cup {FreshRow(n, d[1], d[2]) : d \in raised}
        /\ Done(w)
        /\ UNCHANGED <<world, sampled, raced>>

\* Mutant: an open alert does not keep the same one from being raised again.
ReconcileAgain(w) ==
    LET n == InHand(w)
        desired == Desired(reading[w])
        cleared == {r \in existing[w] : <<r.metric, r.level>> \notin desired}
    IN  /\ At(w, "reconcile")
        /\ \A d \in desired : FreeIds(n, d[1]) # {}
        /\ open' = (open \ cleared) \cup {FreshRow(n, d[1], d[2]) : d \in desired}
        /\ Done(w)
        /\ UNCHANGED <<world, sampled, raced>>

\* One transaction: clear what is gone or has another level, raise what is new.
Reconcile(w) ==
    LET n == InHand(w)
        desired == Desired(reading[w])
        cleared == {r \in existing[w] : <<r.metric, r.level>> \notin desired}
        raised == {d \in desired : \A r \in existing[w] : <<r.metric, r.level>> # d}
    IN  /\ At(w, "reconcile")
        /\ \A d \in raised : FreeIds(n, d[1]) # {}
        /\ open' = (open \ cleared) \cup {FreshRow(n, d[1], d[2]) : d \in raised}
        /\ Done(w)
        /\ UNCHANGED <<world, sampled, raced>>

\* The process is killed, the prober or the database raises: the pass is over.
Abort(w) ==
    /\ ~At(w, "idle")
    /\ changes < MaxChanges
    /\ changes' = changes + 1
    /\ todo' = [todo EXCEPT ![w] = {}]
    /\ Goto(w, "idle")
    /\ reading' = [reading EXCEPT ![w] = Nothing]
    /\ existing' = [existing EXCEPT ![w] = {}]
    /\ UNCHANGED <<condition, open, sampled, raced>>

Step(w) == StartPass(w) \/ Probe(w) \/ WriteMetric(w) \/ ReadOpen(w) \/ Reconcile(w)

Next ==
    \/ \E w \in Monitors : Step(w) \/ Abort(w)
    \/ \E n \in Nodes, m \in Metrics : Change(n, m)

Spec == Init /\ [][Next]_vars

\* Passes are started again and again, and a pass goes on.
FairSpec == Spec /\ \A w \in Monitors : WF_vars(Step(w))

-----------------------------------------------------------------------------
(* node_resilience. *)

OpenLevels(n) == {r.level : r \in OpenOn(n)}

Health(n) ==
    IF "DOWN" \in OpenLevels(n) THEN "down"
    ELSE IF OpenLevels(n) # {} THEN "degraded" ELSE "healthy"

-----------------------------------------------------------------------------
(* Properties. *)

Duplicates(n) ==
    {m \in Metrics : \E r, q \in OpenOn(n) : r # q /\ r.metric = m /\ q.metric = m}

\* A node has two open alerts of one metric only if two evaluations of it overlapped.
OneOpenAlertUnraced == \A n \in Nodes \ raced : Duplicates(n) = {}

\* An evaluation leaves exactly the alerts its own probe calls for, level by level,
\* unless another one overlaps.
EvaluationIsExact ==
    [][\A w \in Monitors :
        LET n == InHand(w) IN
        At(w, "reconcile") /\ todo'[w] # todo[w] /\ changes' = changes /\ n \notin raced
            => {<<r.metric, r.level>> : r \in {q \in open' : q.node = n}}
                 = Desired(reading[w])]_vars

\* Once a node stays as it is, its health follows, also after races that left several
\* alerts of one metric: an unreachable one is down, a faultless one healthy.
HealthCatchesUp ==
    \A n \in Nodes :
        /\ (\E m \in Reachability : <>[](condition[n][m] = Down)) => <>[](Health(n) = "down")
        /\ <>[](Desired(condition[n]) = {})
               => <>[](Health(n) = "healthy")

=============================================================================
