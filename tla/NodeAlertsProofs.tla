--------------------------- MODULE NodeAlertsProofs ---------------------------
(* Theorems about NodeAlerts, for every set of nodes, checks and monitors,    *)
(* every threshold and every set of readings.                                 *)
EXTENDS NodeAlerts, WellFoundedInduction, TLAPS

(* The inductive invariant.  A pass that is under way has a node in hand.     *)
Passing == \A w \in Monitors : At(w, "idle") <=> todo[w] = {}

(* Two evaluations that have both read a node's open alerts are a race.       *)
Overlaps ==
    \A v, w \in Monitors :
        At(v, "reconcile") /\ At(w, "reconcile") /\ InHand(v) = InHand(w) /\ v # w
            => InHand(w) \in raced

(* What the only evaluation of a node has read is what is still open there;   *)
(* what any has read is about its own node.                                   *)
Fresh ==
    \A w \in Monitors : At(w, "reconcile") =>
        /\ \A r \in existing[w] : r.node = InHand(w)
        /\ InHand(w) \notin raced => existing[w] = OpenOn(InHand(w))

IInv == TypeOK /\ Passing /\ Overlaps /\ Fresh /\ OneOpenAlertUnraced

-----------------------------------------------------------------------------
(* A set of naturals has a least element: a pass has its node in hand. *)
LEMMA Least ==
  ASSUME NEW B, B \subseteq Nat, B # {}
  PROVE  \E n \in B : \A k \in B : n <= k
  <1> DEFINE R == OpToRel(<, Nat)
  <1>1. IsWellFoundedOn(R, Nat)
    BY NatLessThanWellFounded
  <1>2. PICK n \in B : \A k \in B : ~ (<<k, n>> \in R)
    <2> HIDE DEF R
    <2> QED BY <1>1, WFMin
  <1>3. \A k \in B : <<k, n>> \in R <=> k < n
    BY DEF OpToRel
  <1> HIDE DEF R
  <1>4. \A k \in B : ~(k < n)
    BY <1>2, <1>3
  <1>5. \A k \in B : n <= k
    BY <1>4
  <1> QED BY <1>5

LEMMA HandHeld ==
  ASSUME TypeOK, Passing, NEW w \in Monitors, ~At(w, "idle")
  PROVE  InHand(w) \in todo[w] /\ InHand(w) \in Nodes
  <1>1. todo[w] # {} /\ todo[w] \subseteq Nodes /\ todo[w] \subseteq Nat
    BY AlertAssumption DEF TypeOK, Passing
  <1>2. \E n \in todo[w] : \A k \in todo[w] : n <= k
    BY <1>1, Least
  <1>3. InHand(w) \in todo[w]
    BY <1>2 DEF InHand
  <1> QED BY <1>1, <1>3

LEMMA SameHand ==
  ASSUME NEW w \in Monitors, todo'[w] = todo[w]
  PROVE  InHand(w)' = InHand(w)
  BY DEF InHand

(* The probe asks for one level of a metric at most. *)
LEMMA DesiredOnce ==
  ASSUME NEW r
  PROVE  /\ \A d \in Desired(r) : d = <<d[1], d[2]>> /\ d[1] \in Metrics /\ d[2] \in Levels
         /\ \A d, e \in Desired(r) : d[1] = e[1] => d = e
  <1>1. ASSUME NEW m, NEW x
        PROVE  /\ DesiredLevels(m, x) \subseteq Levels
               /\ \A k, l \in DesiredLevels(m, x) : k = l
    BY DEF DesiredLevels, Levels
  <1>2. ASSUME NEW d \in Desired(r)
        PROVE  /\ d = <<d[1], d[2]>> /\ d[1] \in Metrics
               /\ d[2] \in DesiredLevels(d[1], r[d[1]])
    BY DEF Desired
  <1> QED BY <1>1, <1>2

LEMMA DesiredPairs ==
  ASSUME NEW r, NEW m, NEW k, <<m, k>> \in Desired(r)
  PROVE  \A d \in Desired(r) : d[1] = m => d[2] = k
  <1>1. \A d \in Desired(r) : d[1] = <<m, k>>[1] => d = <<m, k>>
    BY DesiredOnce
  <1> QED BY <1>1

(* A row is raised with a primary key nobody uses. *)
LEMMA FreshRowTyped ==
  ASSUME NEW n \in Nodes, NEW m \in Metrics, NEW l \in Levels, FreeIds(n, m) # {}
  PROVE  /\ FreshRow(n, m, l) \in Row
         /\ FreshRow(n, m, l).node = n
         /\ FreshRow(n, m, l).metric = m /\ FreshRow(n, m, l).level = l
  <1> DEFINE i == CHOOSE j \in FreeIds(n, m) : TRUE
  <1>1. i \in FreeIds(n, m)
    OBVIOUS
  <1>2. i \in 1 .. MaxDuplicates
    BY <1>1 DEF FreeIds
  <1>3. FreshRow(n, m, l) = [node |-> n, metric |-> m, level |-> l, id |-> i]
    BY DEF FreshRow
  <1> HIDE DEF i
  <1> QED BY <1>2, <1>3 DEF Row

-----------------------------------------------------------------------------
(* What a step of one pass leaves of the others. *)
OthersStay(w) ==
    \A v \in Monitors \ {w} :
        pc'[v] = pc[v] /\ todo'[v] = todo[v] /\ existing'[v] = existing[v]

(* A step that neither reads nor writes the open alerts.                      *)
LEMMA PassMoves ==
  ASSUME IInv, NEW w \in Monitors, OthersStay(w), pc'[w] # "reconcile",
         open' = open, raced' = raced
  PROVE  Overlaps' /\ Fresh' /\ OneOpenAlertUnraced'
  <1>1. ASSUME NEW v \in Monitors, At(v, "reconcile")'
        PROVE  /\ v # w /\ At(v, "reconcile") /\ InHand(v)' = InHand(v)
               /\ existing'[v] = existing[v]
    BY <1>1, SameHand DEF OthersStay, At
  <1>2. \A n \in Nodes : OpenOn(n)' = OpenOn(n)
    BY DEF OpenOn
  <1>3. Overlaps'
    BY <1>1 DEF IInv, Overlaps
  <1>4. Fresh'
    <2> SUFFICES ASSUME NEW v \in Monitors, At(v, "reconcile")'
                 PROVE  /\ \A r \in existing'[v] : r.node = InHand(v)'
                        /\ InHand(v)' \notin raced' => existing'[v] = OpenOn(InHand(v))'
      BY DEF Fresh
    <2>1. /\ At(v, "reconcile") /\ InHand(v)' = InHand(v) /\ existing'[v] = existing[v]
      BY <1>1
    <2>2. OpenOn(InHand(v))' = OpenOn(InHand(v))
      BY <2>1 DEF OpenOn
    <2> QED BY <2>1, <2>2 DEF IInv, Fresh
  <1>5. OneOpenAlertUnraced'
    BY DEF IInv, OneOpenAlertUnraced, Duplicates, OpenOn
  <1> QED BY <1>3, <1>4, <1>5

(* No pass moves and no alert changes.                                        *)
LEMMA NothingMoves ==
  ASSUME IInv, UNCHANGED <<open, raced, pc, todo, existing>>
  PROVE  Passing' /\ Overlaps' /\ Fresh' /\ OneOpenAlertUnraced'
  <1>1. \A v \in Monitors : InHand(v)' = InHand(v) /\ At(v, "reconcile")' = At(v, "reconcile")
    BY SameHand DEF At
  <1>2. Passing'
    BY DEF IInv, Passing, At
  <1>3. Overlaps'
    BY <1>1 DEF IInv, Overlaps
  <1>4. Fresh'
    <2> SUFFICES ASSUME NEW v \in Monitors, At(v, "reconcile")
                 PROVE  /\ \A r \in existing[v] : r.node = InHand(v)
                        /\ InHand(v) \notin raced => existing[v] = OpenOn(InHand(v))'
      BY <1>1 DEF Fresh
    <2>1. OpenOn(InHand(v))' = OpenOn(InHand(v))
      BY <1>1 DEF OpenOn
    <2> QED BY <2>1 DEF IInv, Fresh
  <1>5. OneOpenAlertUnraced'
    BY DEF IInv, OneOpenAlertUnraced, Duplicates, OpenOn
  <1> QED BY <1>2, <1>3, <1>4, <1>5

LEMMA InitEstablishes == Init => IInv
  <1> SUFFICES ASSUME Init PROVE IInv
    OBVIOUS
  <1>1. Nothing \in Probes
    BY DEF Nothing, Probes, Readings
  <1>2. TypeOK
    BY <1>1, AlertAssumption DEF Init, TypeOK, Labels
  <1>3. Passing /\ Overlaps /\ Fresh
    BY DEF Init, Passing, Overlaps, Fresh, At
  <1>4. OneOpenAlertUnraced
    BY DEF Init, OneOpenAlertUnraced, Duplicates, OpenOn
  <1> QED BY <1>2, <1>3, <1>4 DEF IInv

LEMMA ChangeKeeps ==
  ASSUME IInv, NEW n \in Nodes, NEW m \in Metrics, Change(n, m)
  PROVE  IInv'
  <1>1. UNCHANGED <<open, sampled, raced, pc, todo, reading, existing>>
    BY DEF Change
  <1>2. PICK x \in Readings(m) : condition' = [condition EXCEPT ![n][m] = x]
    BY DEF Change
  <1>3. condition' \in [Nodes -> Probes]
    <2>1. condition \in [Nodes -> Probes] /\ condition[n] \in Probes
      BY DEF IInv, TypeOK
    <2>2. [condition[n] EXCEPT ![m] = x] \in Probes
      BY <1>2, <2>1 DEF Probes, Readings
    <2>3. condition' = [condition EXCEPT ![n] = [condition[n] EXCEPT ![m] = x]]
      BY <1>2, <2>1
    <2> QED BY <2>1, <2>2, <2>3
  <1>4. changes' \in 0 .. MaxChanges
    BY AlertAssumption DEF Change, IInv, TypeOK
  <1>5. TypeOK'
    BY <1>1, <1>3, <1>4 DEF IInv, TypeOK
  <1>6. Passing' /\ Overlaps' /\ Fresh' /\ OneOpenAlertUnraced'
    BY <1>1, NothingMoves
  <1> QED BY <1>5, <1>6 DEF IInv

LEMMA StartPassKeeps ==
  ASSUME IInv, NEW w \in Monitors, StartPass(w)
  PROVE  IInv'
  <1>1. /\ todo' = [todo EXCEPT ![w] = Nodes]
        /\ pc' = [pc EXCEPT ![w] = IF Nodes = {} THEN "idle" ELSE "probe"]
        /\ UNCHANGED <<condition, changes, open, sampled, raced, reading, existing>>
    BY DEF StartPass, Goto, world
  <1>2. TypeOK'
    BY <1>1 DEF IInv, TypeOK, Labels
  <1>3. OthersStay(w) /\ pc'[w] # "reconcile"
    BY <1>1 DEF OthersStay, IInv, TypeOK
  <1>4. Passing'
    BY <1>1 DEF IInv, Passing, At, TypeOK
  <1> QED BY <1>1, <1>2, <1>3, <1>4, PassMoves DEF IInv

LEMMA ProbeKeeps ==
  ASSUME IInv, NEW w \in Monitors, Probe(w)
  PROVE  IInv'
  <1>1. /\ At(w, "probe")
        /\ reading' = [reading EXCEPT ![w] = condition[InHand(w)]]
        /\ pc' = [pc EXCEPT ![w] = "write_metric"]
        /\ UNCHANGED <<condition, changes, open, sampled, raced, todo, existing>>
    BY DEF Probe, Goto, world
  <1>2. InHand(w) \in Nodes
    BY <1>1, HandHeld DEF IInv, At
  <1>3. TypeOK'
    BY <1>1, <1>2 DEF IInv, TypeOK, Labels
  <1>4. OthersStay(w) /\ pc'[w] # "reconcile"
    BY <1>1 DEF OthersStay, IInv, TypeOK
  <1>5. Passing'
    BY <1>1 DEF IInv, Passing, At, TypeOK
  <1> QED BY <1>1, <1>3, <1>4, <1>5, PassMoves DEF IInv

LEMMA WriteMetricKeeps ==
  ASSUME IInv, NEW w \in Monitors, WriteMetric(w)
  PROVE  IInv'
  <1>1. /\ At(w, "write_metric")
        /\ sampled' = sampled \cup {InHand(w)}
        /\ pc' = [pc EXCEPT ![w] = "read_open"]
        /\ UNCHANGED <<condition, changes, open, raced, todo, reading, existing>>
    BY DEF WriteMetric, Goto, world
  <1>2. InHand(w) \in Nodes
    BY <1>1, HandHeld DEF IInv, At
  <1>3. TypeOK'
    BY <1>1, <1>2 DEF IInv, TypeOK, Labels
  <1>4. OthersStay(w) /\ pc'[w] # "reconcile"
    BY <1>1 DEF OthersStay, IInv, TypeOK
  <1>5. Passing'
    BY <1>1 DEF IInv, Passing, At, TypeOK
  <1> QED BY <1>1, <1>3, <1>4, <1>5, PassMoves DEF IInv

LEMMA AbortKeeps ==
  ASSUME IInv, NEW w \in Monitors, Abort(w)
  PROVE  IInv'
  <1>1. /\ todo' = [todo EXCEPT ![w] = {}] /\ pc' = [pc EXCEPT ![w] = "idle"]
        /\ reading' = [reading EXCEPT ![w] = Nothing]
        /\ existing' = [existing EXCEPT ![w] = {}]
        /\ UNCHANGED <<condition, open, sampled, raced>>
    BY DEF Abort, Goto
  <1>2. TypeOK'
    <2>1. Nothing \in Probes
      BY DEF Nothing, Probes, Readings
    <2>2. changes' \in 0 .. MaxChanges
      BY AlertAssumption DEF Abort, IInv, TypeOK
    <2> QED BY <1>1, <2>1, <2>2 DEF IInv, TypeOK, Labels
  <1>3. OthersStay(w) /\ pc'[w] # "reconcile"
    BY <1>1 DEF OthersStay, IInv, TypeOK
  <1>4. Passing'
    BY <1>1 DEF IInv, Passing, At, TypeOK
  <1> QED BY <1>1, <1>2, <1>3, <1>4, PassMoves DEF IInv

(* The SELECT of a node's open alerts: all of them where nothing is raced; and *)
(* where another evaluation has read them too, the node is raced from now on.  *)
LEMMA ReadOpenKeeps ==
  ASSUME IInv, NEW w \in Monitors, ReadOpen(w)
  PROVE  IInv'
  <1>1. PICK n \in Nodes : n = InHand(w)
    BY HandHeld DEF ReadOpen, IInv, At
  <1>2. /\ pc[w] = "read_open" /\ pc' = [pc EXCEPT ![w] = "reconcile"]
        /\ raced' = IF Reconciling(n) = {} THEN raced ELSE raced \cup {n}
        /\ UNCHANGED <<condition, changes, open, sampled, todo, reading>>
    BY <1>1 DEF ReadOpen, Goto, world, At
  <1>3. PICK rows \in SUBSET OpenOn(n) :
          /\ \A m \in {r.metric : r \in OpenOn(n)} : \E r \in rows : r.metric = m
          /\ \A r, q \in rows : r.metric = q.metric => r = q
          /\ existing' = [existing EXCEPT ![w] = rows]
    BY <1>1 DEF ReadOpen
  <1>4. rows \subseteq Row /\ \A r \in rows : r.node = n
    BY <1>3 DEF OpenOn, IInv, TypeOK
  <1>5. TypeOK'
    BY <1>1, <1>2, <1>3, <1>4 DEF IInv, TypeOK, Labels
  <1>6. Passing'
    BY <1>2 DEF IInv, Passing, At, TypeOK
  <1>7. /\ pc'[w] = "reconcile" /\ existing'[w] = rows /\ InHand(w)' = n
        /\ OthersStay(w)
        /\ \A v \in Monitors : InHand(v)' = InHand(v)
        /\ \A k \in Nodes : OpenOn(k)' = OpenOn(k)
    <2>1. \A v \in Monitors : InHand(v)' = InHand(v)
      BY <1>2, SameHand
    <2>2. \A k \in Nodes : OpenOn(k)' = OpenOn(k)
      BY <1>2 DEF OpenOn
    <2> QED BY <1>1, <1>2, <1>3, <2>1, <2>2 DEF OthersStay, IInv, TypeOK
  <1>8. raced \subseteq raced'
    BY <1>2
  <1>9. Overlaps'
    <2>1. ASSUME NEW v \in Monitors \ {w}, At(v, "reconcile"), InHand(v) = n
          PROVE  n \in raced'
      BY <1>2, <2>1 DEF Reconciling
    <2>2. \A v \in Monitors \ {w} : At(v, "reconcile")' => At(v, "reconcile")
      BY <1>7 DEF OthersStay, At
    <2> SUFFICES ASSUME NEW u \in Monitors, NEW v \in Monitors, u # v,
                        At(u, "reconcile")', At(v, "reconcile")', InHand(u) = InHand(v)
                 PROVE  InHand(v) \in raced'
      BY <1>7 DEF Overlaps
    <2>3. CASE u = w
      BY <1>1, <2>1, <2>2, <2>3
    <2>4. CASE v = w
      BY <1>1, <2>1, <2>2, <2>4
    <2>5. CASE u # w /\ v # w
      BY <1>8, <2>2, <2>5 DEF IInv, Overlaps
    <2> QED BY <2>3, <2>4, <2>5
  <1>10. n \notin raced => rows = OpenOn(n)
    <2> SUFFICES ASSUME n \notin raced, NEW r \in OpenOn(n) PROVE r \in rows
      BY <1>3
    <2>1. r.metric \in Metrics
      BY DEF OpenOn, IInv, TypeOK, Row
    <2>2. PICK q \in rows : q.metric = r.metric
      BY <1>3
    <2>3. q \in OpenOn(n)
      BY <1>3
    <2>4. q = r
      BY <2>1, <2>2, <2>3 DEF IInv, OneOpenAlertUnraced, Duplicates
    <2> QED BY <2>4
  <1>11. Fresh'
    <2> SUFFICES ASSUME NEW v \in Monitors, At(v, "reconcile")'
                 PROVE  /\ \A r \in existing'[v] : r.node = InHand(v)
                        /\ InHand(v) \notin raced' => existing'[v] = OpenOn(InHand(v))'
      BY <1>7 DEF Fresh
    <2>1. OpenOn(InHand(v))' = OpenOn(InHand(v))
      BY <1>2, <1>7 DEF OpenOn
    <2>2. CASE v = w
      BY <1>1, <1>4, <1>7, <1>8, <1>10, <2>1, <2>2
    <2>3. CASE v # w
      <3>1. At(v, "reconcile") /\ existing'[v] = existing[v]
        BY <1>7, <2>3 DEF OthersStay, At
      <3> QED BY <1>8, <2>1, <3>1 DEF IInv, Fresh
    <2> QED BY <2>2, <2>3
  <1>12. OneOpenAlertUnraced'
    BY <1>2, <1>8 DEF IInv, OneOpenAlertUnraced, Duplicates, OpenOn
  <1> QED BY <1>5, <1>6, <1>9, <1>11, <1>12 DEF IInv

-----------------------------------------------------------------------------
(* The transaction of an evaluation: the rows it leaves on its node, and that *)
(* it touches no other.                                                       *)
Cleared(w) == {r \in existing[w] : <<r.metric, r.level>> \notin Desired(reading[w])}
Raised(w) == {d \in Desired(reading[w]) : \A r \in existing[w] : <<r.metric, r.level>> # d}

LEMMA ReconcileEffects ==
  ASSUME IInv, NEW w \in Monitors, Reconcile(w)
  PROVE  /\ InHand(w) \in Nodes
         /\ pc[w] = "reconcile"
         /\ todo' = [todo EXCEPT ![w] = todo[w] \ {InHand(w)}]
         /\ pc' = [pc EXCEPT ![w] = IF todo[w] \ {InHand(w)} = {} THEN "idle" ELSE "probe"]
         /\ reading' = [reading EXCEPT ![w] = Nothing]
         /\ existing' = [existing EXCEPT ![w] = {}]
         /\ UNCHANGED <<condition, changes, sampled, raced>>
         /\ open' = (open \ Cleared(w)) \cup {FreshRow(InHand(w), d[1], d[2]) : d \in Raised(w)}
         /\ \A d \in Raised(w) :
              LET r == FreshRow(InHand(w), d[1], d[2]) IN
              r \in Row /\ r.node = InHand(w) /\ r.metric = d[1] /\ r.level = d[2]
  <1>1. InHand(w) \in Nodes /\ pc[w] = "reconcile"
    BY HandHeld DEF Reconcile, IInv, At
  <1>2. /\ open' = (open \ Cleared(w)) \cup {FreshRow(InHand(w), d[1], d[2]) : d \in Raised(w)}
        /\ \A d \in Raised(w) : FreeIds(InHand(w), d[1]) # {}
        /\ Done(w)
        /\ UNCHANGED <<condition, changes, sampled, raced>>
    BY DEF Reconcile, Cleared, Raised, world
  <1>3. ASSUME NEW d \in Raised(w)
        PROVE  d[1] \in Metrics /\ d[2] \in Levels
    BY DesiredOnce DEF Raised
  <1>4. ASSUME NEW d \in Raised(w)
        PROVE  /\ FreshRow(InHand(w), d[1], d[2]) \in Row
               /\ FreshRow(InHand(w), d[1], d[2]).node = InHand(w)
               /\ FreshRow(InHand(w), d[1], d[2]).metric = d[1]
               /\ FreshRow(InHand(w), d[1], d[2]).level = d[2]
    BY <1>1, <1>2, <1>3, FreshRowTyped
  <1> QED BY <1>1, <1>2, <1>4 DEF Done, Goto

(* Where nothing is raced, what stays open is what the probe asks for, once. *)
LEMMA ReconciledExactly ==
  ASSUME IInv, NEW w \in Monitors, Reconcile(w), InHand(w) \notin raced
  PROVE  /\ {<<r.metric, r.level>> : r \in {q \in open' : q.node = InHand(w)}} = Desired(reading[w])
         /\ \A r, q \in {q \in open' : q.node = InHand(w)} : r.metric = q.metric => r = q
  <1> DEFINE n == InHand(w)
             desired == Desired(reading[w])
             kept == existing[w] \ Cleared(w)
             new == {FreshRow(n, d[1], d[2]) : d \in Raised(w)}
             here == {q \in open' : q.node = n}
  <1>1. existing[w] = OpenOn(n)
    BY ReconcileEffects DEF IInv, Fresh, At
  <1>2. here = kept \cup new
    <2>1. open' = (open \ Cleared(w)) \cup new /\ \A r \in new : r.node = n
      BY ReconcileEffects
    <2>2. existing[w] = {r \in open : r.node = n}
      BY <1>1 DEF OpenOn
    <2> HIDE DEF n, new
    <2> QED BY <2>1, <2>2
  <1>3. \A r \in kept : <<r.metric, r.level>> \in desired
    BY DEF Cleared
  <1>4. \A r, q \in kept : r.metric = q.metric => r = q
    <2> SUFFICES ASSUME NEW r \in kept, NEW q \in kept, r.metric = q.metric PROVE r = q
      OBVIOUS
    <2>1. n \in Nodes /\ r.metric \in Metrics /\ r \in OpenOn(n) /\ q \in OpenOn(n)
      BY <1>1, ReconcileEffects DEF IInv, TypeOK, OpenOn, Row
    <2>2. Duplicates(n) = {}
      BY <2>1 DEF IInv, OneOpenAlertUnraced
    <2> HIDE DEF n, kept
    <2> QED BY <2>1, <2>2 DEF Duplicates
  <1>5. \A r \in new : \E d \in Raised(w) : r = FreshRow(n, d[1], d[2]) /\ r.metric = d[1] /\ r.level = d[2]
    BY ReconcileEffects
  <1>6. \A d \in Raised(w) : \E r \in new : r.metric = d[1] /\ r.level = d[2]
    BY ReconcileEffects
  <1>7. \A d \in Raised(w) : d \in desired /\ d = <<d[1], d[2]>>
    BY DesiredOnce DEF Raised
  <1>8. \A d \in desired : d \in Raised(w) \/ \E r \in kept : <<r.metric, r.level>> = d
    BY DEF Raised, Cleared
  <1> HIDE DEF n, desired, kept, new, here
  <1>9. {<<r.metric, r.level>> : r \in here} = desired
    <2>1. ASSUME NEW r \in here PROVE <<r.metric, r.level>> \in desired
      <3>1. CASE r \in kept
        BY <1>3, <3>1
      <3>2. CASE r \in new
        BY <1>5, <1>7, <3>2
      <3> QED BY <1>2, <3>1, <3>2
    <2>2. ASSUME NEW d \in desired PROVE \E r \in here : d = <<r.metric, r.level>>
      BY <1>2, <1>6, <1>7, <1>8
    <2> QED BY <2>1, <2>2
  <1>10. ASSUME NEW r \in here, NEW q \in here, r.metric = q.metric
         PROVE  r = q
    <2>1. ASSUME NEW k \in kept, NEW d \in Raised(w), k.metric = d[1]
          PROVE  FALSE
      <3>1. /\ <<k.metric, k.level>> \in desired /\ d \in desired
            /\ <<k.metric, k.level>>[1] = d[1]
        BY <1>3, <1>7, <2>1
      <3>2. <<k.metric, k.level>> = d
        BY <3>1, DesiredOnce DEF desired
      <3>3. k \in existing[w]
        BY DEF kept
      <3> QED BY <3>2, <3>3 DEF Raised
    <2>2. CASE r \in kept /\ q \in kept
      BY <1>4, <1>10, <2>2
    <2>3. CASE r \in new /\ q \in new
      <3>1. PICK d \in Raised(w) : r = FreshRow(n, d[1], d[2]) /\ r.metric = d[1]
        BY <1>5, <2>3
      <3>2. PICK e \in Raised(w) : q = FreshRow(n, e[1], e[2]) /\ q.metric = e[1]
        BY <1>5, <2>3
      <3>3. d = e
        BY <1>7, <1>10, <3>1, <3>2, DesiredOnce DEF desired
      <3> QED BY <3>1, <3>2, <3>3
    <2>4. CASE r \in kept /\ q \in new
      BY <1>5, <1>10, <2>1, <2>4
    <2>5. CASE r \in new /\ q \in kept
      BY <1>5, <1>10, <2>1, <2>5
    <2> QED BY <1>2, <2>2, <2>3, <2>4, <2>5
  <1> QED BY <1>9, <1>10 DEF n, desired, here

LEMMA ReconcileKeeps ==
  ASSUME IInv, NEW w \in Monitors, Reconcile(w)
  PROVE  IInv'
  <1>1. PICK n \in Nodes : n = InHand(w)
    BY ReconcileEffects
  <1>2. /\ pc[w] = "reconcile" /\ todo' = [todo EXCEPT ![w] = todo[w] \ {n}]
        /\ pc' = [pc EXCEPT ![w] = IF todo[w] \ {n} = {} THEN "idle" ELSE "probe"]
        /\ reading' = [reading EXCEPT ![w] = Nothing]
        /\ existing' = [existing EXCEPT ![w] = {}]
        /\ UNCHANGED <<condition, changes, sampled, raced>>
    BY <1>1, ReconcileEffects
  <1>3. /\ open' \subseteq Row
        /\ \A k \in Nodes \ {n} : OpenOn(k)' = OpenOn(k)
    <2> DEFINE new == {FreshRow(InHand(w), d[1], d[2]) : d \in Raised(w)}
    <2>1. /\ open' = (open \ Cleared(w)) \cup new
          /\ \A r \in new : r \in Row /\ r.node = n
      BY <1>1, ReconcileEffects
    <2>2. \A r \in Cleared(w) : r.node = n
      BY <1>1, <1>2 DEF Cleared, IInv, Fresh, At
    <2> HIDE DEF new
    <2> QED BY <2>1, <2>2 DEF OpenOn, IInv, TypeOK
  <1>4. TypeOK'
    <2>1. Nothing \in Probes
      BY DEF Nothing, Probes, Readings
    <2> QED BY <1>2, <1>3, <2>1 DEF IInv, TypeOK, Labels
  <1>5. Passing'
    BY <1>2 DEF IInv, Passing, At, TypeOK
  <1>6. ASSUME NEW v \in Monitors, At(v, "reconcile")'
        PROVE  /\ v # w /\ At(v, "reconcile") /\ InHand(v)' = InHand(v)
               /\ existing'[v] = existing[v] /\ InHand(v) \in Nodes
    <2>1. v # w
      BY <1>2, <1>6 DEF At, IInv, TypeOK
    <2>2. At(v, "reconcile") /\ todo'[v] = todo[v] /\ existing'[v] = existing[v]
      BY <1>2, <1>6, <2>1 DEF At, IInv, TypeOK
    <2> QED BY <2>1, <2>2, SameHand, HandHeld DEF IInv, At
  <1>7. Overlaps'
    BY <1>2, <1>6 DEF IInv, Overlaps
  <1>8. Fresh'
    <2> SUFFICES ASSUME NEW v \in Monitors, At(v, "reconcile")'
                 PROVE  /\ \A r \in existing'[v] : r.node = InHand(v)'
                        /\ InHand(v)' \notin raced' => existing'[v] = OpenOn(InHand(v))'
      BY DEF Fresh
    <2>1. PICK k \in Nodes : k = InHand(v)
      BY <1>6
    <2>2. /\ v # w /\ At(v, "reconcile") /\ InHand(v)' = k /\ existing'[v] = existing[v]
      BY <1>6, <2>1
    <2>3. k \notin raced => k # n
      BY <1>1, <1>2, <2>1, <2>2 DEF IInv, Overlaps, At
    <2>4. k # n => OpenOn(k)' = OpenOn(k)
      BY <1>3
    <2>5. OpenOn(InHand(v))' = OpenOn(k)'
      BY <2>2 DEF OpenOn
    <2> QED BY <1>2, <2>1, <2>2, <2>3, <2>4, <2>5 DEF IInv, Fresh
  <1>9. OneOpenAlertUnraced'
    <2>1. ASSUME NEW k \in Nodes \ raced PROVE Duplicates(k)' = {}
      <3>1. CASE k = n
        <4>1. \A r, q \in {q \in open' : q.node = n} : r.metric = q.metric => r = q
          BY <1>1, <2>1, <3>1, ReconciledExactly
        <4> QED BY <3>1, <4>1 DEF Duplicates, OpenOn
      <3>2. CASE k # n
        <4>1. OpenOn(k)' = OpenOn(k) /\ Duplicates(k) = {}
          BY <1>3, <2>1, <3>2 DEF IInv, OneOpenAlertUnraced
        <4> QED BY <4>1 DEF Duplicates
      <3> QED BY <3>1, <3>2
    <2> QED BY <1>2, <2>1 DEF OneOpenAlertUnraced
  <1> QED BY <1>4, <1>5, <1>7, <1>8, <1>9 DEF IInv

-----------------------------------------------------------------------------
LEMMA NextKeeps == IInv /\ [Next]_vars => IInv'
  <1> SUFFICES ASSUME IInv, [Next]_vars PROVE IInv'
    OBVIOUS
  <1>1. ASSUME NEW n \in Nodes, NEW m \in Metrics, Change(n, m) PROVE IInv'
    BY <1>1, ChangeKeeps
  <1>2. ASSUME NEW w \in Monitors, StartPass(w) PROVE IInv'
    BY <1>2, StartPassKeeps
  <1>3. ASSUME NEW w \in Monitors, Probe(w) PROVE IInv'
    BY <1>3, ProbeKeeps
  <1>4. ASSUME NEW w \in Monitors, WriteMetric(w) PROVE IInv'
    BY <1>4, WriteMetricKeeps
  <1>5. ASSUME NEW w \in Monitors, ReadOpen(w) PROVE IInv'
    BY <1>5, ReadOpenKeeps
  <1>6. ASSUME NEW w \in Monitors, Reconcile(w) PROVE IInv'
    BY <1>6, ReconcileKeeps
  <1>7. ASSUME NEW w \in Monitors, Abort(w) PROVE IInv'
    BY <1>7, AbortKeeps
  <1>8. CASE UNCHANGED vars
    <2>1. UNCHANGED <<condition, changes, open, sampled, raced, pc, todo, reading, existing>>
      BY <1>8 DEF vars
    <2>2. TypeOK'
      BY <2>1 DEF IInv, TypeOK
    <2> QED BY <2>1, <2>2, NothingMoves DEF IInv
  <1> QED BY <1>1, <1>2, <1>3, <1>4, <1>5, <1>6, <1>7, <1>8 DEF Next, Step

(* The strengthened invariant holds in every behaviour. *)
THEOREM Invariance == Spec => []IInv
  BY InitEstablishes, NextKeeps, PTL DEF Spec

(* Every variable of the monitor keeps its type; no row is ever raised with a *)
(* primary key that is in use.                                                *)
THEOREM TypeCorrect == Spec => []TypeOK
  <1>1. IInv => TypeOK
    BY DEF IInv
  <1> QED BY <1>1, Invariance, PTL

(* evaluate raises an alert only where none of the metric is open: a node has *)
(* two only if two evaluations of it overlapped, however many passes run,     *)
(* are killed or are late with their probes.                                  *)
THEOREM OneOpenAlert == Spec => []OneOpenAlertUnraced
  <1>1. IInv => OneOpenAlertUnraced
    BY DEF IInv
  <1> QED BY <1>1, Invariance, PTL

(* An evaluation leaves exactly the alerts its own probe calls for, level by  *)
(* level, unless another one overlaps.                                        *)
THEOREM ExactEvaluation == Spec => EvaluationIsExact
  <1> DEFINE Exact(w) ==
        At(w, "reconcile") /\ todo'[w] # todo[w] /\ changes' = changes /\ InHand(w) \notin raced
            => {<<r.metric, r.level>> : r \in {q \in open' : q.node = InHand(w)}}
                 = Desired(reading[w])
  <1>1. IInv /\ [Next]_vars => \A w \in Monitors : Exact(w)
    <2> SUFFICES ASSUME IInv, Next, NEW w \in Monitors, At(w, "reconcile"),
                        todo'[w] # todo[w], changes' = changes, InHand(w) \notin raced
                 PROVE  {<<r.metric, r.level>> : r \in {q \in open' : q.node = InHand(w)}}
                          = Desired(reading[w])
      BY DEF vars
    <2>1. ASSUME NEW v \in Monitors, Step(v) PROVE v = w /\ Reconcile(w)
      <3>1. todo' = [todo EXCEPT ![v] = todo'[v]]
        BY <2>1 DEF Step, StartPass, Probe, WriteMetric, ReadOpen, Reconcile, Done, IInv, TypeOK
      <3>2. v = w
        BY <3>1 DEF IInv, TypeOK
      <3> QED BY <2>1, <3>2 DEF Step, StartPass, Probe, WriteMetric, ReadOpen, At
    <2>2. ASSUME NEW v \in Monitors, Abort(v) PROVE FALSE
      BY <2>2 DEF Abort, IInv, TypeOK
    <2>3. ASSUME NEW n \in Nodes, NEW m \in Metrics, Change(n, m) PROVE FALSE
      BY <2>3 DEF Change
    <2>4. Reconcile(w)
      BY <2>1, <2>2, <2>3 DEF Next
    <2> QED BY <2>4, ReconciledExactly
  <1> QED BY <1>1, Invariance, PTL DEF Spec, EvaluationIsExact
=============================================================================
